----------------------------- MODULE XdrProofs ------------------------------
(***************************************************************************)
(* Theorems about the encoder and the decoder, for every base of the       *)
(* bytes, every set of messages, types and values, and whatever a peer     *)
(* sends.  Recursion is a hypothesis of each: the calls call what they are *)
(* calls of.                                                               *)
(*                                                                         *)
(* The parts of a message are codecs, and the argument is about two of     *)
(* them, one after the other.  Coded says that a decoder reads a value     *)
(* from its bytes, whatever follows them, and from no part of them: that   *)
(* is kept when two encodings are put together (CodedThen), so that values *)
(* are read back by induction on how deep they are nested.  Measured is    *)
(* the other way: what is read from some bytes is a value of the type, and *)
(* is written in as many; by induction on the length of the stream and on  *)
(* the depth of the type.  Length is what a value is written in, and what  *)
(* ReadDir measures of a list of entries.                                  *)
(***************************************************************************)
EXTENDS Xdr, SequenceTheorems, WellFoundedInduction, TLAPS

-----------------------------------------------------------------------------
(* Numbers. *)

\* A nonempty set of natural numbers has a least element: the inductions
\* below look for the least counterexample.
LEMMA Least ==
  ASSUME NEW S, S \subseteq Nat, S # {}
  PROVE  \E n \in S : \A k \in S : n <= k
<1>1. IsWellFoundedOn(OpToRel(<, Nat), Nat)
  BY NatLessThanWellFounded
<1>2. PICK n \in S : \A k \in S : ~(<<k, n>> \in OpToRel(<, Nat))
  BY <1>1, WFMin
<1>3. ASSUME NEW k \in S PROVE n <= k
  <2>1. n \in Nat /\ k \in Nat
    OBVIOUS
  <2>2. ~(<<k, n>> \in OpToRel(<, Nat))
    BY <1>2
  <2>3. ~(k < n)
    BY <2>1, <2>2 DEF OpToRel
  <2> QED BY <2>1, <2>3
<1> QED BY <1>3

\* Division with a remainder.
LEMMA DivMod ==
  ASSUME NEW v \in Int, NEW b \in Nat, b > 0
  PROVE  /\ v \div b \in Int /\ v % b \in 0 .. b - 1
         /\ v = b * (v \div b) + (v % b)
OBVIOUS

\* Quotient and remainder are the only ones.
LEMMA DivUnique ==
  ASSUME NEW q \in Int, NEW b \in Nat, b > 0, NEW r \in 0 .. b - 1
  PROVE  (b * q + r) \div b = q /\ (b * q + r) % b = r
OBVIOUS

\* The quotient of a number below b * k is below k.
LEMMA DivBelow ==
  ASSUME NEW b \in Nat, b > 0, NEW k \in Nat, NEW v \in Nat, v < b * k
  PROVE  v \div b \in Nat /\ v \div b < k
<1> DEFINE q == v \div b
           r == v % b
<1>1. q \in Int /\ r \in 0 .. b - 1 /\ v = b * q + r
  BY DivMod
<1> HIDE DEF q, r
<1>2. q >= 0
  <2> SUFFICES ASSUME q <= -1 PROVE FALSE
    BY <1>1
  <2>1. b * q <= b * (-1)
    BY <1>1
  <2> QED BY <1>1, <2>1
<1>3. q < k
  <2> SUFFICES ASSUME q >= k PROVE FALSE
    BY <1>1
  <2>1. b * q >= b * k
    BY <1>1
  <2>2. b * q \in Int /\ b * k \in Int
    BY <1>1
  <2> QED BY <1>1, <2>1, <2>2
<1> QED BY <1>1, <1>2, <1>3 DEF q

\* A multiple of b is only seen in the quotient.
LEMMA DivShift ==
  ASSUME NEW b \in Nat, b > 0, NEW k \in Int, NEW v \in Int
  PROVE  /\ (v + b * k) \div b = (v \div b) + k
         /\ (v + b * k) % b = v % b
<1> DEFINE q == v \div b
           r == v % b
<1>1. q \in Int /\ r \in 0 .. b - 1 /\ v = b * q + r
  BY DivMod
<1> HIDE DEF q, r
<1>2. v + b * k = b * (q + k) + r
  BY <1>1
<1>3. (b * (q + k) + r) \div b = q + k /\ (b * (q + k) + r) % b = r
  BY <1>1, DivUnique
<1> QED BY <1>2, <1>3 DEF q, r

\* What Base and the powers of it are.
LEMMA Bases ==
  /\ Base \in Nat /\ Base >= 2 /\ Base > 0
  /\ Base * Base \in Nat /\ Base * Base * Base \in Nat /\ Wide \in Nat
  /\ Wide = Base * (Base * (Base * Base)) /\ Wide >= 16
  /\ MaxInt32 \in Nat /\ MaxInt32 >= 7 /\ Wide = 2 * MaxInt32 + 2
  /\ MaxUint = Wide - 1
<1> USE BaseAssumption
<1>1. Base * Base \in Nat /\ Base * Base >= 4
  OBVIOUS
<1>2. Base * Base * Base \in Nat /\ Base * Base * Base >= 8
  BY <1>1
<1>3. Wide \in Nat /\ Wide >= 16
  BY <1>2 DEF Wide
<1>4. Wide = Base * (Base * (Base * Base))
  BY <1>1, <1>2 DEF Wide
<1>5. PICK h \in Nat : Base = 2 * h
  <2>1. Base = 2 * (Base \div 2) + (Base % 2)
    BY DivMod
  <2>2. Base \div 2 \in Nat
    OBVIOUS
  <2> QED BY <2>1, <2>2
<1>6. Wide = 2 * (h * (Base * (Base * Base)))
  <2>1. Base * (Base * Base) \in Nat
    BY <1>1
  <2> DEFINE c == Base * (Base * Base)
  <2> HIDE DEF c
  <2>2. (2 * h) * c = 2 * (h * c)
    BY <2>1 DEF c
  <2> QED BY <1>4, <1>5, <2>2 DEF c
<1>7. h * (Base * (Base * Base)) \in Nat
  <2>1. Base * (Base * Base) \in Nat
    BY <1>1
  <2> DEFINE c == Base * (Base * Base)
  <2> HIDE DEF c
  <2> QED BY <2>1 DEF c
<1> DEFINE w == h * (Base * (Base * Base))
<1> HIDE DEF w
<1>8. w \in Nat /\ Wide = 2 * w
  BY <1>6, <1>7 DEF w
<1>9. Wide \div 2 = w
  BY <1>8
<1> QED BY <1>1, <1>2, <1>3, <1>4, <1>8, <1>9 DEF MaxInt32, MaxUint

-----------------------------------------------------------------------------
(* Words. *)

\* The four bytes of a word.
LEMMA UintBytes ==
  ASSUME NEW v \in Int
  PROVE  EncodeUint(v) \in Seq(Byte) /\ Len(EncodeUint(v)) = 4
<1> DEFINE a == v \div Base
           b == a \div Base
           c == b \div Base
<1>1. Base \in Nat /\ Base > 0
  BY Bases
<1>2. a \in Int /\ v % Base \in 0 .. Base - 1
  BY <1>1, DivMod
<1> HIDE DEF a
<1>3. b \in Int /\ a % Base \in 0 .. Base - 1
  BY <1>1, <1>2, DivMod
<1> HIDE DEF b
<1>4. c \in Int /\ b % Base \in 0 .. Base - 1
  BY <1>1, <1>3, DivMod
<1> HIDE DEF c
<1>5. c % Base \in 0 .. Base - 1
  BY <1>1, <1>4, DivMod
<1>6. EncodeUint(v) = <<c % Base, b % Base, a % Base, v % Base>>
  BY DEF EncodeUint, a, b, c
<1> QED BY <1>2, <1>3, <1>4, <1>5, <1>6 DEF Byte

\* They are the number again, if it fits into a word.
LEMMA UintNumber ==
  ASSUME NEW v \in 0 .. MaxUint
  PROVE  Number(EncodeUint(v)) = v
<1> DEFINE B == Base
           a == v \div B
           b == a \div B
           c == b \div B
<1>1. B \in Nat /\ B > 0 /\ v \in Nat /\ v < B * (B * (B * B))
      /\ B * B \in Nat /\ B * (B * B) \in Nat
  BY Bases DEF MaxUint
<1> HIDE DEF B
<1>2. a \in Nat /\ a < B * (B * B) /\ v = B * a + (v % B) /\ v % B \in 0 .. B - 1
  BY <1>1, DivMod, DivBelow
<1> HIDE DEF a
<1>3. b \in Nat /\ b < B * B /\ a = B * b + (a % B) /\ a % B \in 0 .. B - 1
  BY <1>1, <1>2, DivMod, DivBelow
<1> HIDE DEF b
<1>4. c \in Nat /\ c < B /\ b = B * c + (b % B) /\ b % B \in 0 .. B - 1
  BY <1>1, <1>3, DivMod, DivBelow
<1> HIDE DEF c
<1>5. c % B = c
  <2>1. (B * 0 + c) % B = c
    BY <1>1, <1>4, DivUnique
  <2> QED BY <1>1, <1>4, <2>1
<1>6. EncodeUint(v) = <<c, b % B, a % B, v % B>>
  BY <1>5 DEF EncodeUint, a, b, c, B
<1>7. Number(EncodeUint(v)) = ((c * B + (b % B)) * B + (a % B)) * B + (v % B)
  BY <1>6 DEF Number, B
<1>8. c * B + (b % B) = b
  BY <1>1, <1>4
<1>9. b * B + (a % B) = a
  BY <1>1, <1>3
<1>10. a * B + (v % B) = v
  BY <1>1, <1>2
<1> QED BY <1>7, <1>8, <1>9, <1>10

\* A word more or less makes no difference to the bytes.
LEMMA UintShift ==
  ASSUME NEW v \in Int, NEW k \in Int
  PROVE  EncodeUint(v + Wide * k) = EncodeUint(v)
<1> DEFINE B == Base
           w == v + Wide * k
           k1 == (B * (B * B)) * k
           k2 == (B * B) * k
           k3 == B * k
<1>1. B \in Nat /\ B > 0 /\ B * B \in Nat /\ B * (B * B) \in Nat
      /\ Wide = B * (B * (B * B))
  BY Bases
<1> HIDE DEF B
<1>2. k1 \in Int /\ k2 \in Int /\ k3 \in Int
  BY <1>1
<1>3. w = v + B * k1 /\ k1 = B * k2 /\ k2 = B * k3
  <2>1. (B * (B * (B * B))) * k = B * ((B * (B * B)) * k)
    BY <1>1
  <2>2. (B * (B * B)) * k = B * ((B * B) * k)
    BY <1>1
  <2>3. (B * B) * k = B * (B * k)
    BY <1>1
  <2> QED BY <1>1, <2>1, <2>2, <2>3
<1> HIDE DEF w, k1, k2, k3
<1>4. v \div B \in Int /\ (v \div B) \div B \in Int
      /\ ((v \div B) \div B) \div B \in Int
  BY <1>1, DivMod
<1>5. w \div B = (v \div B) + k1 /\ w % B = v % B
  BY <1>1, <1>2, <1>3, DivShift
<1>6. /\ ((v \div B) + k1) \div B = ((v \div B) \div B) + k2
      /\ ((v \div B) + k1) % B = (v \div B) % B
  BY <1>1, <1>2, <1>3, <1>4, DivShift
<1>7. /\ (((v \div B) \div B) + k2) \div B = (((v \div B) \div B) \div B) + k3
      /\ (((v \div B) \div B) + k2) % B = ((v \div B) \div B) % B
  BY <1>1, <1>2, <1>3, <1>4, DivShift
<1>8. ((((v \div B) \div B) \div B) + k3) % B = (((v \div B) \div B) \div B) % B
  <2>1. k3 = B * k
    BY DEF k3
  <2> QED BY <1>1, <1>4, <2>1, DivShift
<1> QED BY <1>5, <1>6, <1>7, <1>8 DEF EncodeUint, B, w

\* A signed number is read from its bytes.
LEMMA IntNumber ==
  ASSUME NEW v \in -MaxInt32 - 1 .. MaxInt32
  PROVE  Signed(Number(EncodeUint(v))) = v
<1>1. MaxInt32 \in Nat /\ Wide = 2 * MaxInt32 + 2 /\ MaxUint = Wide - 1
      /\ Wide \in Nat
  BY Bases
<1>2. CASE v >= 0
  <2>1. Number(EncodeUint(v)) = v
    BY <1>1, <1>2, UintNumber
  <2> QED BY <1>1, <1>2, <2>1 DEF Signed
<1>3. CASE v < 0
  <2>1. /\ v + Wide \in 0 .. MaxUint /\ v + Wide > MaxInt32
        /\ v + Wide * 1 = v + Wide
    BY <1>1, <1>3
  <2>2. Number(EncodeUint(v + Wide)) = v + Wide
    BY <2>1, UintNumber
  <2>3. EncodeUint(v + Wide * 1) = EncodeUint(v)
    BY UintShift
  <2> QED BY <1>1, <2>1, <2>2, <2>3 DEF Signed
<1> QED BY <1>1, <1>2, <1>3

\* Two words for a longer number.
LEMMA UhyperNumber ==
  ASSUME NEW v \in 0 .. Wide * Wide - 1
  PROVE  /\ EncodeUhyper(v) \in Seq(Byte) /\ Len(EncodeUhyper(v)) = 8
         /\ Hyper(EncodeUhyper(v)) = v
<1> DEFINE W == Wide
           q == v \div W
           r == v % W
           h == EncodeUint(q)
           l == EncodeUint(v)
           b == EncodeUhyper(v)
<1>1. W \in Nat /\ W > 0 /\ MaxUint = W - 1 /\ v \in Nat /\ v < W * W
  BY Bases
<1>2. q \in Nat /\ q < W /\ r \in 0 .. W - 1 /\ v = W * q + r
  <2> HIDE DEF W
  <2> QED BY <1>1, DivMod, DivBelow
<1>3. l = EncodeUint(r)
  <2>1. EncodeUint(r + Wide * q) = EncodeUint(r)
    BY <1>2, UintShift
  <2>2. r + Wide * q = v
    <3> HIDE DEF q, r
    <3> QED BY <1>1, <1>2
  <2> QED BY <2>1, <2>2
<1>4. Number(h) = q
  BY <1>1, <1>2, UintNumber
<1>5. Number(l) = r
  BY <1>1, <1>2, <1>3, UintNumber
<1>6. h \in Seq(Byte) /\ Len(h) = 4 /\ l \in Seq(Byte) /\ Len(l) = 4
  BY <1>2, UintBytes
<1>7. b = h \o l
  BY DEF EncodeUhyper
<1> HIDE DEF b, h, l, q, r, W
<1>8. /\ b \in Seq(Byte) /\ Len(b) = 8
      /\ \A i \in 1 .. 8 : b[i] = IF i <= 4 THEN h[i] ELSE l[i - 4]
  <2>1. /\ h \o l \in Seq(Byte) /\ Len(h \o l) = Len(h) + Len(l)
        /\ \A i \in 1 .. Len(h) + Len(l) :
             (h \o l)[i] = IF i <= Len(h) THEN h[i] ELSE l[i - Len(h)]
    BY <1>6, ConcatProperties
  <2> QED BY <1>6, <1>7, <2>1
<1>9. Number(b) = q
  BY <1>4, <1>8 DEF Number
<1>10. SubSeq(b, 5, 8)[1] = l[1] /\ SubSeq(b, 5, 8)[2] = l[2]
       /\ SubSeq(b, 5, 8)[3] = l[3] /\ SubSeq(b, 5, 8)[4] = l[4]
  <2>1. \A i \in 5 .. 8 : b[i] \in Byte
    <3>1. \A i \in 1 .. Len(b) : b[i] \in Byte
      BY <1>8, ElementOfSeq
    <3> QED BY <1>8, <3>1
  <2>2. \A i \in 1 .. 4 : SubSeq(b, 5, 8)[i] = b[i + 4]
    <3>1. \A i \in 1 .. 8 - 5 + 1 : SubSeq(b, 5, 8)[i] = b[5 + i - 1]
      BY ONLY <2>1, SubSeqProperties
    <3> QED BY <3>1
  <2> QED BY <1>8, <2>2
<1>11. Number(SubSeq(b, 5, 8)) = r
  BY <1>5, <1>10 DEF Number
<1>12. Hyper(b) = q * W + r
  BY <1>9, <1>11 DEF Hyper, W
<1> QED BY <1>1, <1>2, <1>8, <1>12 DEF b

-----------------------------------------------------------------------------
(* Codecs.  A decoder is a function of the stream: it reads v from the     *)
(* bytes b, leaves what follows them, and reads nothing from a part of     *)
(* them.                                                                   *)

Coded(D, b, v) ==
  /\ b \in Seq(Byte) /\ Len(b) % 4 = 0
  /\ \A rest \in Seq(Byte) : D[b \o rest] = Read(v, rest)
  /\ \A n \in 0 .. Len(b) - 1 : ~D[SubSeq(b, 1, n)].ok

\* What Read and Unread are made of.
LEMMA Reading ==
  /\ \A v, r : Read(v, r).ok /\ Read(v, r).value = v /\ Read(v, r).rest = r
  /\ ~Unread.ok
BY DEF Read, Unread

\* What Written, Unwritten and Then are made of.
LEMMA Writing ==
  /\ \A b : Written(b).ok /\ Written(b).bytes = b
  /\ ~Unwritten.ok /\ Unwritten.bytes = <<>>
  /\ \A x, y : x.ok /\ y.ok => Then(x, y) = Written(x.bytes \o y.bytes)
  /\ \A x, y : ~(x.ok /\ y.ok) => Then(x, y) = Unwritten
BY DEF Written, Unwritten, Then

\* The first n of a sequence of bytes, and what is after them.
LEMMA Parts ==
  ASSUME NEW s \in Seq(Byte), NEW n \in 0 .. Len(s)
  PROVE  /\ SubSeq(s, 1, n) \in Seq(Byte) /\ Len(SubSeq(s, 1, n)) = n
         /\ \A i \in 1 .. n : SubSeq(s, 1, n)[i] = s[i]
         /\ SubSeq(s, n + 1, Len(s)) \in Seq(Byte)
         /\ Len(SubSeq(s, n + 1, Len(s))) = Len(s) - n
         /\ \A i \in 1 .. Len(s) - n : SubSeq(s, n + 1, Len(s))[i] = s[n + i]
<1>1. Len(s) \in Nat /\ \A i \in 1 .. Len(s) : s[i] \in Byte
  BY LenProperties, ElementOfSeq
<1> DEFINE l == Len(s)
<1>2. l \in Nat /\ n \in 0 .. l /\ \A i \in 1 .. l : s[i] \in Byte
  BY <1>1
<1> HIDE DEF l
<1>3. /\ SubSeq(s, 1, n) \in Seq(Byte)
      /\ Len(SubSeq(s, 1, n)) = n
      /\ \A i \in 1 .. n : SubSeq(s, 1, n)[i] = s[i]
  <2>1. 1 \in Int /\ n \in Int /\ \A i \in 1 .. n : s[i] \in Byte
    BY <1>2
  <2>2. /\ SubSeq(s, 1, n) \in Seq(Byte)
        /\ Len(SubSeq(s, 1, n)) = IF 1 <= n THEN n - 1 + 1 ELSE 0
        /\ \A i \in 1 .. n - 1 + 1 : SubSeq(s, 1, n)[i] = s[1 + i - 1]
    BY ONLY <2>1, SubSeqProperties
  <2> QED BY <1>2, <2>2
<1>4. /\ SubSeq(s, n + 1, l) \in Seq(Byte)
      /\ Len(SubSeq(s, n + 1, l)) = l - n
      /\ \A i \in 1 .. l - n : SubSeq(s, n + 1, l)[i] = s[n + i]
  <2>1. n + 1 \in Int /\ l \in Int /\ \A i \in n + 1 .. l : s[i] \in Byte
    BY <1>2
  <2>2. /\ SubSeq(s, n + 1, l) \in Seq(Byte)
        /\ Len(SubSeq(s, n + 1, l)) = IF n + 1 <= l THEN l - (n + 1) + 1 ELSE 0
        /\ \A i \in 1 .. l - (n + 1) + 1 :
             SubSeq(s, n + 1, l)[i] = s[(n + 1) + i - 1]
    BY ONLY <2>1, SubSeqProperties
  <2> QED BY <1>2, <2>2
<1> QED BY <1>3, <1>4 DEF l

\* The bytes b before others are found again, and so are the others.
LEMMA PartsOfConcat ==
  ASSUME NEW b \in Seq(Byte), NEW rest \in Seq(Byte)
  PROVE  /\ b \o rest \in Seq(Byte) /\ Len(b \o rest) = Len(b) + Len(rest)
         /\ SubSeq(b \o rest, 1, Len(b)) = b
         /\ SubSeq(b \o rest, Len(b) + 1, Len(b \o rest)) = rest
         /\ \A n \in 0 .. Len(b) : SubSeq(b \o rest, 1, n) = SubSeq(b, 1, n)
         /\ \A n \in Len(b) .. Len(b) + Len(rest) :
              SubSeq(b \o rest, 1, n) = b \o SubSeq(rest, 1, n - Len(b))
<1> DEFINE w == b \o rest
           lb == Len(b)
           lr == Len(rest)
<1>1. lb \in Nat /\ lr \in Nat
  BY LenProperties
<1>2. /\ w \in Seq(Byte) /\ Len(w) = lb + lr
      /\ \A i \in 1 .. lb + lr : w[i] = IF i <= lb THEN b[i] ELSE rest[i - lb]
  BY ConcatProperties
<1> HIDE DEF w, lb, lr
<1>3. \A n \in 0 .. lb : SubSeq(w, 1, n) = SubSeq(b, 1, n)
  <2> TAKE n \in 0 .. lb
  <2>1. n \in 0 .. Len(w) /\ n \in 0 .. Len(b)
    BY <1>1, <1>2 DEF lb
  <2>2. /\ SubSeq(w, 1, n) \in Seq(Byte) /\ Len(SubSeq(w, 1, n)) = n
        /\ \A i \in 1 .. n : SubSeq(w, 1, n)[i] = w[i]
    BY <1>2, <2>1, Parts
  <2>3. /\ SubSeq(b, 1, n) \in Seq(Byte) /\ Len(SubSeq(b, 1, n)) = n
        /\ \A i \in 1 .. n : SubSeq(b, 1, n)[i] = b[i]
    BY <2>1, Parts
  <2>4. \A i \in 1 .. n : w[i] = b[i]
    BY <1>1, <1>2
  <2>5. \A i \in 1 .. n : SubSeq(w, 1, n)[i] = SubSeq(b, 1, n)[i]
    BY <2>2, <2>3, <2>4
  <2> QED BY ONLY <2>2, <2>3, <2>5, SeqEqual
<1>4. SubSeq(b, 1, lb) = b
  BY SubSeqFull DEF lb
<1>5. SubSeq(w, lb + 1, Len(w)) = rest
  <2>1. lb \in 0 .. Len(w)
    BY <1>1, <1>2
  <2> DEFINE t == SubSeq(w, lb + 1, Len(w))
  <2>2. /\ t \in Seq(Byte) /\ Len(t) = Len(w) - lb
        /\ \A i \in 1 .. Len(w) - lb : t[i] = w[lb + i]
    BY <1>2, <2>1, Parts
  <2> HIDE DEF t
  <2>3. Len(t) = Len(rest) /\ \A i \in 1 .. Len(t) : t[i] = rest[i]
    <3>1. Len(t) = lr
      BY <1>1, <1>2, <2>2
    <3>2. ASSUME NEW i \in 1 .. lr PROVE t[i] = rest[i]
      <4>1. lb + i \in 1 .. lb + lr /\ ~(lb + i <= lb) /\ (lb + i) - lb = i
            /\ i \in 1 .. Len(w) - lb
        BY <1>1, <1>2
      <4>2. t[i] = w[lb + i]
        BY <2>2, <4>1
      <4>3. w[lb + i] = rest[(lb + i) - lb]
        BY <1>2, <4>1
      <4> QED BY <4>1, <4>2, <4>3
    <3> QED BY <3>1, <3>2 DEF lr
  <2>4. t = rest
    BY ONLY <2>2, <2>3, SeqEqual, rest \in Seq(Byte)
  <2> QED BY <2>4 DEF t
<1>6. \A n \in lb .. lb + lr : SubSeq(w, 1, n) = b \o SubSeq(rest, 1, n - lb)
  <2> TAKE n \in lb .. lb + lr
  <2>1. n \in 0 .. Len(w) /\ n - lb \in 0 .. Len(rest)
    BY <1>1, <1>2 DEF lr
  <2> DEFINE x == SubSeq(w, 1, n)
             y == SubSeq(rest, 1, n - lb)
             z == b \o y
  <2>2. /\ x \in Seq(Byte) /\ Len(x) = n /\ \A i \in 1 .. n : x[i] = w[i]
    BY <1>2, <2>1, Parts
  <2>3. /\ y \in Seq(Byte) /\ Len(y) = n - lb
        /\ \A i \in 1 .. n - lb : y[i] = rest[i]
    BY <2>1, Parts
  <2> HIDE DEF x, y
  <2>4. /\ z \in Seq(Byte) /\ Len(z) = lb + (n - lb)
        /\ \A i \in 1 .. lb + (n - lb) :
             z[i] = IF i <= lb THEN b[i] ELSE y[i - lb]
    BY <2>3, ConcatProperties DEF lb
  <2> HIDE DEF z
  <2>5. Len(x) = Len(z) /\ \A i \in 1 .. Len(x) : x[i] = z[i]
    <3>1. Len(x) = n /\ Len(z) = n /\ n \in lb .. lb + lr
      BY <1>1, <2>2, <2>4
    <3>2. ASSUME NEW i \in 1 .. n PROVE x[i] = z[i]
      <4>1. i \in 1 .. lb + lr /\ i \in 1 .. lb + (n - lb)
        BY <1>1, <3>1
      <4>2. x[i] = w[i]
        BY <2>2
      <4>3. CASE i <= lb
        BY <1>2, <2>4, <4>1, <4>2, <4>3
      <4>4. CASE ~(i <= lb)
        <5>1. i - lb \in 1 .. n - lb
          BY <1>1, <3>1, <4>4
        <5>2. w[i] = rest[i - lb] /\ z[i] = y[i - lb]
          BY <1>2, <2>4, <4>1, <4>4
        <5> QED BY <2>3, <4>2, <5>1, <5>2
      <4> QED BY <4>3, <4>4
    <3> QED BY <3>1, <3>2
  <2>6. x = z
    BY ONLY <2>2, <2>4, <2>5, SeqEqual
  <2> QED BY <2>6 DEF x, y, z
<1>7. w \in Seq(Byte) /\ Len(w) = lb + lr
  BY <1>2
<1>8. SubSeq(w, 1, lb) = b
  <2>1. lb \in 0 .. lb
    BY <1>1
  <2> QED BY <1>3, <1>4, <2>1
<1> QED BY <1>3, <1>5, <1>6, <1>7, <1>8 DEF w, lb, lr

\* What is made of what was read, when the stream is none of the decoder's
\* business any more.
LEMMA CodedMap ==
  ASSUME NEW D, NEW D1, NEW b, NEW v, NEW v1, Coded(D1, b, v1),
         \A s \in Seq(Byte) : ~D1[s].ok => ~D[s].ok,
         \A s, rest \in Seq(Byte) : D1[s] = Read(v1, rest) => D[s] = Read(v, rest)
  PROVE  Coded(D, b, v)
<1>1. b \in Seq(Byte) /\ Len(b) % 4 = 0
  BY DEF Coded
<1>2. ASSUME NEW rest \in Seq(Byte) PROVE D[b \o rest] = Read(v, rest)
  <2>1. D1[b \o rest] = Read(v1, rest)
    BY DEF Coded
  <2>2. b \o rest \in Seq(Byte)
    BY <1>1, PartsOfConcat
  <2> QED BY <2>1, <2>2
<1>3. ASSUME NEW n \in 0 .. Len(b) - 1 PROVE ~D[SubSeq(b, 1, n)].ok
  <2>1. ~D1[SubSeq(b, 1, n)].ok
    BY DEF Coded
  <2>2. Len(b) \in Nat
    BY <1>1, LenProperties
  <2>3. n \in 0 .. Len(b)
    BY <2>2
  <2>4. SubSeq(b, 1, n) \in Seq(Byte)
    BY <1>1, <2>3, Parts
  <2> QED BY <2>1, <2>4
<1> QED BY <1>1, <1>2, <1>3 DEF Coded

\* One decoder after another: of the two encodings one after the other, no
\* byte is taken by the wrong one, and a cut is noticed by one of them.
LEMMA CodedThen ==
  ASSUME NEW D, NEW D1, NEW D2, NEW b1, NEW b2, NEW v, NEW v1, NEW v2,
         Coded(D1, b1, v1), Coded(D2, b2, v2),
         \A s \in Seq(Byte) : ~D1[s].ok => ~D[s].ok,
         \A s, r \in Seq(Byte) :
           D1[s] = Read(v1, r) /\ ~D2[r].ok => ~D[s].ok,
         \A s, r, rest \in Seq(Byte) :
           D1[s] = Read(v1, r) /\ D2[r] = Read(v2, rest) => D[s] = Read(v, rest)
  PROVE  Coded(D, b1 \o b2, v)
<1>1. /\ b1 \in Seq(Byte) /\ Len(b1) \in Nat /\ Len(b1) % 4 = 0
      /\ b2 \in Seq(Byte) /\ Len(b2) \in Nat /\ Len(b2) % 4 = 0
  BY LenProperties DEF Coded
<1>2. b1 \o b2 \in Seq(Byte) /\ Len(b1 \o b2) = Len(b1) + Len(b2)
  BY <1>1, PartsOfConcat
<1>3. Len(b1 \o b2) % 4 = 0
  BY <1>1, <1>2
<1>4. ASSUME NEW rest \in Seq(Byte) PROVE D[(b1 \o b2) \o rest] = Read(v, rest)
  <2>1. (b1 \o b2) \o rest = b1 \o (b2 \o rest)
    BY <1>1, ConcatAssociative
  <2>2. b2 \o rest \in Seq(Byte) /\ b1 \o (b2 \o rest) \in Seq(Byte)
    BY <1>1, ConcatProperties
  <2>3. D1[b1 \o (b2 \o rest)] = Read(v1, b2 \o rest)
    BY <2>2 DEF Coded
  <2>4. D2[b2 \o rest] = Read(v2, rest)
    BY DEF Coded
  <2>5. D[b1 \o (b2 \o rest)] = Read(v, rest)
    BY <2>2, <2>3, <2>4
  <2> QED BY <2>1, <2>5
<1>5. ASSUME NEW n \in 0 .. Len(b1 \o b2) - 1
      PROVE  ~D[SubSeq(b1 \o b2, 1, n)].ok
  <2>1. n \in Nat /\ n < Len(b1) + Len(b2)
    BY <1>1, <1>2
  <2>2. Len(b1) \in Nat /\ Len(b2) \in Nat
    BY <1>1
  <2>3. CASE n < Len(b1)
    <3>1. n \in 0 .. Len(b1) /\ n \in 0 .. Len(b1) - 1
      BY ONLY <2>2, <2>1, <2>3
    <3>2. SubSeq(b1 \o b2, 1, n) = SubSeq(b1, 1, n)
      <4>1. b1 \in Seq(Byte) /\ b2 \in Seq(Byte)
        BY <1>1
      <4>2. \A k \in 0 .. Len(b1) : SubSeq(b1 \o b2, 1, k) = SubSeq(b1, 1, k)
        BY ONLY <4>1, PartsOfConcat
      <4> QED BY <3>1, <4>2
    <3>3. SubSeq(b1, 1, n) \in Seq(Byte)
      BY <1>1, <3>1, Parts
    <3>4. ~D1[SubSeq(b1, 1, n)].ok
      BY <3>1 DEF Coded
    <3> QED BY <3>2, <3>3, <3>4
  <2>4. CASE n >= Len(b1)
    <3> DEFINE m == n - Len(b1)
               c == SubSeq(b2, 1, m)
    <3>1. n \in Len(b1) .. Len(b1) + Len(b2) /\ m \in 0 .. Len(b2)
          /\ m \in 0 .. Len(b2) - 1
      BY ONLY <2>2, <2>1, <2>4
    <3>2. SubSeq(b1 \o b2, 1, n) = b1 \o c
      <4>1. b1 \in Seq(Byte) /\ b2 \in Seq(Byte)
        BY <1>1
      <4>2. \A k \in Len(b1) .. Len(b1) + Len(b2) :
              SubSeq(b1 \o b2, 1, k) = b1 \o SubSeq(b2, 1, k - Len(b1))
        BY ONLY <4>1, PartsOfConcat
      <4> QED BY <3>1, <4>2
    <3>3. c \in Seq(Byte)
      BY <1>1, <3>1, Parts
    <3>4. ~D2[c].ok
      BY <3>1 DEF Coded
    <3> HIDE DEF c
    <3>5. D1[b1 \o c] = Read(v1, c) /\ b1 \o c \in Seq(Byte)
      BY <1>1, <3>3, PartsOfConcat DEF Coded
    <3> QED BY <3>2, <3>3, <3>4, <3>5
  <2>5. n < Len(b1) \/ n >= Len(b1)
    BY ONLY <2>2, <2>1
  <2> QED BY <2>3, <2>4, <2>5
<1> QED BY <1>2, <1>3, <1>4, <1>5 DEF Coded

\* Nothing is written, and nothing read.
LEMMA CodedNothing ==
  ASSUME NEW D, NEW v, \A s \in Seq(Byte) : D[s] = Read(v, s)
  PROVE  Coded(D, <<>>, v)
<1>1. <<>> \in Seq(Byte) /\ Len(<<>>) = 0
  BY EmptySeq
<1>2. ASSUME NEW rest \in Seq(Byte) PROVE D[<<>> \o rest] = Read(v, rest)
  <2>1. <<>> \o rest = rest
    BY ConcatEmptySeq
  <2> QED BY <2>1
<1> QED BY <1>1, <1>2 DEF Coded

\* What ReadFull leaves and what it returns.
LEMMA ReadFullReads ==
  ASSUME NEW s \in Seq(Byte), NEW n \in Nat
  PROVE  /\ ReadFull(s, n).ok <=> n <= Len(s)
         /\ ReadFull(s, n).ok =>
              /\ n <= Len(s)
              /\ ReadFull(s, n).value \in Seq(Byte)
              /\ Len(ReadFull(s, n).value) = n
              /\ ReadFull(s, n).rest \in Seq(Byte)
              /\ Len(ReadFull(s, n).rest) = Len(s) - n
<1>1. Len(s) \in Nat
  BY LenProperties
<1>2. CASE Len(s) < n
  BY <1>1, <1>2, Reading DEF ReadFull
<1>3. CASE n <= Len(s)
  <2>1. n \in 0 .. Len(s)
    BY <1>1, <1>3
  <2>2. ReadFull(s, n) = Read(SubSeq(s, 1, n), SubSeq(s, n + 1, Len(s)))
    BY <1>1, <1>3 DEF ReadFull
  <2>3. /\ SubSeq(s, 1, n) \in Seq(Byte) /\ Len(SubSeq(s, 1, n)) = n
        /\ SubSeq(s, n + 1, Len(s)) \in Seq(Byte)
        /\ Len(SubSeq(s, n + 1, Len(s))) = Len(s) - n
    BY <2>1, Parts
  <2> DEFINE x == SubSeq(s, 1, n)
             y == SubSeq(s, n + 1, Len(s))
  <2>4. ReadFull(s, n) = Read(x, y)
    BY <2>2
  <2> HIDE DEF x, y
  <2>5. ReadFull(s, n).ok /\ ReadFull(s, n).value = x /\ ReadFull(s, n).rest = y
    BY <2>4, Reading
  <2> QED BY <1>3, <2>3, <2>5 DEF x, y
<1> QED BY <1>1, <1>2, <1>3

\* io.ReadFull of whole words.
LEMMA ReadFullCoded ==
  ASSUME NEW b \in Seq(Byte), Len(b) % 4 = 0
  PROVE  Coded([s \in Seq(Byte) |-> ReadFull(s, Len(b))], b, b)
<1> DEFINE D == [s \in Seq(Byte) |-> ReadFull(s, Len(b))]
<1>1. Len(b) \in Nat
  BY LenProperties
<1>2. ASSUME NEW rest \in Seq(Byte) PROVE D[b \o rest] = Read(b, rest)
  <2>1. /\ b \o rest \in Seq(Byte) /\ Len(b \o rest) = Len(b) + Len(rest)
        /\ SubSeq(b \o rest, 1, Len(b)) = b
        /\ SubSeq(b \o rest, Len(b) + 1, Len(b \o rest)) = rest
    BY PartsOfConcat
  <2>2. ~(Len(b \o rest) < Len(b))
    <3>1. Len(rest) \in Nat
      BY LenProperties
    <3> QED BY <1>1, <2>1, <3>1
  <2> QED BY <2>1, <2>2 DEF ReadFull
<1>3. ASSUME NEW n \in 0 .. Len(b) - 1 PROVE ~D[SubSeq(b, 1, n)].ok
  <2>1. n \in 0 .. Len(b) /\ n < Len(b)
    BY <1>1
  <2>2. SubSeq(b, 1, n) \in Seq(Byte) /\ Len(SubSeq(b, 1, n)) = n
    BY <2>1, Parts
  <2>3. D[SubSeq(b, 1, n)] = Unread
    BY <2>1, <2>2 DEF ReadFull
  <2> QED BY <2>3, Reading
<1> QED BY <1>2, <1>3 DEF Coded

-----------------------------------------------------------------------------
(* The codecs of the scalars and of opaques. *)

UintReader == [s \in Seq(Byte) |-> DecodeUint(s)]
IntReader == [s \in Seq(Byte) |-> DecodeInt(s)]
UhyperReader == [s \in Seq(Byte) |-> DecodeUhyper(s)]
BoolReader == [s \in Seq(Byte) |-> DecodeBool(s)]
LengthReader == [s \in Seq(Byte) |-> DecodeLength(s)]
FixedReader(size) == [s \in Seq(Byte) |-> DecodeFixedOpaque(s, size)]
OpaqueReader == [s \in Seq(Byte) |-> DecodeOpaque(s)]
FullReader(n) == [s \in Seq(Byte) |-> ReadFull(s, n)]

\* A word is read as the number of its four bytes.
LEMMA WordCoded ==
  ASSUME NEW v \in Int
  PROVE  Coded(UintReader, EncodeUint(v), Number(EncodeUint(v)))
<1> DEFINE e == EncodeUint(v)
<1>1. e \in Seq(Byte) /\ Len(e) = 4
  BY UintBytes
<1> HIDE DEF e
<1>2. Coded(FullReader(4), e, e)
  <2>1. Len(e) % 4 = 0
    BY <1>1
  <2>2. Coded([s \in Seq(Byte) |-> ReadFull(s, Len(e))], e, e)
    BY <1>1, <2>1, ReadFullCoded
  <2> QED BY <1>1, <2>2 DEF FullReader
<1>3. \A s \in Seq(Byte) : ~FullReader(4)[s].ok => ~UintReader[s].ok
  BY Reading DEF FullReader, UintReader, DecodeUint
<1>4. \A s, rest \in Seq(Byte) :
        FullReader(4)[s] = Read(e, rest) => UintReader[s] = Read(Number(e), rest)
  BY Reading DEF FullReader, UintReader, DecodeUint
<1>5. Coded(UintReader, e, Number(e))
  BY ONLY <1>2, <1>3, <1>4, CodedMap
<1> QED BY <1>5 DEF e

\* An unsigned integer.
LEMMA UintCoded ==
  ASSUME NEW v \in 0 .. MaxUint
  PROVE  Coded(UintReader, EncodeUint(v), v)
<1>1. v \in Int /\ Number(EncodeUint(v)) = v
  BY UintNumber
<1> QED BY <1>1, WordCoded

\* A signed integer.
LEMMA IntCoded ==
  ASSUME NEW v \in -MaxInt32 - 1 .. MaxInt32
  PROVE  Coded(IntReader, EncodeUint(v), v)
<1> DEFINE e == EncodeUint(v)
           n == Number(e)
<1>1. v \in Int
  BY Bases
<1>2. Coded(UintReader, e, n)
  BY <1>1, WordCoded
<1>3. Signed(n) = v
  BY IntNumber
<1> HIDE DEF e, n
<1>4. \A s \in Seq(Byte) : ~UintReader[s].ok => ~IntReader[s].ok
  BY Reading DEF UintReader, IntReader, DecodeInt
<1>5. \A s, rest \in Seq(Byte) :
        UintReader[s] = Read(n, rest) => IntReader[s] = Read(v, rest)
  BY <1>3, Reading DEF UintReader, IntReader, DecodeInt
<1>6. Coded(IntReader, e, v)
  BY ONLY <1>2, <1>4, <1>5, CodedMap
<1> QED BY <1>6 DEF e

\* An unsigned integer of two words.
LEMMA UhyperCoded ==
  ASSUME NEW v \in 0 .. Wide * Wide - 1
  PROVE  Coded(UhyperReader, EncodeUhyper(v), v)
<1> DEFINE e == EncodeUhyper(v)
<1>1. e \in Seq(Byte) /\ Len(e) = 8 /\ Hyper(e) = v
  BY UhyperNumber
<1> HIDE DEF e
<1>2. Coded(FullReader(8), e, e)
  <2>1. Len(e) % 4 = 0
    BY <1>1
  <2>2. Coded([s \in Seq(Byte) |-> ReadFull(s, Len(e))], e, e)
    BY <1>1, <2>1, ReadFullCoded
  <2> QED BY <1>1, <2>2 DEF FullReader
<1>3. \A s \in Seq(Byte) : ~FullReader(8)[s].ok => ~UhyperReader[s].ok
  BY Reading DEF FullReader, UhyperReader, DecodeUhyper
<1>4. \A s, rest \in Seq(Byte) :
        FullReader(8)[s] = Read(e, rest) => UhyperReader[s] = Read(v, rest)
  BY <1>1, Reading DEF FullReader, UhyperReader, DecodeUhyper
<1>5. Coded(UhyperReader, e, v)
  BY ONLY <1>2, <1>3, <1>4, CodedMap
<1> QED BY <1>5 DEF e

\* A Boolean.
LEMMA BoolCoded ==
  ASSUME NEW v \in BOOLEAN
  PROVE  Coded(BoolReader, EncodeBool(v), v)
<1> DEFINE n == IF v THEN 1 ELSE 0
<1>1. n \in -MaxInt32 - 1 .. MaxInt32
  BY Bases
<1>2. n \in {0, 1} /\ (n = 1 <=> v)
  OBVIOUS
<1>3. EncodeBool(v) = EncodeUint(n)
  BY DEF EncodeBool
<1> HIDE DEF n
<1>4. Coded(IntReader, EncodeUint(n), n)
  BY <1>1, IntCoded
<1>5. \A s \in Seq(Byte) : ~IntReader[s].ok => ~BoolReader[s].ok
  BY Reading DEF IntReader, BoolReader, DecodeBool
<1>6. (n = 1) = v
  BY <1>2
<1>7. \A s, rest \in Seq(Byte) :
        IntReader[s] = Read(n, rest) => BoolReader[s] = Read(v, rest)
  <2> TAKE s, rest \in Seq(Byte)
  <2> HAVE IntReader[s] = Read(n, rest)
  <2>1. DecodeInt(s) = Read(n, rest)
    BY DEF IntReader
  <2>2. DecodeInt(s).ok /\ DecodeInt(s).value = n /\ DecodeInt(s).rest = rest
    BY <2>1, Reading
  <2>3. DecodeBool(s) = Read(n = 1, rest)
    BY <1>2, <2>2 DEF DecodeBool
  <2> QED BY <1>6, <2>3 DEF BoolReader
<1>8. Coded(BoolReader, EncodeUint(n), v)
  BY ONLY <1>4, <1>5, <1>7, CodedMap
<1> QED BY <1>3, <1>8

\* A length, if it is not too large for a slice.
LEMMA LengthCoded ==
  ASSUME NEW v \in 0 .. MaxInt32
  PROVE  Coded(LengthReader, EncodeUint(v), v)
<1>1. v \in 0 .. MaxUint /\ v <= MaxInt32
  BY Bases
<1>2. Coded(UintReader, EncodeUint(v), v)
  BY <1>1, UintCoded
<1>3. \A s \in Seq(Byte) : ~UintReader[s].ok => ~LengthReader[s].ok
  BY Reading DEF UintReader, LengthReader, DecodeLength
<1>4. \A s, rest \in Seq(Byte) :
        UintReader[s] = Read(v, rest) => LengthReader[s] = Read(v, rest)
  BY <1>1, Reading DEF UintReader, LengthReader, DecodeLength
<1> QED BY <1>2, <1>3, <1>4, CodedMap

\* The padding makes whole words.
LEMMA PaddingFills ==
  ASSUME NEW l \in Nat
  PROVE  Padding(l) \in 0 .. 3 /\ (l + Padding(l)) % 4 = 0
BY DEF Padding

\* An opaque with its padding.
LEMMA PaddedBytes ==
  ASSUME NEW v \in Seq(Byte)
  PROVE  /\ EncodeFixedOpaque(v) \in Seq(Byte)
         /\ Len(EncodeFixedOpaque(v)) = Len(v) + Padding(Len(v))
         /\ SubSeq(EncodeFixedOpaque(v), 1, Len(v)) = v
<1> DEFINE p == Padding(Len(v))
           z == [i \in 1 .. p |-> 0]
<1>1. Len(v) \in Nat
  BY LenProperties
<1>2. p \in Nat
  BY <1>1, PaddingFills
<1> HIDE DEF p
<1>3. z \in Seq(Byte) /\ Len(z) = p
  <2>1. 0 \in Byte
    BY Bases DEF Byte
  <2>2. z \in [1 .. p -> Byte]
    BY <2>1
  <2>3. z \in Seq(Byte)
    BY <1>2, <2>2, SeqDef
  <2>4. Len(z) = p
    BY <1>2, <2>3, LenProperties
  <2> QED BY <2>3, <2>4
<1> HIDE DEF z
<1>4. EncodeFixedOpaque(v) = v \o z
  BY DEF EncodeFixedOpaque, z, p
<1>5. v \o z \in Seq(Byte) /\ Len(v \o z) = Len(v) + Len(z)
      /\ SubSeq(v \o z, 1, Len(v)) = v
  BY <1>3, PartsOfConcat
<1> QED BY <1>3, <1>4, <1>5 DEF p

\* An opaque of a fixed size.
LEMMA FixedCoded ==
  ASSUME NEW v, IsOpaque(v)
  PROVE  Coded(FixedReader(Len(v)), EncodeFixedOpaque(v), v)
<1> DEFINE l == Len(v)
           n == l + Padding(l)
           e == EncodeFixedOpaque(v)
           D == FixedReader(l)
<1>1. v \in Seq(Byte) /\ n <= MaxInt32
  BY DEF IsOpaque
<1>2. l \in Nat
  BY <1>1, LenProperties
<1>3. n % 4 = 0
  BY <1>2, PaddingFills
<1>4. e \in Seq(Byte) /\ Len(e) = n /\ SubSeq(e, 1, l) = v
  BY <1>1, PaddedBytes
<1>5. D = [s \in Seq(Byte) |-> DecodeFixedOpaque(s, l)]
  BY DEF FixedReader
<1>6. \A s : DecodeFixedOpaque(s, l) =
               IF ReadFull(s, n).ok
               THEN Read(SubSeq(ReadFull(s, n).value, 1, l), ReadFull(s, n).rest)
               ELSE Unread
  BY <1>1 DEF DecodeFixedOpaque
<1> HIDE DEF n, e, D, l
<1>7. Coded(FullReader(n), e, e)
  <2>1. Coded([s \in Seq(Byte) |-> ReadFull(s, Len(e))], e, e)
    BY <1>3, <1>4, ReadFullCoded
  <2> QED BY <1>4, <2>1 DEF FullReader
<1>8. \A s \in Seq(Byte) : ~FullReader(n)[s].ok => ~D[s].ok
  BY <1>5, <1>6, Reading DEF FullReader
<1>9. \A s, rest \in Seq(Byte) :
        FullReader(n)[s] = Read(e, rest) => D[s] = Read(v, rest)
  <2> TAKE s, rest \in Seq(Byte)
  <2> HAVE FullReader(n)[s] = Read(e, rest)
  <2>1. ReadFull(s, n) = Read(e, rest)
    BY DEF FullReader
  <2>2. /\ ReadFull(s, n).ok /\ ReadFull(s, n).value = e
        /\ ReadFull(s, n).rest = rest
    BY <2>1, Reading
  <2>3. DecodeFixedOpaque(s, l) = Read(SubSeq(e, 1, l), rest)
    BY <1>6, <2>2
  <2> QED BY <1>4, <1>5, <2>3
<1>10. Coded(D, e, v)
  BY ONLY <1>7, <1>8, <1>9, CodedMap
<1> QED BY <1>10 DEF D, e, l

\* An opaque with its length before it.
LEMMA OpaqueCoded ==
  ASSUME NEW v, IsOpaque(v)
  PROVE  Coded(OpaqueReader, EncodeOpaque(v), v)
<1> DEFINE l == Len(v)
           b1 == EncodeUint(l)
           b2 == EncodeFixedOpaque(v)
           D2 == FixedReader(l)
<1>1. l \in 0 .. MaxInt32
  <2>1. l \in Nat /\ l + Padding(l) <= MaxInt32
    BY LenProperties DEF IsOpaque
  <2>2. Padding(l) \in 0 .. 3
    BY <2>1, PaddingFills
  <2> QED BY <2>1, <2>2, Bases
<1>2. Coded(LengthReader, b1, l)
  BY <1>1, LengthCoded
<1>3. Coded(D2, b2, v)
  BY FixedCoded
<1>4. EncodeOpaque(v) = b1 \o b2
  BY DEF EncodeOpaque
<1>5. D2 = [s \in Seq(Byte) |-> DecodeFixedOpaque(s, l)]
  BY DEF FixedReader
<1> HIDE DEF l, b1, b2, D2
<1>6. \A s \in Seq(Byte) : ~LengthReader[s].ok => ~OpaqueReader[s].ok
  BY Reading DEF LengthReader, OpaqueReader, DecodeOpaque
<1>7. \A s, r \in Seq(Byte) :
        LengthReader[s] = Read(l, r) => OpaqueReader[s] = D2[r]
  BY <1>5, Reading DEF LengthReader, OpaqueReader, DecodeOpaque
<1>8. \A s, r \in Seq(Byte) :
        LengthReader[s] = Read(l, r) /\ ~D2[r].ok => ~OpaqueReader[s].ok
  BY <1>7
<1>9. \A s, r, rest \in Seq(Byte) :
        LengthReader[s] = Read(l, r) /\ D2[r] = Read(v, rest)
          => OpaqueReader[s] = Read(v, rest)
  BY <1>7
<1>10. Coded(OpaqueReader, b1 \o b2, v)
  BY ONLY <1>2, <1>3, <1>6, <1>8, <1>9, CodedThen
<1> QED BY <1>4, <1>10

-----------------------------------------------------------------------------
(* Tuples: the values of structs and arrays. *)

\* A tuple is a sequence.
LEMMA TupleSeq ==
  ASSUME NEW v, IsTuple(v)
  PROVE  v \in Seq({v[i] : i \in 1 .. Len(v)})
<1> DEFINE n == Len(v)
           S == {v[i] : i \in 1 .. n}
<1>1. n \in Nat /\ v = [i \in 1 .. n |-> v[i]]
  BY DEF IsTuple
<1> HIDE DEF n
<1>2. v \in [1 .. n -> S]
  <2>1. [i \in 1 .. n |-> v[i]] \in [1 .. n -> S]
    OBVIOUS
  <2> QED BY <1>1, <2>1
<1> HIDE DEF S
<1>3. v \in Seq(S)
  BY <1>1, <1>2, SeqDef
<1> QED BY <1>3 DEF S, n

\* A sequence is a tuple.
LEMMA SeqTuple ==
  ASSUME NEW S, NEW v \in Seq(S)
  PROVE  IsTuple(v)
<1>1. Len(v) \in Nat /\ v \in [1 .. Len(v) -> S]
  BY LenProperties
<1> QED BY <1>1 DEF IsTuple

\* A tuple is empty, or has a head and a tail.
LEMMA TupleParts ==
  ASSUME NEW v, IsTuple(v)
  PROVE  /\ Len(v) = 0 <=> v = <<>>
         /\ v # <<>> => /\ v = <<Head(v)>> \o Tail(v)
                        /\ IsTuple(Tail(v)) /\ Len(Tail(v)) = Len(v) - 1
<1> DEFINE S == {v[i] : i \in 1 .. Len(v)}
<1>1. v \in Seq(S)
  BY TupleSeq
<1> HIDE DEF S
<1>2. Len(v) = 0 <=> v = <<>>
  BY <1>1, EmptySeq
<1>3. ASSUME v # <<>>
      PROVE  /\ v = <<Head(v)>> \o Tail(v)
             /\ IsTuple(Tail(v)) /\ Len(Tail(v)) = Len(v) - 1
  <2> DEFINE h == Head(v)
             t == Tail(v)
  <2>1. /\ h \in S /\ t \in Seq(S) /\ Len(t) = Len(v) - 1
        /\ \A i \in 1 .. Len(t) : t[i] = v[i + 1]
    BY <1>1, <1>3, HeadTailProperties
  <2>2. h = v[1]
    BY <1>1, <1>3
  <2> HIDE DEF h, t
  <2>3. <<h>> \in Seq(S) /\ Len(<<h>>) = 1 /\ <<h>>[1] = h
    BY <2>1
  <2>4. /\ <<h>> \o t \in Seq(S) /\ Len(<<h>> \o t) = 1 + Len(t)
        /\ \A i \in 1 .. 1 + Len(t) :
             (<<h>> \o t)[i] = IF i <= 1 THEN <<h>>[i] ELSE t[i - 1]
    <3>1. /\ <<h>> \o t \in Seq(S) /\ Len(<<h>> \o t) = Len(<<h>>) + Len(t)
          /\ \A i \in 1 .. Len(<<h>>) + Len(t) :
               (<<h>> \o t)[i] =
                  IF i <= Len(<<h>>) THEN <<h>>[i] ELSE t[i - Len(<<h>>)]
      BY ONLY <2>1, <2>3, ConcatProperties
    <3> QED BY <2>3, <3>1
  <2>5. Len(v) \in Nat /\ Len(t) \in Nat
    BY <1>1, <2>1, LenProperties
  <2> DEFINE w == <<h>> \o t
  <2>6. ASSUME NEW i \in 1 .. Len(v) PROVE v[i] = w[i]
    <3>1. CASE i = 1
      BY <2>1, <2>2, <2>3, <2>4, <2>5, <3>1
    <3>2. CASE i # 1
      <4>1. i - 1 \in 1 .. Len(t) /\ i \in 1 .. 1 + Len(t) /\ ~(i <= 1)
            /\ (i - 1) + 1 = i
        BY <2>1, <2>5, <3>2
      <4>2. w[i] = t[i - 1]
        BY <2>4, <4>1
      <4>3. t[i - 1] = v[(i - 1) + 1]
        BY <2>1, <4>1
      <4> QED BY <4>1, <4>2, <4>3
    <3> QED BY <3>1, <3>2
  <2>7. w \in Seq(S) /\ Len(v) = Len(w)
    BY <2>1, <2>4, <2>5
  <2> HIDE DEF w
  <2>8. v = w
    BY ONLY <1>1, <2>6, <2>7, SeqEqual
  <2>9. IsTuple(t)
    BY <2>1, SeqTuple
  <2> QED BY <2>1, <2>8, <2>9 DEF w, h, t
<1> QED BY <1>2, <1>3

\* A tuple with one more element before it.
LEMMA TupleCons ==
  ASSUME NEW h, NEW t, IsTuple(t)
  PROVE  /\ IsTuple(<<h>> \o t) /\ <<h>> \o t # <<>>
         /\ Len(<<h>> \o t) = Len(t) + 1
         /\ Head(<<h>> \o t) = h /\ Tail(<<h>> \o t) = t
<1> DEFINE T == {t[i] : i \in 1 .. Len(t)}
           S == T \cup {h}
           w == <<h>> \o t
<1>1. t \in Seq(T)
  BY TupleSeq
<1> HIDE DEF T
<1>2. t \in Seq(S) /\ Len(t) \in Nat
  BY <1>1, SeqMonotonic, LenProperties
<1>3. h \in S
  OBVIOUS
<1> HIDE DEF S
<1>4. <<h>> \in Seq(S) /\ Len(<<h>>) = 1 /\ <<h>>[1] = h
  BY <1>3
<1>5. /\ w \in Seq(S) /\ Len(w) = Len(t) + 1
      /\ \A i \in 1 .. 1 + Len(t) : w[i] = IF i <= 1 THEN <<h>>[i] ELSE t[i - 1]
  <2>1. /\ w \in Seq(S) /\ Len(w) = Len(<<h>>) + Len(t)
        /\ \A i \in 1 .. Len(<<h>>) + Len(t) :
             w[i] = IF i <= Len(<<h>>) THEN <<h>>[i] ELSE t[i - Len(<<h>>)]
    BY ONLY <1>2, <1>4, ConcatProperties DEF w
  <2> QED BY <1>2, <1>4, <2>1
<1>6. w[1] = h
  BY <1>2, <1>4, <1>5
<1> HIDE DEF w
<1>7. w # <<>>
  BY <1>2, <1>5, EmptySeq
<1>8. Head(w) = h
  BY <1>5, <1>6, <1>7
<1>9. Tail(w) = t
  <2>1. /\ Tail(w) \in Seq(S) /\ Len(Tail(w)) = Len(w) - 1
        /\ \A i \in 1 .. Len(Tail(w)) : Tail(w)[i] = w[i + 1]
    BY <1>5, <1>7, HeadTailProperties
  <2>2. Len(Tail(w)) = Len(t)
    BY <1>2, <1>5, <2>1
  <2>3. ASSUME NEW i \in 1 .. Len(t) PROVE Tail(w)[i] = t[i]
    <3>1. i + 1 \in 1 .. 1 + Len(t) /\ ~(i + 1 <= 1) /\ (i + 1) - 1 = i
      BY <1>2
    <3>2. w[i + 1] = t[(i + 1) - 1]
      BY <1>5, <3>1
    <3>3. Tail(w)[i] = w[i + 1]
      BY <2>1, <2>2
    <3> QED BY <3>1, <3>2, <3>3
  <2> QED BY ONLY <1>2, <2>1, <2>2, <2>3, SeqEqual
<1>10. IsTuple(w)
  BY <1>5, SeqTuple
<1> QED BY <1>5, <1>7, <1>8, <1>9, <1>10 DEF w

-----------------------------------------------------------------------------
(* Every value is read back from what it is written as. *)

\* The decoder of a type, and of a field.
Reader(t, u) == [s \in Seq(Byte) |-> Decode(t, s, u)]
FieldReader(field, u) == [s \in Seq(Byte) |-> DecodeField(field, s, u)]

RoundTrips(w, D, v, nil) ==
  /\ w.ok => Coded(D, w.bytes, v)
  /\ ~w.ok => nil /\ w.bytes = <<>>

\* All values nested no deeper than depth.
AllRoundTrip(nil, depth) ==
  \A t, v, u : Has(t, v, u, nil, depth)
                 => RoundTrips(Encode(t, v, u), Reader(t, u), v, nil)

\* One codec after another.
LEMMA RoundTripsThen ==
  ASSUME NEW D, NEW D1, NEW D2, NEW w1, NEW w2, NEW v, NEW v1, NEW v2, NEW nil,
         RoundTrips(w1, D1, v1, nil), RoundTrips(w2, D2, v2, nil),
         \A s \in Seq(Byte) : ~D1[s].ok => ~D[s].ok,
         \A s, r \in Seq(Byte) :
           D1[s] = Read(v1, r) /\ ~D2[r].ok => ~D[s].ok,
         \A s, r, rest \in Seq(Byte) :
           D1[s] = Read(v1, r) /\ D2[r] = Read(v2, rest) => D[s] = Read(v, rest)
  PROVE  RoundTrips(Then(w1, w2), D, v, nil)
<1>1. CASE w1.ok /\ w2.ok
  <2>1. Then(w1, w2) = Written(w1.bytes \o w2.bytes)
    BY <1>1, Writing
  <2>2. Then(w1, w2).ok /\ Then(w1, w2).bytes = w1.bytes \o w2.bytes
    BY <2>1, Writing
  <2> DEFINE b1 == w1.bytes
             b2 == w2.bytes
  <2>3. Coded(D1, b1, v1) /\ Coded(D2, b2, v2)
    BY <1>1 DEF RoundTrips
  <2> HIDE DEF b1, b2
  <2>4. Coded(D, b1 \o b2, v)
    BY <2>3, CodedThen
  <2> QED BY <2>2, <2>4 DEF RoundTrips, b1, b2
<1>2. CASE ~(w1.ok /\ w2.ok)
  <2>1. Then(w1, w2) = Unwritten
    BY <1>2, Writing
  <2>2. nil
    BY <1>2 DEF RoundTrips
  <2> QED BY <2>1, <2>2, Writing DEF RoundTrips
<1> QED BY <1>1, <1>2

\* What is always written.
LEMMA RoundTripsWritten ==
  ASSUME NEW D, NEW b, NEW v, NEW nil, Coded(D, b, v)
  PROVE  RoundTrips(Written(b), D, v, nil)
BY Writing DEF RoundTrips

\* The scalars and opaques.
LEMMA ScalarRoundTrips ==
  ASSUME NEW t, NEW v, NEW u, NEW nil, NEW depth,
         HasType(t, v, u, nil, depth),
         t.kind \in {"int", "uint", "uhyper", "bool", "opaque", "fixed"}
  PROVE  RoundTrips(Encode(t, v, u), Reader(t, u), v, nil)
<1>1. CASE t.kind = "int"
  <2>1. v \in -MaxInt32 - 1 .. MaxInt32
    BY <1>1 DEF HasType
  <2>2. Encode(t, v, u) = Written(EncodeUint(v)) /\ Reader(t, u) = IntReader
    BY <1>1 DEF Encode, Decode, Reader, IntReader
  <2> QED BY <2>1, <2>2, IntCoded, RoundTripsWritten
<1>2. CASE t.kind = "uint"
  <2>1. v \in 0 .. MaxUint
    BY <1>2 DEF HasType
  <2>2. Encode(t, v, u) = Written(EncodeUint(v)) /\ Reader(t, u) = UintReader
    BY <1>2 DEF Encode, Decode, Reader, UintReader
  <2> QED BY <2>1, <2>2, UintCoded, RoundTripsWritten
<1>3. CASE t.kind = "uhyper"
  <2>1. v \in 0 .. Wide * Wide - 1
    BY <1>3 DEF HasType
  <2>2. Encode(t, v, u) = Written(EncodeUhyper(v)) /\ Reader(t, u) = UhyperReader
    BY <1>3 DEF Encode, Decode, Reader, UhyperReader
  <2> QED BY <2>1, <2>2, UhyperCoded, RoundTripsWritten
<1>4. CASE t.kind = "bool"
  <2>1. v \in BOOLEAN
    BY <1>4 DEF HasType
  <2>2. Encode(t, v, u) = Written(EncodeBool(v)) /\ Reader(t, u) = BoolReader
    BY <1>4 DEF Encode, Decode, Reader, BoolReader
  <2> QED BY <2>1, <2>2, BoolCoded, RoundTripsWritten
<1>5. CASE t.kind = "opaque"
  <2>1. IsOpaque(v)
    BY <1>5 DEF HasType
  <2>2. Encode(t, v, u) = Written(EncodeOpaque(v)) /\ Reader(t, u) = OpaqueReader
    BY <1>5 DEF Encode, Decode, Reader, OpaqueReader
  <2> QED BY <2>1, <2>2, OpaqueCoded, RoundTripsWritten
<1>6. CASE t.kind = "fixed"
  <2>1. IsOpaque(v) /\ Len(v) = t.size
    BY <1>6 DEF HasType
  <2>2. Encode(t, v, u) = Written(EncodeFixedOpaque(v))
        /\ Reader(t, u) = FixedReader(t.size)
    BY <1>6 DEF Encode, Decode, Reader, FixedReader
  <2> QED BY <2>1, <2>2, FixedCoded, RoundTripsWritten
<1> QED BY <1>1, <1>2, <1>3, <1>4, <1>5, <1>6

\* An array, one element after the other.
LEMMA ArrayRoundTrips ==
  ASSUME Recursion, NEW t, NEW v, NEW u, NEW nil, NEW depth,
         HasType(t, v, u, nil, depth), t.kind = "array",
         AllRoundTrip(nil, depth - 1)
  PROVE  RoundTrips(Encode(t, v, u), Reader(t, u), v, nil)
<1>1. IsTuple(v) /\ Len(v) = t.size
  BY DEF HasType
<1>2. Encode(t, v, u) = EncodeItems(t, v)
      /\ Reader(t, u) = [s \in Seq(Byte) |-> DecodeItems(t, s)]
  BY DEF Encode, Decode, Reader
<1>3. CASE v = <<>>
  <2>1. t.size = 0
    BY <1>1, <1>3, TupleParts
  <2>2. Encode(t, v, u) = Written(<<>>)
    BY <1>2, <2>1 DEF EncodeItems
  <2>3. \A s \in Seq(Byte) : Reader(t, u)[s] = Read(v, s)
    BY <1>2, <1>3, <2>1 DEF DecodeItems
  <2>4. Coded(Reader(t, u), <<>>, v)
    BY <2>3, CodedNothing
  <2> QED BY <2>2, <2>4, RoundTripsWritten
<1>4. CASE v # <<>>
  <2> DEFINE h == Head(v)
             l == Tail(v)
             a == Array(t.size - 1, t.of)
             D == Reader(t, u)
             D1 == Reader(t.of, <<>>)
             D2 == Reader(a, <<>>)
             w1 == Encode(t.of, h, <<>>)
             w2 == Encode(a, l, <<>>)
  <2>1. t.size # 0 /\ v = <<h>> \o l
    BY <1>1, <1>4, TupleParts
  <2>2. Has(t.of, h, <<>>, nil, depth - 1) /\ Has(a, l, <<>>, nil, depth - 1)
    BY <1>4 DEF HasType
  <2>3. RoundTrips(w1, D1, h, nil) /\ RoundTrips(w2, D2, l, nil)
    BY <2>2 DEF AllRoundTrip
  <2>4. Encode(t, v, u) = Then(w1, w2)
    BY <1>2, <2>1 DEF EncodeItems, Recursion
  <2>5. ASSUME NEW s \in Seq(Byte)
        PROVE  /\ ~D1[s].ok => ~D[s].ok
               /\ \A r \in Seq(Byte) :
                    D1[s] = Read(h, r) /\ ~D2[r].ok => ~D[s].ok
               /\ \A r, rest \in Seq(Byte) :
                    D1[s] = Read(h, r) /\ D2[r] = Read(l, rest)
                      => D[s] = Read(v, rest)
    <3> DEFINE x == Decode(t.of, s, <<>>)
               y == Decode(a, x.rest, <<>>)
    <3>1. D[s] = IF x.ok /\ y.ok THEN Read(<<x.value>> \o y.value, y.rest)
                 ELSE Unread
      BY <1>2, <2>1 DEF DecodeItems, Recursion
    <3>2. D1[s] = x
      BY DEF Reader
    <3>3. x.rest \in Seq(Byte) => D2[x.rest] = y
      BY DEF Reader
    <3> HIDE DEF x, y, D, D1, D2, h, l
    <3> QED BY <2>1, <3>1, <3>2, <3>3, Reading
  <2> HIDE DEF D, D1, D2, h, l, w1, w2
  <2>6. RoundTrips(Then(w1, w2), D, v, nil)
    BY <2>3, <2>5, RoundTripsThen
  <2> QED BY <2>4, <2>6 DEF D
<1> QED BY <1>3, <1>4

\* A slice, an array with its length before it.
LEMMA SliceRoundTrips ==
  ASSUME Recursion, NEW t, NEW v, NEW u, NEW nil, NEW depth,
         HasType(t, v, u, nil, depth), t.kind = "slice",
         AllRoundTrip(nil, depth - 1)
  PROVE  RoundTrips(Encode(t, v, u), Reader(t, u), v, nil)
<1> DEFINE n == Len(v)
           a == Array(n, t.of)
           D == Reader(t, u)
           D2 == Reader(a, <<>>)
           w1 == Written(EncodeUint(n))
           w2 == Encode(a, v, <<>>)
<1>1. n \in 0 .. MaxInt32 /\ Has(a, v, <<>>, nil, depth - 1)
  BY Bases DEF HasType, IsTuple
<1>2. RoundTrips(w1, LengthReader, n, nil)
  BY <1>1, LengthCoded, RoundTripsWritten
<1>3. RoundTrips(w2, D2, v, nil)
  BY <1>1 DEF AllRoundTrip
<1>4. Encode(t, v, u) = Then(w1, w2)
  BY DEF Encode, EncodeSlice, Recursion
<1>5. ASSUME NEW s \in Seq(Byte)
      PROVE  /\ ~LengthReader[s].ok => ~D[s].ok
             /\ \A r \in Seq(Byte) :
                  LengthReader[s] = Read(n, r) /\ ~D2[r].ok => ~D[s].ok
             /\ \A r, rest \in Seq(Byte) :
                  LengthReader[s] = Read(n, r) /\ D2[r] = Read(v, rest)
                    => D[s] = Read(v, rest)
  <2> DEFINE x == DecodeLength(s)
  <2>1. D[s] = IF x.ok THEN Decode(Array(x.value, t.of), x.rest, <<>>) ELSE Unread
    BY DEF Decode, Reader, Recursion
  <2>2. LengthReader[s] = x
    BY DEF LengthReader
  <2>3. \A r \in Seq(Byte) : D2[r] = Decode(Array(n, t.of), r, <<>>)
    BY DEF Reader
  <2> HIDE DEF x, D, D2, n
  <2> QED BY <2>1, <2>2, <2>3, Reading
<1> HIDE DEF D, D2, w1, w2, n
<1>6. RoundTrips(Then(w1, w2), D, v, nil)
  BY <1>2, <1>3, <1>5, RoundTripsThen
<1> QED BY <1>4, <1>6 DEF D


\* A pointer that is not optional.
LEMMA PtrRoundTrips ==
  ASSUME Recursion, NEW t, NEW v, NEW u, NEW nil, NEW depth,
         HasType(t, v, u, nil, depth), t.kind = "ptr",
         AllRoundTrip(nil, depth - 1)
  PROVE  RoundTrips(Encode(t, v, u), Reader(t, u), v, nil)
<1>1. CASE v = <<>> /\ nil
  <2>1. Encode(t, v, u) = Unwritten
    BY <1>1 DEF Encode
  <2> QED BY <1>1, <2>1, Writing DEF RoundTrips
<1>2. CASE v = <<v[1]>> /\ Has(Named(t.of), v[1], <<>>, nil, depth - 1)
  <2> DEFINE p == Named(t.of)
             D == Reader(t, u)
             D1 == Reader(p, <<>>)
             w == Encode(p, v[1], <<>>)
  <2>1. RoundTrips(w, D1, v[1], nil)
    BY <1>2 DEF AllRoundTrip
  <2>2. v # <<>>
    BY <1>2
  <2>3. Encode(t, v, u) = w
    BY <2>2 DEF Encode, Recursion
  <2>4. ASSUME NEW s \in Seq(Byte)
        PROVE  /\ ~D1[s].ok => ~D[s].ok
               /\ \A rest \in Seq(Byte) :
                    D1[s] = Read(v[1], rest) => D[s] = Read(v, rest)
    <3> DEFINE x == Decode(p, s, <<>>)
    <3>1. D[s] = IF x.ok THEN Read(<<x.value>>, x.rest) ELSE Unread
      BY DEF Decode, Reader, Recursion
    <3>2. D1[s] = x
      BY DEF Reader
    <3> HIDE DEF x, D, D1
    <3> QED BY <1>2, <3>1, <3>2, Reading
  <2> HIDE DEF D, D1, w
  <2>5. w.ok => Coded(D, w.bytes, v)
    <3> SUFFICES ASSUME w.ok PROVE Coded(D, w.bytes, v)
      OBVIOUS
    <3> DEFINE b == w.bytes
               v1 == v[1]
    <3>1. Coded(D1, b, v1)
      BY <2>1 DEF RoundTrips
    <3>2. /\ \A s \in Seq(Byte) : ~D1[s].ok => ~D[s].ok
          /\ \A s, rest \in Seq(Byte) :
               D1[s] = Read(v1, rest) => D[s] = Read(v, rest)
      BY <2>4
    <3> HIDE DEF b, v1
    <3>3. Coded(D, b, v)
      BY ONLY <3>1, <3>2, CodedMap
    <3> QED BY <3>3 DEF b
  <2> QED BY <2>1, <2>3, <2>5 DEF RoundTrips, D
<1>3. \/ v = <<>> /\ nil
      \/ v = <<v[1]>> /\ Has(Named(t.of), v[1], <<>>, nil, depth - 1)
  BY DEF HasType
<1> QED BY <1>1, <1>2, <1>3

\* A case without conditions is selected.
LEMMA NoCaseSelected ==
  ASSUME NEW tag, NEW u, NoCase(tag)
  PROVE  Selected(tag, u) /\ Get(tag, "optional") = <<>>
BY DEF NoCase, Selected

\* The encoder knows the discriminant before it writes the field, the decoder
\* after it has read it: both take the same cases.
LEMMA SameCases ==
  ASSUME NEW field, NEW x, NEW u,
         Get(field.tag, "union") # <<>> => NoCase(field.tag)
  PROVE  LET known == Known(field, x, u)
         IN  /\ Selected(field.tag, known) <=> Selected(field.tag, u)
             /\ known = IF Selected(field.tag, u) THEN Known(field, x, u) ELSE u
<1>1. CASE Get(field.tag, "union") # <<>>
  BY <1>1, NoCaseSelected
<1>2. CASE Get(field.tag, "union") = <<>>
  BY <1>2 DEF Known
<1> QED BY <1>1, <1>2

\* A field of a struct, optional or in a case or neither.
LEMMA FieldRoundTrips ==
  ASSUME Recursion, NEW field, NEW x, NEW u, NEW known, NEW nil, NEW depth,
         known = Known(field, x, u),
         FieldHasType(field, x, known, nil, depth),
         AllRoundTrip(nil, depth)
  PROVE  RoundTrips(EncodeField(field, x, known), FieldReader(field, u), x, nil)
<1> DEFINE D == FieldReader(field, u)
           t == field.type
           w == Encode(t, x, <<>>)
           D1 == Reader(t, <<>>)
<1>1. Has(t, x, <<>>, nil, depth) => RoundTrips(w, D1, x, nil)
  BY DEF AllRoundTrip
<1>2. CASE Get(field.tag, "optional") # <<>>
  <2> DEFINE e == x # <<>>
             b == EncodeBool(e)
             w2 == IF x = <<>> THEN Written(<<>>) ELSE w
             D2 == IF x = <<>> THEN [s \in Seq(Byte) |-> Read(<<>>, s)] ELSE D1
  <2>1. EncodeField(field, x, known) = Then(Written(b), w2)
    BY <1>2 DEF EncodeField, Recursion
  <2>2. RoundTrips(Written(b), BoolReader, e, nil)
    BY BoolCoded, RoundTripsWritten
  <2>3. RoundTrips(w2, D2, x, nil)
    <3>1. CASE x = <<>>
      <4>1. \A s \in Seq(Byte) : D2[s] = Read(x, s)
        BY <3>1
      <4>2. Coded(D2, <<>>, x)
        BY ONLY <4>1, CodedNothing
      <4> QED BY <3>1, <4>2, RoundTripsWritten
    <3>2. CASE x # <<>>
      <4>1. Has(t, x, <<>>, nil, depth)
        BY <1>2, <3>2 DEF FieldHasType
      <4> QED BY <1>1, <3>2, <4>1
    <3> QED BY <3>1, <3>2
  <2>4. ASSUME NEW s \in Seq(Byte)
        PROVE  /\ ~BoolReader[s].ok => ~D[s].ok
               /\ \A r \in Seq(Byte) :
                    BoolReader[s] = Read(e, r) /\ ~D2[r].ok => ~D[s].ok
               /\ \A r, rest \in Seq(Byte) :
                    BoolReader[s] = Read(e, r) /\ D2[r] = Read(x, rest)
                      => D[s] = Read(x, rest)
    <3> DEFINE y == DecodeBool(s)
    <3>1. D[s] = IF ~y.ok THEN Unread
                 ELSE IF y.value THEN Decode(t, y.rest, <<>>)
                 ELSE Read(<<>>, y.rest)
      BY <1>2 DEF DecodeField, FieldReader, Recursion
    <3>2. BoolReader[s] = y
      BY DEF BoolReader
    <3>3. \A r \in Seq(Byte) : D2[r] = IF x = <<>> THEN Read(<<>>, r)
                                       ELSE Decode(t, r, <<>>)
      BY DEF Reader
    <3>4. (x = <<>> /\ e = FALSE) \/ (x # <<>> /\ e = TRUE)
      OBVIOUS
    <3> HIDE DEF y, D, D2, e
    <3>5. ASSUME NEW r, y = Read(e, r)
          PROVE  D[s] = IF e THEN Decode(t, r, <<>>) ELSE Read(<<>>, r)
      <4>1. y.ok /\ y.value = e /\ y.rest = r
        BY <3>5, Reading
      <4> QED BY <3>1, <4>1
    <3>6. ~BoolReader[s].ok => ~D[s].ok
      BY <3>1, <3>2, Reading
    <3>7. ASSUME NEW r \in Seq(Byte), BoolReader[s] = Read(e, r)
          PROVE  D[s] = D2[r]
      <4>1. D[s] = IF e THEN Decode(t, r, <<>>) ELSE Read(<<>>, r)
        BY <3>2, <3>5, <3>7
      <4> QED BY <3>3, <3>4, <4>1
    <3> QED BY <3>6, <3>7
  <2> HIDE DEF D, D2, w2, b, e
  <2>5. RoundTrips(Then(Written(b), w2), D, x, nil)
    BY <2>2, <2>3, <2>4, RoundTripsThen
  <2> QED BY <2>1, <2>5 DEF D
<1>3. CASE Get(field.tag, "optional") = <<>> /\ Selected(field.tag, known)
  <2>1. Selected(field.tag, u)
    BY <1>3, SameCases DEF FieldHasType
  <2>2. EncodeField(field, x, known) = w
    BY <1>3 DEF EncodeField, Recursion
  <2>3. D = D1
    BY <1>3, <2>1 DEF DecodeField, FieldReader, Reader, Recursion
  <2>4. Has(t, x, <<>>, nil, depth)
    BY <1>3 DEF FieldHasType
  <2> QED BY <1>1, <2>2, <2>3, <2>4
<1>4. CASE Get(field.tag, "optional") = <<>> /\ ~Selected(field.tag, known)
  <2>1. ~Selected(field.tag, u)
    BY <1>4, SameCases DEF FieldHasType
  <2>2. EncodeField(field, x, known) = Written(<<>>)
    BY <1>4 DEF EncodeField
  <2>3. x = Zero(t)
    BY <1>4 DEF FieldHasType
  <2>4. \A s \in Seq(Byte) : D[s] = Read(x, s)
    BY <1>4, <2>1, <2>3 DEF DecodeField, FieldReader
  <2>5. Coded(D, <<>>, x)
    BY ONLY <2>4, CodedNothing
  <2> QED BY <2>2, <2>5, RoundTripsWritten
<1> QED BY <1>2, <1>3, <1>4

\* A struct, one field after the other.
LEMMA StructRoundTrips ==
  ASSUME Recursion, NEW t, NEW v, NEW u, NEW nil, NEW depth,
         HasType(t, v, u, nil, depth), t.kind = "struct",
         AllRoundTrip(nil, depth - 1)
  PROVE  RoundTrips(Encode(t, v, u), Reader(t, u), v, nil)
<1>1. IsTuple(v) /\ (v = <<>> <=> t.of = <<>>)
  BY DEF HasType
<1>2. Encode(t, v, u) = EncodeFields(t.of, v, u)
      /\ Reader(t, u) = [s \in Seq(Byte) |-> DecodeFields(t.of, s, u)]
  BY DEF Encode, Decode, Reader
<1>3. CASE v = <<>>
  <2>1. Encode(t, v, u) = Written(<<>>)
    BY <1>1, <1>2, <1>3 DEF EncodeFields
  <2>2. \A s \in Seq(Byte) : Reader(t, u)[s] = Read(v, s)
    BY <1>1, <1>2, <1>3 DEF DecodeFields
  <2>3. Coded(Reader(t, u), <<>>, v)
    BY <2>2, CodedNothing
  <2> QED BY <2>1, <2>3, RoundTripsWritten
<1>4. CASE v # <<>>
  <2> DEFINE h == Head(v)
             l == Tail(v)
             field == Head(t.of)
             others == Tagged(Tail(t.of))
             known == Known(field, h, u)
             D == Reader(t, u)
             D1 == FieldReader(field, u)
             D2 == Reader(others, known)
             w1 == EncodeField(field, h, known)
             w2 == Encode(others, l, known)
  <2>1. v = <<h>> \o l
    BY <1>1, <1>4, TupleParts
  <2>2. FieldHasType(field, h, known, nil, depth - 1)
        /\ Has(others, l, known, nil, depth - 1)
    BY <1>4 DEF HasType
  <2>3. RoundTrips(w2, D2, l, nil)
    BY <2>2 DEF AllRoundTrip
  <2>4. RoundTrips(w1, D1, h, nil)
    BY <2>2, FieldRoundTrips
  <2>5. Encode(t, v, u) = Then(w1, w2)
    BY <1>1, <1>2, <1>4 DEF EncodeFields, Recursion
  <2>6. known = IF Selected(field.tag, u) THEN Known(field, h, u) ELSE u
    BY <2>2, SameCases DEF FieldHasType
  <2>7. ASSUME NEW s \in Seq(Byte)
        PROVE  /\ ~D1[s].ok => ~D[s].ok
               /\ \A r \in Seq(Byte) :
                    D1[s] = Read(h, r) /\ ~D2[r].ok => ~D[s].ok
               /\ \A r, rest \in Seq(Byte) :
                    D1[s] = Read(h, r) /\ D2[r] = Read(l, rest)
                      => D[s] = Read(v, rest)
    <3> DEFINE x == DecodeField(field, s, u)
               k == IF Selected(field.tag, u) THEN Known(field, x.value, u) ELSE u
               y == Decode(others, x.rest, k)
    <3>1. D[s] = IF x.ok /\ y.ok THEN Read(<<x.value>> \o y.value, y.rest)
                 ELSE Unread
      BY <1>1, <1>2, <1>4 DEF DecodeFields, Recursion
    <3>2. D1[s] = x
      BY DEF FieldReader
    <3>3. x.value = h => k = known
      BY <2>6
    <3>4. x.rest \in Seq(Byte) /\ k = known => D2[x.rest] = y
      BY DEF Reader
    <3> HIDE DEF x, y, k, D, D1, D2, h, l, known
    <3> QED BY <2>1, <3>1, <3>2, <3>3, <3>4, Reading
  <2> HIDE DEF D, D1, D2, h, l, w1, w2
  <2>8. RoundTrips(Then(w1, w2), D, v, nil)
    BY <2>3, <2>4, <2>7, RoundTripsThen
  <2> QED BY <2>5, <2>8 DEF D
<1> QED BY <1>3, <1>4

\* By induction over the depth, every value of a type.
LEMMA ValuesRoundTrip ==
  ASSUME Recursion, NEW nil, NEW depth \in Nat
  PROVE  AllRoundTrip(nil, depth)
<1> DEFINE S == {d \in Nat : ~AllRoundTrip(nil, d)}
<1> SUFFICES ASSUME S # {} PROVE FALSE
  OBVIOUS
<1>1. PICK d \in S : \A k \in S : d <= k
  <2>1. S \subseteq Nat
    OBVIOUS
  <2> HIDE DEF S
  <2> QED BY <2>1, Least
<1>2. d \in Nat /\ ~AllRoundTrip(nil, d)
  BY <1>1
<1>3. PICK t, v, u : /\ Has(t, v, u, nil, d)
                     /\ ~RoundTrips(Encode(t, v, u), Reader(t, u), v, nil)
  BY <1>2 DEF AllRoundTrip
<1>4. HasType(t, v, u, nil, d)
  BY <1>3 DEF Recursion
<1>5. d - 1 \in Nat
  BY <1>4 DEF HasType
<1>6. AllRoundTrip(nil, d - 1)
  BY <1>1, <1>2, <1>5
<1>7. t.kind \in {"int", "uint", "uhyper", "bool", "opaque", "fixed",
                  "array", "slice", "ptr", "struct"}
  BY <1>4 DEF HasType
<1> QED BY <1>3, <1>4, <1>6, <1>7, ScalarRoundTrips, ArrayRoundTrips,
           SliceRoundTrips, PtrRoundTrips, StructRoundTrips

-----------------------------------------------------------------------------
(* Messages on their way. *)

\* What a message is written as.
Sending == Encode(Type(message), value, <<>>)

\* Where the stream is from and where the result: the inductive invariant.
OnItsWay ==
  /\ value \in Values(message)
  /\ phase = "new" => fate = "whole" /\ stream = <<>>
  /\ phase = "failed" => fate = "whole" /\ stream = <<>> /\ ~Sending.ok
  /\ phase \in {"sent", "read"} =>
       /\ fate # "peer" => Sending.ok
       /\ fate = "whole" => stream = Sending.bytes
       /\ fate = "followed" => stream = Sending.bytes \o MoreBytes
       /\ fate = "cut" => \E n \in 0 .. Len(Sending.bytes) - 1 :
                            stream = SubSeq(Sending.bytes, 1, n)
       /\ fate = "peer" => stream \in Streams(message)
  /\ phase = "read" => result = Decode(Type(message), stream, <<>>)

\* A message that is sent is read back, and only Mountbody cannot be sent.
LEMMA MessageRoundTrips ==
  ASSUME Recursion, NEW m \in Types, NEW v \in Values(m)
  PROVE  RoundTrips(Encode(Type(m), v, <<>>), Reader(Type(m), <<>>), v,
                    m = "Mountbody")
<1> DEFINE nil == m = "Mountbody"
<1>1. Has(Type(m), v, <<>>, nil, Depth(v))
  BY ValuesAssumption
<1> HIDE DEF nil
<1>2. Depth(v) \in Nat
  BY <1>1 DEF Recursion, HasType
<1>3. AllRoundTrip(nil, Depth(v))
  BY <1>2, ValuesRoundTrip
<1>4. RoundTrips(Encode(Type(m), v, <<>>), Reader(Type(m), <<>>), v, nil)
  BY <1>1, <1>3 DEF AllRoundTrip
<1> QED BY <1>4 DEF nil

\* The bytes that follow are bytes.
LEMMA MoreAreBytes ==
  MoreBytes \in Seq(Byte) /\ Len(MoreBytes) = 3
<1>1. 0 \in Byte /\ 1 \in Byte
  BY Bases DEF Byte
<1> QED BY <1>1 DEF MoreBytes

\* Both parts of the invariant hold at first and are kept.
LEMMA OnItsWayHolds ==
  ASSUME Recursion
  PROVE  Spec => [](TypeOK /\ OnItsWay)
<1>1. Init => TypeOK /\ OnItsWay
  <2> SUFFICES ASSUME Init PROVE TypeOK /\ OnItsWay
    OBVIOUS
  <2>1. <<>> \in Seq(Byte) /\ Len(<<>>) = 0
    BY EmptySeq
  <2> QED BY <2>1 DEF Init, TypeOK, OnItsWay
<1>2. TypeOK /\ OnItsWay /\ [Next]_vars => (TypeOK /\ OnItsWay)'
  <2> SUFFICES ASSUME TypeOK, OnItsWay, [Next]_vars
               PROVE  TypeOK' /\ OnItsWay'
    OBVIOUS
  <2>1. message \in Types /\ value \in Values(message) /\ stream \in Seq(Byte)
    BY DEF TypeOK, OnItsWay
  <2>2. RoundTrips(Sending, Reader(Type(message), <<>>), value,
                   message = "Mountbody")
    BY <2>1, MessageRoundTrips DEF Sending
  <2>3. Sending.ok => Sending.bytes \in Seq(Byte) /\ Len(Sending.bytes) % 4 = 0
    BY <2>2 DEF RoundTrips, Coded
  <2>4. ~Sending.ok => Sending.bytes = <<>>
    BY <2>2 DEF RoundTrips
  <2>5. CASE Marshal
    <3>1. /\ phase = "new" /\ stream' = Sending.bytes
          /\ phase' = IF Sending.ok THEN "sent" ELSE "failed"
          /\ UNCHANGED <<message, value, fate, result>>
      BY <2>5 DEF Marshal, Sending
    <3>2. Sending' = Sending
      BY <3>1 DEF Sending
    <3>3. fate = "whole"
      BY <3>1 DEF OnItsWay
    <3>4. Sending.bytes \in Seq(Byte) /\ Len(Sending.bytes) % 4 = 0
      <4>1. <<>> \in Seq(Byte) /\ Len(<<>>) = 0
        BY EmptySeq
      <4>2. CASE Sending.ok
        BY <2>3, <4>2
      <4>3. CASE ~Sending.ok
        <5>1. Len(Sending.bytes) = 0
          BY <2>4, <4>1, <4>3
        <5>2. Len(Sending.bytes) % 4 = 0
          BY ONLY <5>1
        <5>3. Sending.bytes \in Seq(Byte)
          BY <2>4, <4>1, <4>3
        <5> QED BY <5>2, <5>3
      <4> QED BY <4>2, <4>3
    <3>5. TypeOK'
      BY <3>1, <3>4 DEF TypeOK
    <3>6. OnItsWay'
      BY <2>1, <2>4, <3>1, <3>2, <3>3 DEF OnItsWay
    <3> QED BY <3>5, <3>6
  <2>6. CASE PeerSends
    <3>1. /\ phase = "new" /\ stream' \in Streams(message)
          /\ fate' = "peer" /\ phase' = "sent"
          /\ UNCHANGED <<message, value, result>>
      BY <2>6 DEF PeerSends
    <3>2. stream' \in Seq(Byte)
      BY <2>1, <3>1, StreamsAssumption
    <3>3. TypeOK'
      BY <3>1, <3>2 DEF TypeOK
    <3>4. OnItsWay'
      BY <2>1, <3>1 DEF OnItsWay
    <3> QED BY <3>3, <3>4
  <2>7. CASE CutShort
    <3>1. /\ phase = "sent" /\ fate = "whole"
          /\ fate' = "cut"
          /\ UNCHANGED <<message, value, phase, result>>
      BY <2>7 DEF CutShort
    <3>2. PICK n \in 0 .. Len(stream) - 1 : stream' = SubSeq(stream, 1, n)
      BY <2>7 DEF CutShort
    <3>3. Sending.ok /\ stream = Sending.bytes
      BY <3>1 DEF OnItsWay
    <3>4. Sending' = Sending
      BY <3>1 DEF Sending
    <3>5. stream' \in Seq(Byte)
      <4>1. Len(stream) \in Nat
        BY <2>1, LenProperties
      <4>2. n \in 0 .. Len(stream)
        BY <4>1
      <4> QED BY <2>1, <3>2, <4>2, Parts
    <3>6. TypeOK'
      BY <3>1, <3>5 DEF TypeOK
    <3>7. OnItsWay'
      BY <2>1, <3>1, <3>2, <3>3, <3>4 DEF OnItsWay
    <3> QED BY <3>6, <3>7
  <2>8. CASE Follow
    <3>1. /\ phase = "sent" /\ fate = "whole"
          /\ stream' = stream \o MoreBytes /\ fate' = "followed"
          /\ UNCHANGED <<message, value, phase, result>>
      BY <2>8 DEF Follow
    <3>2. Sending.ok /\ stream = Sending.bytes
      BY <3>1 DEF OnItsWay
    <3>3. Sending' = Sending
      BY <3>1 DEF Sending
    <3>4. stream' \in Seq(Byte)
      BY <2>1, <3>1, MoreAreBytes, ConcatProperties
    <3>5. TypeOK'
      BY <3>1, <3>4 DEF TypeOK
    <3>6. OnItsWay'
      BY <2>1, <3>1, <3>2, <3>3 DEF OnItsWay
    <3> QED BY <3>5, <3>6
  <2>9. CASE Unmarshal
    <3>1. /\ phase = "sent" /\ phase' = "read"
          /\ result' = Decode(Type(message), stream, <<>>)
          /\ UNCHANGED <<message, value, stream, fate>>
      BY <2>9 DEF Unmarshal
    <3>2. Sending' = Sending
      BY <3>1 DEF Sending
    <3>3. TypeOK'
      BY <3>1 DEF TypeOK
    <3>4. OnItsWay'
      BY <3>1, <3>2 DEF OnItsWay
    <3> QED BY <3>3, <3>4
  <2>10. CASE UNCHANGED vars
    <3>1. Sending' = Sending
      BY <2>10 DEF Sending, vars
    <3> QED BY <2>10, <3>1 DEF vars, TypeOK, OnItsWay
  <2> QED BY <2>5, <2>6, <2>7, <2>8, <2>9, <2>10 DEF Next
<1> QED BY <1>1, <1>2, PTL DEF Spec

\* Type correctness: what is sent, whole, is in words, for every type, value
\* and width of a byte.
THEOREM TypeCorrect ==
  ASSUME Recursion
  PROVE  Spec => []TypeOK
<1>1. Spec => [](TypeOK /\ OnItsWay)
  BY OnItsWayHolds
<1>2. TypeOK /\ OnItsWay => TypeOK
  OBVIOUS
<1> QED BY <1>1, <1>2, PTL

\* Marshal and Unmarshal of encode.go and decode.go: whatever was marshalled
\* is unmarshalled, to the last byte and no further.
THEOREM RoundTripHolds ==
  ASSUME Recursion
  PROVE  Spec => []RoundTrip
<1>1. Spec => [](TypeOK /\ OnItsWay)
  BY OnItsWayHolds
<1>2. TypeOK /\ OnItsWay => RoundTrip
  <2> SUFFICES ASSUME TypeOK, OnItsWay PROVE RoundTrip
    OBVIOUS
  <2> DEFINE D == Reader(Type(message), <<>>)
  <2>1. RoundTrips(Sending, D, value, message = "Mountbody")
    BY MessageRoundTrips DEF Sending, TypeOK, OnItsWay
  <2>2. phase = "failed" => message = "Mountbody"
    BY <2>1 DEF RoundTrips, OnItsWay
  <2>3. ASSUME phase = "read", fate \in {"whole", "followed"}
        PROVE  result = Read(value, IF fate = "whole" THEN <<>> ELSE MoreBytes)
    <3> DEFINE rest == IF fate = "whole" THEN <<>> ELSE MoreBytes
    <3>1. Sending.ok /\ result = Decode(Type(message), stream, <<>>)
      BY <2>3 DEF OnItsWay
    <3>2. Coded(D, Sending.bytes, value)
      BY <2>1, <3>1 DEF RoundTrips
    <3>3. rest \in Seq(Byte)
      BY EmptySeq, MoreAreBytes
    <3>4. stream = Sending.bytes \o rest
      <4>1. Sending.bytes \o <<>> = Sending.bytes
        BY <3>2, ConcatEmptySeq DEF Coded
      <4> QED BY <2>3, <4>1 DEF OnItsWay
    <3>5. D[stream] = Read(value, rest)
      BY <3>2, <3>3, <3>4 DEF Coded
    <3>6. D[stream] = Decode(Type(message), stream, <<>>)
      BY DEF Reader, TypeOK
    <3> QED BY <3>1, <3>5, <3>6
  <2> QED BY <2>2, <2>3, Reading DEF RoundTrip
<1> QED BY <1>1, <1>2, PTL

\* io.ReadFull under every decoder: no part of an encoding is taken for a
\* message, wherever it ends.
THEOREM CutRefusedHolds ==
  ASSUME Recursion
  PROVE  Spec => []CutRefused
<1>1. Spec => [](TypeOK /\ OnItsWay)
  BY OnItsWayHolds
<1>2. TypeOK /\ OnItsWay => CutRefused
  <2> SUFFICES ASSUME TypeOK, OnItsWay, phase = "read", fate = "cut"
               PROVE  ~result.ok
    BY DEF CutRefused
  <2> DEFINE D == Reader(Type(message), <<>>)
  <2>1. RoundTrips(Sending, D, value, message = "Mountbody")
    BY MessageRoundTrips DEF Sending, TypeOK, OnItsWay
  <2>2. Sending.ok /\ result = Decode(Type(message), stream, <<>>)
    BY DEF OnItsWay
  <2>3. PICK n \in 0 .. Len(Sending.bytes) - 1 :
          stream = SubSeq(Sending.bytes, 1, n)
    BY DEF OnItsWay
  <2>4. ~D[stream].ok
    BY <2>1, <2>2, <2>3 DEF RoundTrips, Coded
  <2>5. D[stream] = Decode(Type(message), stream, <<>>)
    BY DEF Reader, TypeOK
  <2> QED BY <2>2, <2>4, <2>5
<1> QED BY <1>1, <1>2, PTL

-----------------------------------------------------------------------------
(* What the decoder accepts is a value of its type, and is written in as   *)
(* many bytes as were read.                                                *)

\* A value that fits its type is written in n bytes.
Fits(t, v, u, n) ==
  /\ \E depth \in Nat : Has(t, v, u, FALSE, depth)
  /\ Encode(t, v, u).ok
  /\ Len(Encode(t, v, u).bytes) = n

\* Something was read from s.
Consumed(r, s) ==
  /\ r = Read(r.value, r.rest)
  /\ r.rest \in Seq(Byte) /\ Len(r.rest) <= Len(s)

Measured(t, u, s) ==
  LET r == Decode(t, s, u)
  IN  r.ok => Consumed(r, s) /\ Fits(t, r.value, u, Len(s) - Len(r.rest))

\* All streams up to a length.
MeasuredUpTo(t, len) ==
  \A u : \A s \in Seq(Byte) : Len(s) <= len => Measured(t, u, s)

\* A value that has its type within some steps has it within more.
LEMMA HasMore ==
  ASSUME Recursion, NEW nil, NEW depth \in Nat, NEW more \in Nat, depth <= more,
         NEW t, NEW v, NEW u, Has(t, v, u, nil, depth)
  PROVE  Has(t, v, u, nil, more)
<1> DEFINE P(d) == \A t1, v1, u1, e :
                     e \in Nat /\ d <= e /\ Has(t1, v1, u1, nil, d)
                       => Has(t1, v1, u1, nil, e)
           S == {d \in Nat : ~P(d)}
<1> SUFFICES ASSUME S # {} PROVE FALSE
  OBVIOUS
<1>1. PICK d \in S : \A k \in S : d <= k
  <2>1. S \subseteq Nat
    OBVIOUS
  <2> HIDE DEF S
  <2> QED BY <2>1, Least
<1>2. PICK t1, v1, u1, e : /\ e \in Nat /\ d <= e /\ Has(t1, v1, u1, nil, d)
                           /\ ~Has(t1, v1, u1, nil, e)
  BY <1>1
<1>3. HasType(t1, v1, u1, nil, d) /\ ~HasType(t1, v1, u1, nil, e)
  BY <1>2 DEF Recursion
<1>4. d \in Nat \ {0} /\ e \in Nat \ {0} /\ d - 1 \in Nat /\ e - 1 \in Nat
      /\ d - 1 <= e - 1
  <2>1. d \in Nat \ {0}
    BY <1>3 DEF HasType
  <2> QED BY <1>2, <2>1
<1>5. P(d - 1)
  <2>1. d - 1 \notin S
    BY <1>1, <1>4
  <2> QED BY <1>4, <2>1
<1>6. \A t2, v2, u2 : Has(t2, v2, u2, nil, d - 1) => Has(t2, v2, u2, nil, e - 1)
  BY <1>4, <1>5
<1>7. \A f, x, u2 : FieldHasType(f, x, u2, nil, d - 1)
                      => FieldHasType(f, x, u2, nil, e - 1)
  BY <1>6 DEF FieldHasType
<1> HIDE DEF S, P
<1>8. HasType(t1, v1, u1, nil, e)
  <2>1. t1.kind \in {"int", "uint", "uhyper", "bool", "opaque", "fixed",
                     "array", "slice", "ptr", "struct"}
    BY <1>3 DEF HasType
  <2>2. CASE t1.kind \in {"int", "uint", "uhyper", "bool", "opaque", "fixed"}
    BY <1>3, <1>4, <2>2 DEF HasType
  <2>3. CASE t1.kind = "array"
    BY <1>3, <1>4, <1>6, <2>3 DEF HasType
  <2>4. CASE t1.kind = "slice"
    BY <1>3, <1>4, <1>6, <2>4 DEF HasType
  <2>5. CASE t1.kind = "ptr"
    BY <1>3, <1>4, <1>6, <2>5 DEF HasType
  <2>6. CASE t1.kind = "struct"
    BY <1>3, <1>4, <1>6, <1>7, <2>6 DEF HasType
  <2> QED BY <2>1, <2>2, <2>3, <2>4, <2>5, <2>6
<1> QED BY <1>3, <1>8

\* What fits is read back.
LEMMA FitsCoded ==
  ASSUME Recursion, NEW t, NEW v, NEW u, NEW n, Fits(t, v, u, n)
  PROVE  /\ Coded(Reader(t, u), Encode(t, v, u).bytes, v)
         /\ Encode(t, v, u).bytes \in Seq(Byte) /\ n \in Nat
<1>1. PICK d \in Nat : Has(t, v, u, FALSE, d)
  BY DEF Fits
<1>2. RoundTrips(Encode(t, v, u), Reader(t, u), v, FALSE)
  BY <1>1, ValuesRoundTrip DEF AllRoundTrip
<1>3. Coded(Reader(t, u), Encode(t, v, u).bytes, v)
  BY <1>2 DEF RoundTrips
<1>4. Encode(t, v, u).bytes \in Seq(Byte)
  BY <1>3 DEF Coded
<1>5. n \in Nat
  BY <1>4, LenProperties DEF Fits
<1> QED BY <1>3, <1>4, <1>5

\* A part that is written after another one.
LEMMA ThenLength ==
  ASSUME NEW w1, NEW w2, w1.ok, w2.ok,
         w1.bytes \in Seq(Byte), w2.bytes \in Seq(Byte)
  PROVE  /\ Then(w1, w2).ok
         /\ Len(Then(w1, w2).bytes) = Len(w1.bytes) + Len(w2.bytes)
<1>1. Then(w1, w2).ok /\ Then(w1, w2).bytes = w1.bytes \o w2.bytes
  <2>1. Then(w1, w2) = Written(w1.bytes \o w2.bytes)
    BY Writing
  <2> QED BY <2>1, Writing
<1> DEFINE b1 == w1.bytes
           b2 == w2.bytes
<1>2. b1 \in Seq(Byte) /\ b2 \in Seq(Byte)
  OBVIOUS
<1> HIDE DEF b1, b2
<1>3. Len(b1 \o b2) = Len(b1) + Len(b2)
  BY <1>2, ConcatProperties
<1> QED BY <1>1, <1>3 DEF b1, b2

\* Four bytes are a number below Wide.
LEMMA NumberRange ==
  ASSUME NEW b, b[1] \in Byte, b[2] \in Byte, b[3] \in Byte, b[4] \in Byte
  PROVE  Number(b) \in 0 .. MaxUint
<1> DEFINE B == Base
           c == b[1] * B + b[2]
           d == c * B + b[3]
           e == d * B + b[4]
<1>1. /\ B \in Nat /\ B > 0 /\ B * B \in Nat /\ B * (B * B) \in Nat
      /\ Wide = B * (B * (B * B)) /\ MaxUint = Wide - 1
  BY Bases
<1>2. /\ b[1] \in 0 .. B - 1 /\ b[2] \in 0 .. B - 1
      /\ b[3] \in 0 .. B - 1 /\ b[4] \in 0 .. B - 1
  BY DEF Byte
<1> HIDE DEF B
<1>3. ASSUME NEW x \in Nat, NEW k \in Nat, x <= k - 1, NEW y \in 0 .. B - 1
      PROVE  x * B + y \in Nat /\ x * B + y <= B * k - 1
  <2>1. x * B <= (k - 1) * B
    BY <1>1, <1>3
  <2>2. (k - 1) * B = B * k - B
    BY <1>1
  <2>3. x * B \in Nat /\ B * k \in Nat
    BY <1>1
  <2> QED BY <1>1, <2>1, <2>2, <2>3
<1>4. c \in Nat /\ c <= B * B - 1
  BY <1>1, <1>2, <1>3
<1> HIDE DEF c
<1>5. d \in Nat /\ d <= B * (B * B) - 1
  BY <1>1, <1>2, <1>3, <1>4
<1> HIDE DEF d
<1>6. e \in Nat /\ e <= B * (B * (B * B)) - 1
  BY <1>1, <1>2, <1>3, <1>5
<1>7. Number(b) = e
  BY DEF Number, B, c, d
<1> HIDE DEF e
<1>8. Wide \in Int
  BY Bases
<1> QED BY <1>1, <1>6, <1>7, <1>8

\* What DecodeUint reads: four bytes, a number that fits into a word.
LEMMA UintMeasured ==
  ASSUME NEW s \in Seq(Byte), DecodeUint(s).ok
  PROVE  /\ DecodeUint(s).value \in 0 .. MaxUint
         /\ Consumed(DecodeUint(s), s)
         /\ Len(DecodeUint(s).rest) = Len(s) - 4
<1> DEFINE r == ReadFull(s, 4)
           b == r.value
<1>1. DecodeUint(s) = IF r.ok THEN Read(Number(b), r.rest) ELSE Unread
  BY DEF DecodeUint
<1>2. r.ok
  BY <1>1, Reading
<1>3. /\ 4 <= Len(s) /\ b \in Seq(Byte) /\ Len(b) = 4
      /\ r.rest \in Seq(Byte) /\ Len(r.rest) = Len(s) - 4
  BY <1>2, ReadFullReads
<1>4. Len(s) \in Nat
  BY LenProperties
<1>5. \A i \in 1 .. Len(b) : b[i] \in Byte
  BY <1>3, ElementOfSeq
<1>6. Number(b) \in 0 .. MaxUint
  BY <1>3, <1>5, NumberRange
<1>7. DecodeUint(s) = Read(Number(b), r.rest)
  BY <1>1, <1>2
<1> HIDE DEF r, b
<1>8. DecodeUint(s).value = Number(b) /\ DecodeUint(s).rest = r.rest
  BY <1>7, Reading
<1> QED BY <1>3, <1>4, <1>6, <1>7, <1>8 DEF Consumed

\* What DecodeInt reads.
LEMMA IntMeasured ==
  ASSUME NEW s \in Seq(Byte), DecodeInt(s).ok
  PROVE  /\ DecodeInt(s).value \in -MaxInt32 - 1 .. MaxInt32
         /\ Consumed(DecodeInt(s), s)
         /\ Len(DecodeInt(s).rest) = Len(s) - 4
<1> DEFINE r == DecodeUint(s)
<1>1. DecodeInt(s) = IF r.ok THEN Read(Signed(r.value), r.rest) ELSE Unread
  BY DEF DecodeInt
<1>2. r.ok
  BY <1>1, Reading
<1>3. /\ r.value \in 0 .. MaxUint /\ Consumed(r, s)
      /\ Len(r.rest) = Len(s) - 4
  BY <1>2, UintMeasured
<1>4. Signed(r.value) \in -MaxInt32 - 1 .. MaxInt32
  <2> HIDE DEF r
  <2> QED BY <1>3, Bases DEF Signed
<1>5. DecodeInt(s) = Read(Signed(r.value), r.rest)
  BY <1>1, <1>2
<1> HIDE DEF r
<1>6. DecodeInt(s).value = Signed(r.value) /\ DecodeInt(s).rest = r.rest
  BY <1>5, Reading
<1> QED BY <1>3, <1>4, <1>5, <1>6 DEF Consumed

\* What DecodeUhyper reads.
LEMMA UhyperMeasured ==
  ASSUME NEW s \in Seq(Byte), DecodeUhyper(s).ok
  PROVE  /\ DecodeUhyper(s).value \in 0 .. Wide * Wide - 1
         /\ Consumed(DecodeUhyper(s), s)
         /\ Len(DecodeUhyper(s).rest) = Len(s) - 8
<1> DEFINE r == ReadFull(s, 8)
           b == r.value
           c == SubSeq(b, 5, 8)
<1>1. DecodeUhyper(s) = IF r.ok THEN Read(Hyper(b), r.rest) ELSE Unread
  BY DEF DecodeUhyper
<1>2. r.ok
  BY <1>1, Reading
<1>3. /\ 8 <= Len(s) /\ b \in Seq(Byte) /\ Len(b) = 8
      /\ r.rest \in Seq(Byte) /\ Len(r.rest) = Len(s) - 8
  BY <1>2, ReadFullReads
<1>4. Len(s) \in Nat
  BY LenProperties
<1>5. \A i \in 1 .. Len(b) : b[i] \in Byte
  BY <1>3, ElementOfSeq
<1>6. Number(b) \in 0 .. MaxUint
  <2>1. b[1] \in Byte /\ b[2] \in Byte /\ b[3] \in Byte /\ b[4] \in Byte
    BY <1>3, <1>5
  <2> HIDE DEF b
  <2> QED BY <2>1, NumberRange
<1>7. Number(c) \in 0 .. MaxUint
  <2>1. \A i \in 5 .. 8 : b[i] \in Byte
    BY <1>3, <1>5
  <2>2. c \in Seq(Byte) /\ Len(c) = 4
    <3>1. c \in Seq(Byte) /\ Len(c) = IF 5 <= 8 THEN 8 - 5 + 1 ELSE 0
      BY ONLY <2>1, SubSeqProperties
    <3> QED BY <3>1
  <2>3. \A i \in 1 .. Len(c) : c[i] \in Byte
    BY <2>2, ElementOfSeq
  <2>4. c[1] \in Byte /\ c[2] \in Byte /\ c[3] \in Byte /\ c[4] \in Byte
    BY <2>2, <2>3
  <2> HIDE DEF c
  <2> QED BY <2>4, NumberRange
<1>8. Hyper(b) \in 0 .. Wide * Wide - 1
  <2> DEFINE x == Number(b)
             y == Number(c)
             W == Wide
  <2>1. W \in Nat /\ x \in 0 .. W - 1 /\ y \in 0 .. W - 1
    BY <1>6, <1>7, Bases
  <2>2. Hyper(b) = x * W + y
    BY DEF Hyper
  <2> HIDE DEF x, y, W
  <2>3. x * W + y \in 0 .. W * W - 1
    <3>1. x * W <= (W - 1) * W
      BY <2>1
    <3>2. (W - 1) * W = W * W - W /\ W * W \in Nat /\ x * W \in Nat
      BY <2>1
    <3> QED BY <2>1, <3>1, <3>2
  <2> QED BY <2>2, <2>3 DEF W
<1>9. DecodeUhyper(s) = Read(Hyper(b), r.rest)
  BY <1>1, <1>2
<1> HIDE DEF r, b
<1>10. DecodeUhyper(s).value = Hyper(b) /\ DecodeUhyper(s).rest = r.rest
  BY <1>9, Reading
<1> QED BY <1>3, <1>4, <1>8, <1>9, <1>10 DEF Consumed

\* What DecodeBool reads.
LEMMA BoolMeasured ==
  ASSUME NEW s \in Seq(Byte), DecodeBool(s).ok
  PROVE  /\ DecodeBool(s).value \in BOOLEAN
         /\ Consumed(DecodeBool(s), s)
         /\ Len(DecodeBool(s).rest) = Len(s) - 4
<1> DEFINE r == DecodeInt(s)
           v == r.value = 1
<1>1. DecodeBool(s) = IF r.ok /\ r.value \in {0, 1} THEN Read(v, r.rest)
                      ELSE Unread
  BY DEF DecodeBool
<1>2. r.ok /\ DecodeBool(s) = Read(v, r.rest)
  BY <1>1, Reading
<1>3. Consumed(r, s) /\ Len(r.rest) = Len(s) - 4
  BY <1>2, IntMeasured
<1>4. v \in BOOLEAN
  OBVIOUS
<1> HIDE DEF r, v
<1>5. DecodeBool(s).value = v /\ DecodeBool(s).rest = r.rest
  BY <1>2, Reading
<1>6. DecodeBool(s) = Read(DecodeBool(s).value, DecodeBool(s).rest)
  BY <1>2, <1>5
<1> QED BY <1>3, <1>4, <1>5, <1>6 DEF Consumed

\* What DecodeLength reads.
LEMMA LengthMeasured ==
  ASSUME NEW s \in Seq(Byte), DecodeLength(s).ok
  PROVE  /\ DecodeLength(s).value \in 0 .. MaxInt32
         /\ Consumed(DecodeLength(s), s)
         /\ Len(DecodeLength(s).rest) = Len(s) - 4
<1> DEFINE r == DecodeUint(s)
<1>1. DecodeLength(s) = IF r.ok /\ r.value <= MaxInt32 THEN r ELSE Unread
  BY DEF DecodeLength
<1>2. r.ok /\ r.value <= MaxInt32 /\ DecodeLength(s) = r
  BY <1>1, Reading
<1>3. /\ r.value \in 0 .. MaxUint /\ Consumed(r, s)
      /\ Len(r.rest) = Len(s) - 4
  BY <1>2, UintMeasured
<1> HIDE DEF r
<1>4. r.value \in 0 .. MaxInt32
  BY <1>2, <1>3, Bases
<1> QED BY <1>2, <1>3, <1>4

\* What DecodeFixedOpaque reads, the padding with it.
LEMMA FixedMeasured ==
  ASSUME NEW s \in Seq(Byte), NEW l \in Nat, DecodeFixedOpaque(s, l).ok
  PROVE  LET r == DecodeFixedOpaque(s, l)
         IN  /\ IsOpaque(r.value) /\ Len(r.value) = l
             /\ Consumed(r, s)
             /\ Len(r.rest) = Len(s) - (l + Padding(l))
<1> DEFINE p == Padding(l)
           f == ReadFull(s, l + p)
           b == f.value
           v == SubSeq(b, 1, l)
           r == DecodeFixedOpaque(s, l)
<1>1. p \in 0 .. 3
  BY PaddingFills
<1>2. r = IF l + p <= MaxInt32 /\ f.ok THEN Read(v, f.rest) ELSE Unread
  BY DEF DecodeFixedOpaque
<1>3. f.ok /\ l + p <= MaxInt32
  BY <1>2, Reading
<1>4. l + p \in Nat
  <2> HIDE DEF p
  <2> QED BY <1>1
<1>5. /\ l + p <= Len(s) /\ b \in Seq(Byte) /\ Len(b) = l + p
      /\ f.rest \in Seq(Byte) /\ Len(f.rest) = Len(s) - (l + p)
  BY <1>3, <1>4, ReadFullReads
<1>6. v \in Seq(Byte) /\ Len(v) = l
  <2>1. l \in 0 .. Len(b)
    <3> HIDE DEF p, b
    <3> QED BY <1>1, <1>5
  <2> QED BY <1>5, <2>1, Parts
<1>7. IsOpaque(v)
  BY <1>3, <1>6 DEF IsOpaque
<1>8. r = Read(v, f.rest)
  BY <1>2, <1>3
<1>9. Len(s) \in Nat
  BY LenProperties
<1> HIDE DEF r, v, b, f, p
<1>10. r.value = v /\ r.rest = f.rest
  BY <1>8, Reading
<1>11. Consumed(r, s)
  BY <1>1, <1>4, <1>5, <1>8, <1>9, <1>10 DEF Consumed
<1>12. IsOpaque(r.value) /\ Len(r.value) = l /\ Len(r.rest) = Len(s) - (l + p)
  BY <1>5, <1>6, <1>7, <1>10
<1> QED BY <1>11, <1>12 DEF r, p

\* The scalars and opaques.
LEMMA ScalarMeasured ==
  ASSUME Recursion, NEW t, NEW u, NEW s \in Seq(Byte),
         t.kind \in {"int", "uint", "uhyper", "bool", "opaque", "fixed"},
         t.kind = "fixed" => t.size \in Nat
  PROVE  Measured(t, u, s)
<1> DEFINE r == Decode(t, s, u)
           v == r.value
           w == Encode(t, v, u)
<1> SUFFICES ASSUME r.ok
             PROVE  /\ Consumed(r, s)
                    /\ HasType(t, v, u, FALSE, 1)
                    /\ w.ok /\ Len(w.bytes) = Len(s) - Len(r.rest)
  <2>1. HasType(t, v, u, FALSE, 1) => Has(t, v, u, FALSE, 1)
    BY DEF Recursion
  <2> HIDE DEF r, v, w
  <2>2. (r.ok => /\ Consumed(r, s) /\ HasType(t, v, u, FALSE, 1)
                 /\ w.ok /\ Len(w.bytes) = Len(s) - Len(r.rest))
          => (r.ok => Consumed(r, s) /\ Fits(t, v, u, Len(s) - Len(r.rest)))
    BY <2>1 DEF Fits, w
  <2> QED BY <2>2 DEF Measured, r, v
<1>1. Len(s) \in Nat
  BY LenProperties
<1>2. CASE t.kind = "int"
  <2>1. r = DecodeInt(s)
    BY <1>2 DEF Decode
  <2>2. /\ v \in -MaxInt32 - 1 .. MaxInt32
        /\ Consumed(r, s) /\ Len(r.rest) = Len(s) - 4
    BY <2>1, IntMeasured
  <2>3. w = Written(EncodeUint(v))
    BY <1>2 DEF Encode
  <2> HIDE DEF r, v, w
  <2>4. HasType(t, v, u, FALSE, 1)
    BY <1>2, <2>2 DEF HasType
  <2>5. v \in Int
    BY <2>2, Bases
  <2>6. Len(EncodeUint(v)) = 4
    BY <2>5, UintBytes
  <2>7. w.ok /\ w.bytes = EncodeUint(v)
    BY <2>3, Writing
  <2>8. Len(s) - Len(r.rest) = 4
    BY ONLY <1>1, <2>2
  <2> QED BY <2>2, <2>4, <2>6, <2>7, <2>8
<1>3. CASE t.kind = "uint"
  <2>1. r = DecodeUint(s)
    BY <1>3 DEF Decode
  <2>2. /\ v \in 0 .. MaxUint
        /\ Consumed(r, s) /\ Len(r.rest) = Len(s) - 4
    BY <2>1, UintMeasured
  <2>3. w = Written(EncodeUint(v))
    BY <1>3 DEF Encode
  <2> HIDE DEF r, v, w
  <2>4. HasType(t, v, u, FALSE, 1)
    BY <1>3, <2>2 DEF HasType
  <2>5. v \in Int
    BY <2>2, Bases
  <2>6. Len(EncodeUint(v)) = 4
    BY <2>5, UintBytes
  <2>7. w.ok /\ w.bytes = EncodeUint(v)
    BY <2>3, Writing
  <2>8. Len(s) - Len(r.rest) = 4
    BY ONLY <1>1, <2>2
  <2> QED BY <2>2, <2>4, <2>6, <2>7, <2>8
<1>4. CASE t.kind = "uhyper"
  <2>1. r = DecodeUhyper(s)
    BY <1>4 DEF Decode
  <2>2. /\ v \in 0 .. Wide * Wide - 1
        /\ Consumed(r, s) /\ Len(r.rest) = Len(s) - 8
    BY <2>1, UhyperMeasured
  <2>3. w = Written(EncodeUhyper(v))
    BY <1>4 DEF Encode
  <2> HIDE DEF r, v, w
  <2>4. HasType(t, v, u, FALSE, 1)
    BY <1>4, <2>2 DEF HasType
  <2>5. Len(EncodeUhyper(v)) = 8
    BY <2>2, UhyperNumber
  <2>6. w.ok /\ w.bytes = EncodeUhyper(v)
    BY <2>3, Writing
  <2>7. Len(s) - Len(r.rest) = 8
    BY ONLY <1>1, <2>2
  <2> QED BY <2>2, <2>4, <2>5, <2>6, <2>7
<1>5. CASE t.kind = "bool"
  <2>1. r = DecodeBool(s)
    BY <1>5 DEF Decode
  <2>2. /\ v \in BOOLEAN
        /\ Consumed(r, s) /\ Len(r.rest) = Len(s) - 4
    BY <2>1, BoolMeasured
  <2>3. w = Written(EncodeBool(v))
    BY <1>5 DEF Encode
  <2> HIDE DEF r, v, w
  <2>4. HasType(t, v, u, FALSE, 1)
    BY <1>5, <2>2 DEF HasType
  <2>5. Len(EncodeBool(v)) = 4
    <3>1. (IF v THEN 1 ELSE 0) \in Int
      OBVIOUS
    <3> QED BY <3>1, UintBytes DEF EncodeBool
  <2>6. w.ok /\ w.bytes = EncodeBool(v)
    BY <2>3, Writing
  <2>7. Len(s) - Len(r.rest) = 4
    BY ONLY <1>1, <2>2
  <2> QED BY <2>2, <2>4, <2>5, <2>6, <2>7
<1>6. CASE t.kind = "opaque"
  <2> DEFINE x == DecodeLength(s)
             y == DecodeFixedOpaque(x.rest, x.value)
  <2>1. r = IF x.ok THEN y ELSE Unread
    BY <1>6 DEF Decode, DecodeOpaque
  <2>2. x.ok /\ r = y
    BY <2>1, Reading
  <2>3. /\ x.value \in 0 .. MaxInt32 /\ Consumed(x, s)
        /\ Len(x.rest) = Len(s) - 4
    BY <2>2, LengthMeasured
  <2>4. /\ x.rest \in Seq(Byte) /\ Len(x.rest) <= Len(s) /\ x.value \in Nat
    BY <2>3, Bases DEF Consumed
  <2>5. /\ IsOpaque(v) /\ Len(v) = x.value
        /\ Consumed(r, x.rest)
        /\ Len(r.rest) = Len(x.rest) - (x.value + Padding(x.value))
    BY <2>2, <2>4, FixedMeasured
  <2>6. w = Written(EncodeOpaque(v))
    BY <1>6 DEF Encode
  <2> HIDE DEF r, v, w, x, y
  <2>7. HasType(t, v, u, FALSE, 1)
    BY <1>6, <2>5 DEF HasType
  <2>8. Len(EncodeOpaque(v)) = 4 + (x.value + Padding(x.value))
    <3>1. EncodeUint(Len(v)) \in Seq(Byte) /\ Len(EncodeUint(Len(v))) = 4
      BY <2>4, <2>5, UintBytes
    <3>2. /\ EncodeFixedOpaque(v) \in Seq(Byte)
          /\ Len(EncodeFixedOpaque(v)) = Len(v) + Padding(Len(v))
      BY <2>5, PaddedBytes DEF IsOpaque
    <3>3. ASSUME NEW b1 \in Seq(Byte), NEW b2 \in Seq(Byte)
          PROVE  Len(b1 \o b2) = Len(b1) + Len(b2)
      BY ConcatProperties
    <3>4. Len(EncodeUint(Len(v)) \o EncodeFixedOpaque(v))
            = Len(EncodeUint(Len(v))) + Len(EncodeFixedOpaque(v))
      BY <3>1, <3>2, <3>3
    <3> QED BY <2>5, <3>1, <3>2, <3>4 DEF EncodeOpaque
  <2>9. w.ok /\ w.bytes = EncodeOpaque(v)
    BY <2>6, Writing
  <2>10. r = Read(v, r.rest) /\ r.rest \in Seq(Byte) /\ Len(r.rest) <= Len(s)
    <3>1. Len(r.rest) <= Len(x.rest) /\ r = Read(r.value, r.rest)
          /\ r.rest \in Seq(Byte)
      BY <2>5 DEF Consumed
    <3>2. Len(r.rest) \in Nat /\ Len(x.rest) \in Nat
      BY <2>4, <3>1, LenProperties
    <3> QED BY <1>1, <2>4, <3>1, <3>2 DEF v
  <2>11. Len(s) - Len(r.rest) = 4 + (x.value + Padding(x.value))
    <3>1. Padding(x.value) \in Int
      BY <2>4, PaddingFills
    <3> QED BY <1>1, <2>3, <2>4, <2>5, <3>1
  <2>12. Consumed(r, s)
    BY <2>10 DEF Consumed, v
  <2> QED BY <2>7, <2>8, <2>9, <2>11, <2>12
<1>7. CASE t.kind = "fixed"
  <2> DEFINE l == t.size
  <2>1. r = DecodeFixedOpaque(s, l) /\ l \in Nat
    BY <1>7 DEF Decode
  <2>2. /\ IsOpaque(v) /\ Len(v) = l /\ Consumed(r, s)
        /\ Len(r.rest) = Len(s) - (l + Padding(l))
    BY <2>1, FixedMeasured
  <2>3. w = Written(EncodeFixedOpaque(v))
    BY <1>7 DEF Encode
  <2> HIDE DEF r, v, w
  <2>4. HasType(t, v, u, FALSE, 1)
    BY <1>7, <2>2 DEF HasType
  <2>5. Len(EncodeFixedOpaque(v)) = l + Padding(l)
    BY <2>2, PaddedBytes DEF IsOpaque
  <2>6. w.ok /\ w.bytes = EncodeFixedOpaque(v)
    BY <2>3, Writing
  <2>7. Padding(l) \in Int
    BY <2>1, PaddingFills
  <2>8. l + Padding(l) = Len(s) - Len(r.rest)
    <3> DEFINE p == Padding(l)
    <3> HIDE DEF p
    <3> QED BY <1>1, <2>1, <2>2, <2>7 DEF p
  <2> QED BY <2>2, <2>4, <2>5, <2>6, <2>8
<1> QED BY <1>2, <1>3, <1>4, <1>5, <1>6, <1>7

\* Two parts of a value, one read after the other from s.
LEMMA ConsumedThen ==
  ASSUME NEW s \in Seq(Byte), NEW x, NEW y, NEW v,
         Consumed(x, s), Consumed(y, x.rest)
  PROVE  /\ Consumed(Read(v, y.rest), s)
         /\ (Len(s) - Len(x.rest)) + (Len(x.rest) - Len(y.rest))
              = Len(s) - Len(y.rest)
         /\ Len(x.rest) \in Nat /\ Len(y.rest) \in Nat
<1> DEFINE z == Read(v, y.rest)
<1>1. x.rest \in Seq(Byte) /\ y.rest \in Seq(Byte)
      /\ Len(x.rest) <= Len(s) /\ Len(y.rest) <= Len(x.rest)
  BY DEF Consumed
<1>2. Len(s) \in Nat /\ Len(x.rest) \in Nat /\ Len(y.rest) \in Nat
  BY <1>1, LenProperties
<1>3. z.value = v /\ z.rest = y.rest
  BY Reading
<1>4. z = Read(z.value, z.rest)
  BY <1>3
<1> HIDE DEF z
<1>5. Consumed(z, s)
  BY <1>1, <1>2, <1>3, <1>4 DEF Consumed
<1> QED BY <1>2, <1>5 DEF z

\* Two values that have their types have them within the same number of steps.
LEMMA SameDepth ==
  ASSUME Recursion, NEW t1, NEW v1, NEW u1, NEW t2, NEW v2, NEW u2,
         \E d \in Nat : Has(t1, v1, u1, FALSE, d),
         \E d \in Nat : Has(t2, v2, u2, FALSE, d)
  PROVE  \E d \in Nat : Has(t1, v1, u1, FALSE, d) /\ Has(t2, v2, u2, FALSE, d)
<1>1. PICK d1 \in Nat : Has(t1, v1, u1, FALSE, d1)
  OBVIOUS
<1>2. PICK d2 \in Nat : Has(t2, v2, u2, FALSE, d2)
  OBVIOUS
<1>3. CASE d1 <= d2
  BY <1>1, <1>2, <1>3, HasMore
<1>4. CASE d2 <= d1
  BY <1>1, <1>2, <1>4, HasMore
<1>5. d1 <= d2 \/ d2 <= d1
  OBVIOUS
<1> QED BY <1>3, <1>4, <1>5

\* An array, one element after the other.
LEMMA ArrayMeasured ==
  ASSUME Recursion, NEW of, NEW len \in Nat, MeasuredUpTo(of, len), NEW n \in Nat
  PROVE  MeasuredUpTo(Array(n, of), len)
<1> DEFINE S == {k \in Nat : ~MeasuredUpTo(Array(k, of), len)}
<1> SUFFICES ASSUME S # {} PROVE FALSE
  OBVIOUS
<1>1. PICK k \in S : \A j \in S : k <= j
  <2>1. S \subseteq Nat
    OBVIOUS
  <2> HIDE DEF S
  <2> QED BY <2>1, Least
<1>2. k \in Nat /\ ~MeasuredUpTo(Array(k, of), len)
  BY <1>1
<1>3. k # 0 => k - 1 \in Nat /\ MeasuredUpTo(Array(k - 1, of), len)
  <2>1. k # 0 => k - 1 \in Nat /\ ~(k <= k - 1)
    BY <1>2
  <2> QED BY <1>1, <2>1
<1> HIDE DEF S
<1> DEFINE t == Array(k, of)
<1>4. t.kind = "array" /\ t.size = k /\ t.of = of
  BY DEF Array, Kind
<1>5. ASSUME NEW u, NEW s \in Seq(Byte), Len(s) <= len, Decode(t, s, u).ok
      PROVE  LET r == Decode(t, s, u)
             IN  Consumed(r, s) /\ Fits(t, r.value, u, Len(s) - Len(r.rest))
  <2> DEFINE r == Decode(t, s, u)
             v == r.value
  <2>1. r = DecodeItems(t, s) /\ Encode(t, v, u) = EncodeItems(t, v)
    BY <1>4 DEF Decode, Encode
  <2>2. CASE k = 0
    <3>1. r = Read(<<>>, s)
      BY <1>4, <2>1, <2>2 DEF DecodeItems
    <3>2. v = <<>> /\ r.rest = s
      BY <3>1, Reading
    <3>3. Encode(t, v, u) = Written(<<>>)
      BY <1>4, <2>1, <2>2 DEF EncodeItems
    <3>4. Has(t, v, u, FALSE, 1)
      <4>1. IsTuple(<<>>) /\ Len(<<>>) = 0
        BY DEF IsTuple
      <4>2. 1 \in Nat \ {0}
        OBVIOUS
      <4> HIDE DEF t, r, v
      <4>3. HasType(t, v, u, FALSE, 1)
        BY <1>4, <2>2, <3>2, <4>1, <4>2 DEF HasType
      <4> QED BY <4>3 DEF Recursion
    <3>5. Len(s) \in Nat /\ Len(s) - Len(s) = 0
      BY LenProperties
    <3> HIDE DEF r, v
    <3>6. Consumed(r, s)
      BY <3>1, <3>2, <3>5 DEF Consumed, v
    <3>7. Encode(t, v, u).ok /\ Len(Encode(t, v, u).bytes) = 0
      BY <3>3, Writing
    <3>8. Fits(t, v, u, Len(s) - Len(r.rest))
      <4>1. 1 \in Nat /\ Len(s) - Len(r.rest) = 0
        BY <3>2, <3>5
      <4> HIDE DEF t
      <4> QED BY <3>4, <3>7, <4>1 DEF Fits
    <3> QED BY <3>6, <3>8 DEF r, v
  <2>3. CASE k # 0
    <3> DEFINE a == Array(k - 1, of)
               x == Decode(of, s, <<>>)
               y == Decode(a, x.rest, <<>>)
               h == x.value
               l == y.value
               w1 == Encode(of, h, <<>>)
               w2 == Encode(a, l, <<>>)
    <3>1. r = IF x.ok /\ y.ok THEN Read(<<h>> \o l, y.rest) ELSE Unread
      BY <1>4, <2>1, <2>3 DEF DecodeItems, Recursion
    <3>2. x.ok /\ y.ok /\ v = <<h>> \o l /\ r = Read(v, y.rest)
          /\ r.rest = y.rest
      <4>1. x.ok /\ y.ok
        BY <1>5, <3>1, Reading
      <4>2. r = Read(<<h>> \o l, y.rest)
        BY <3>1, <4>1
      <4> HIDE DEF r, h, l, x, y
      <4> QED BY <4>1, <4>2, Reading DEF v
    <3>3. Consumed(x, s) /\ Fits(of, h, <<>>, Len(s) - Len(x.rest))
      BY <1>5, <3>2 DEF MeasuredUpTo, Measured
    <3>4. x.rest \in Seq(Byte) /\ Len(x.rest) <= len
      <4>1. x.rest \in Seq(Byte) /\ Len(x.rest) <= Len(s)
        BY <3>3 DEF Consumed
      <4>2. Len(s) \in Nat /\ Len(x.rest) \in Nat
        BY <4>1, LenProperties
      <4> QED BY <1>5, <4>1, <4>2
    <3>5. Consumed(y, x.rest) /\ Fits(a, l, <<>>, Len(x.rest) - Len(y.rest))
      BY <1>3, <2>3, <3>2, <3>4 DEF MeasuredUpTo, Measured
    <3>6. PICK d \in Nat : Has(of, h, <<>>, FALSE, d) /\ Has(a, l, <<>>, FALSE, d)
      BY <3>3, <3>5, SameDepth DEF Fits
    <3>7. IsTuple(l) /\ Len(l) = k - 1
      <4>1. HasType(a, l, <<>>, FALSE, d)
        BY <3>6 DEF Recursion
      <4>2. a.kind = "array" /\ a.size = k - 1
        BY DEF Array, Kind
      <4> QED BY <4>1, <4>2 DEF HasType
    <3>8. IsTuple(v) /\ v # <<>> /\ Len(v) = k /\ Head(v) = h /\ Tail(v) = l
      <4>1. Len(l) + 1 = k
        BY <1>2, <3>7
      <4> HIDE DEF h, l, v
      <4> QED BY <3>2, <3>7, <4>1, TupleCons
    <3>9. Has(t, v, u, FALSE, d + 1)
      <4>1. d + 1 \in Nat \ {0} /\ (d + 1) - 1 = d
        OBVIOUS
      <4> HIDE DEF h, l, v, r
      <4>2. HasType(t, v, u, FALSE, d + 1)
        BY <1>4, <3>6, <3>8, <4>1 DEF HasType
      <4> QED BY <4>2 DEF Recursion
    <3>10. Encode(t, v, u) = Then(w1, w2)
      <4> HIDE DEF h, l, v, r
      <4> QED BY <1>4, <2>1, <2>3, <3>8 DEF EncodeItems, Recursion
    <3>11. /\ w1.ok /\ w1.bytes \in Seq(Byte)
           /\ Len(w1.bytes) = Len(s) - Len(x.rest)
           /\ w2.ok /\ w2.bytes \in Seq(Byte)
           /\ Len(w2.bytes) = Len(x.rest) - Len(y.rest)
      BY <3>3, <3>5, FitsCoded DEF Fits
    <3> HIDE DEF x, y, w1, w2, v, r
    <3>12. /\ Consumed(Read(v, y.rest), s)
           /\ Then(w1, w2).ok
           /\ Len(Then(w1, w2).bytes) = Len(s) - Len(y.rest)
      <4>1. Consumed(x, s) /\ Consumed(y, x.rest)
        BY <3>3, <3>5
      <4>2. Len(Then(w1, w2).bytes) = Len(w1.bytes) + Len(w2.bytes)
            /\ Then(w1, w2).ok
        BY ONLY <3>11, ThenLength
      <4>3. /\ Consumed(Read(v, y.rest), s)
            /\ (Len(s) - Len(x.rest)) + (Len(x.rest) - Len(y.rest))
                 = Len(s) - Len(y.rest)
        BY ONLY s \in Seq(Byte), <4>1, ConsumedThen
      <4> QED BY ONLY <3>11, <4>2, <4>3
    <3>13. Fits(t, v, u, Len(s) - Len(r.rest))
      <4>1. d + 1 \in Nat
        OBVIOUS
      <4> HIDE DEF t
      <4> QED BY <3>2, <3>9, <3>10, <3>12, <4>1 DEF Fits
    <3> QED BY <3>2, <3>12, <3>13 DEF r, v
  <2> QED BY <2>2, <2>3
<1>6. MeasuredUpTo(t, len)
  BY <1>5 DEF MeasuredUpTo, Measured
<1> QED BY <1>2, <1>6

\* A slice, an array with its length before it.
LEMMA SliceMeasured ==
  ASSUME Recursion, NEW t, NEW len \in Nat, t.kind = "slice",
         MeasuredUpTo(t.of, len)
  PROVE  MeasuredUpTo(t, len)
<1> SUFFICES ASSUME NEW u, NEW s \in Seq(Byte), Len(s) <= len, Decode(t, s, u).ok
             PROVE  LET r == Decode(t, s, u)
                    IN  /\ Consumed(r, s)
                        /\ Fits(t, r.value, u, Len(s) - Len(r.rest))
  BY DEF MeasuredUpTo, Measured
<1> DEFINE r == Decode(t, s, u)
           v == r.value
           x == DecodeLength(s)
           a == Array(x.value, t.of)
           y == Decode(a, x.rest, <<>>)
           w1 == Written(EncodeUint(Len(v)))
           w2 == Encode(a, v, <<>>)
<1>1. r = IF x.ok THEN y ELSE Unread
  BY DEF Decode, Recursion
<1>2. x.ok /\ r = y
  BY <1>1, Reading
<1>3. /\ x.value \in 0 .. MaxInt32 /\ Consumed(x, s)
      /\ Len(x.rest) = Len(s) - 4
  BY <1>2, LengthMeasured
<1>4. /\ x.rest \in Seq(Byte) /\ Len(x.rest) <= len /\ x.value \in Nat
      /\ x.value <= MaxInt32
  <2>1. x.rest \in Seq(Byte) /\ Len(x.rest) <= Len(s)
    BY <1>3 DEF Consumed
  <2>2. Len(s) \in Nat /\ Len(x.rest) \in Nat
    BY <2>1, LenProperties
  <2> QED BY <1>3, <2>1, <2>2, Bases
<1>5. MeasuredUpTo(a, len)
  BY <1>4, ArrayMeasured
<1>6. Consumed(y, x.rest) /\ Fits(a, v, <<>>, Len(x.rest) - Len(y.rest))
  BY <1>2, <1>4, <1>5 DEF MeasuredUpTo, Measured
<1>7. PICK d \in Nat : Has(a, v, <<>>, FALSE, d)
  BY <1>6 DEF Fits
<1>8. IsTuple(v) /\ Len(v) = x.value
  <2>1. HasType(a, v, <<>>, FALSE, d)
    BY <1>7 DEF Recursion
  <2>2. a.kind = "array" /\ a.size = x.value
    BY DEF Array, Kind
  <2> QED BY <2>1, <2>2 DEF HasType
<1>9. Encode(t, v, u) = Then(w1, w2)
  BY <1>8 DEF Encode, EncodeSlice, Recursion
<1>10. /\ w2.ok /\ w2.bytes \in Seq(Byte)
       /\ Len(w2.bytes) = Len(x.rest) - Len(y.rest)
  BY <1>6, FitsCoded DEF Fits
<1>11. w1.ok /\ w1.bytes \in Seq(Byte) /\ Len(w1.bytes) = Len(s) - Len(x.rest)
  <2> DEFINE b == EncodeUint(Len(v))
  <2>1. b \in Seq(Byte) /\ Len(b) = 4
    BY <1>4, <1>8, UintBytes
  <2>2. Len(s) - Len(x.rest) = 4
    <3>1. Len(s) \in Nat
      BY LenProperties
    <3> QED BY ONLY <1>3, <3>1
  <2>3. w1.ok /\ w1.bytes = b
    BY Writing
  <2> QED BY <2>1, <2>2, <2>3
<1>12. Has(t, v, u, FALSE, d + 1)
  <2>1. d + 1 \in Nat \ {0} /\ (d + 1) - 1 = d
    OBVIOUS
  <2> HIDE DEF v, x
  <2>2. HasType(t, v, u, FALSE, d + 1)
    BY <1>4, <1>7, <1>8, <2>1 DEF HasType
  <2> QED BY <2>2 DEF Recursion
<1> HIDE DEF r, v, x, y, w1, w2
<1>13. Then(w1, w2).ok /\ Len(Then(w1, w2).bytes) = Len(w1.bytes) + Len(w2.bytes)
  BY ONLY <1>10, <1>11, ThenLength
<1>14. /\ Consumed(Read(v, y.rest), s)
       /\ (Len(s) - Len(x.rest)) + (Len(x.rest) - Len(y.rest))
            = Len(s) - Len(y.rest)
  <2>1. Consumed(x, s) /\ Consumed(y, x.rest)
    BY <1>3, <1>6
  <2> QED BY ONLY s \in Seq(Byte), <2>1, ConsumedThen
<1>15. Consumed(r, s)
  BY <1>2, <1>6, <1>14 DEF Consumed, v
<1>16. Fits(t, v, u, Len(s) - Len(r.rest))
  <2>1. d + 1 \in Nat
    OBVIOUS
  <2> QED BY <1>2, <1>9, <1>10, <1>11, <1>12, <1>13, <1>14, <2>1 DEF Fits
<1> QED BY <1>15, <1>16 DEF r, v

\* A pointer, of which a target is allocated.
LEMMA PtrMeasured ==
  ASSUME Recursion, NEW t, NEW len \in Nat, t.kind = "ptr",
         MeasuredUpTo(Named(t.of), len)
  PROVE  MeasuredUpTo(t, len)
<1> SUFFICES ASSUME NEW u, NEW s \in Seq(Byte), Len(s) <= len, Decode(t, s, u).ok
             PROVE  LET r == Decode(t, s, u)
                    IN  /\ Consumed(r, s)
                        /\ Fits(t, r.value, u, Len(s) - Len(r.rest))
  BY DEF MeasuredUpTo, Measured
<1> DEFINE r == Decode(t, s, u)
           v == r.value
           p == Named(t.of)
           x == Decode(p, s, <<>>)
           h == x.value
<1>1. r = IF x.ok THEN Read(<<h>>, x.rest) ELSE Unread
  BY DEF Decode, Recursion
<1>2. x.ok /\ r = Read(<<h>>, x.rest) /\ v = <<h>> /\ r.rest = x.rest
  <2>1. x.ok
    BY <1>1, Reading
  <2>2. r = Read(<<h>>, x.rest)
    BY <1>1, <2>1
  <2> HIDE DEF r, x, h
  <2> QED BY <2>1, <2>2, Reading DEF v
<1>3. Consumed(x, s) /\ Fits(p, h, <<>>, Len(s) - Len(x.rest))
  BY <1>2 DEF MeasuredUpTo, Measured
<1>4. PICK d \in Nat : Has(p, h, <<>>, FALSE, d)
  BY <1>3 DEF Fits
<1> HIDE DEF r, v, p, x, h
<1>5. v # <<>> /\ v[1] = h
  BY <1>2
<1>6. Encode(t, v, u) = Encode(p, h, <<>>)
  BY <1>5 DEF Encode, Recursion, p
<1>7. Has(t, v, u, FALSE, d + 1)
  <2>1. d + 1 \in Nat \ {0} /\ (d + 1) - 1 = d
    OBVIOUS
  <2>2. HasType(t, v, u, FALSE, d + 1)
    BY <1>2, <1>4, <1>5, <2>1 DEF HasType, p
  <2> QED BY <2>2 DEF Recursion
<1>8. Fits(t, v, u, Len(s) - Len(r.rest))
  <2>1. d + 1 \in Nat
    OBVIOUS
  <2> QED BY <1>2, <1>3, <1>6, <1>7, <2>1 DEF Fits
<1>9. Consumed(r, s)
  BY <1>2, <1>3 DEF Consumed, v
<1> QED BY <1>8, <1>9 DEF r, v

\* A field that is read is written in as many bytes.  What is behind an
\* optional pointer comes after a word, so it is in a shorter stream.
FieldMeasuredUpTo(field, len) ==
  /\ Get(field.tag, "union") # <<>> => NoCase(field.tag)
  /\ IF Get(field.tag, "optional") # <<>>
     THEN /\ field.type.kind = "ptr"
          /\ len >= 4 => MeasuredUpTo(field.type, len - 4)
     ELSE MeasuredUpTo(field.type, len)

\* A field, optional or in a case or neither.
LEMMA FieldMeasured ==
  ASSUME Recursion, NEW field, NEW len \in Nat, FieldMeasuredUpTo(field, len),
         NEW u, NEW s \in Seq(Byte), Len(s) <= len,
         DecodeField(field, s, u).ok
  PROVE  LET r == DecodeField(field, s, u)
             known == Known(field, r.value, u)
             w == EncodeField(field, r.value, known)
         IN  /\ Consumed(r, s)
             /\ \E d \in Nat : FieldHasType(field, r.value, known, FALSE, d)
             /\ w.ok /\ w.bytes \in Seq(Byte)
             /\ Len(w.bytes) = Len(s) - Len(r.rest)
<1> SUFFICES
      ASSUME NEW r, r = DecodeField(field, s, u), r.ok,
             NEW known, known = Known(field, r.value, u),
             NEW w, w = EncodeField(field, r.value, known)
      PROVE  /\ Consumed(r, s)
             /\ \E d \in Nat : FieldHasType(field, r.value, known, FALSE, d)
             /\ w.ok /\ w.bytes \in Seq(Byte)
             /\ Len(w.bytes) = Len(s) - Len(r.rest)
  OBVIOUS
<1> DEFINE t == field.type
           v == r.value
<1>1. Len(s) \in Nat
  BY LenProperties
<1>2. Get(field.tag, "union") # <<>> => NoCase(field.tag)
  BY DEF FieldMeasuredUpTo
<1>3. ASSUME Get(field.tag, "optional") = <<>>, Selected(field.tag, u)
      PROVE  /\ Consumed(r, s)
             /\ \E d \in Nat : FieldHasType(field, v, known, FALSE, d)
             /\ w.ok /\ w.bytes \in Seq(Byte)
             /\ Len(w.bytes) = Len(s) - Len(r.rest)
  <2>1. Selected(field.tag, known)
    BY <1>2, <1>3, SameCases
  <2>2. r = Decode(t, s, <<>>)
    BY <1>3 DEF DecodeField, Recursion
  <2>3. w = Encode(t, v, <<>>)
    BY <1>3, <2>1 DEF EncodeField, Recursion
  <2>4. MeasuredUpTo(t, len)
    BY <1>3 DEF FieldMeasuredUpTo
  <2>5. Consumed(r, s) /\ Fits(t, v, <<>>, Len(s) - Len(r.rest))
    BY <2>2, <2>4 DEF MeasuredUpTo, Measured
  <2>6. PICK d \in Nat : Has(t, v, <<>>, FALSE, d)
    BY <2>5 DEF Fits
  <2>7. FieldHasType(field, v, known, FALSE, d)
    BY <1>2, <1>3, <2>1, <2>6 DEF FieldHasType
  <2>8. w.bytes \in Seq(Byte)
    BY <2>3, <2>5, FitsCoded
  <2> QED BY <2>3, <2>5, <2>7, <2>8 DEF Fits
<1>4. ASSUME Get(field.tag, "optional") = <<>>, ~Selected(field.tag, u)
      PROVE  /\ Consumed(r, s)
             /\ \E d \in Nat : FieldHasType(field, v, known, FALSE, d)
             /\ w.ok /\ w.bytes \in Seq(Byte)
             /\ Len(w.bytes) = Len(s) - Len(r.rest)
  <2>1. ~Selected(field.tag, known)
    BY <1>2, <1>4, SameCases
  <2>2. r = Read(Zero(t), s)
    BY <1>4 DEF DecodeField
  <2>3. w = Written(<<>>)
    BY <1>4, <2>1 DEF EncodeField
  <2>4. v = Zero(t) /\ r.rest = s
    BY <2>2, Reading
  <2>5. FieldHasType(field, v, known, FALSE, 0)
    BY <1>2, <1>4, <2>1, <2>4 DEF FieldHasType
  <2>6. Consumed(r, s)
    BY <1>1, <2>2, <2>4 DEF Consumed
  <2>7. w.ok /\ w.bytes = <<>> /\ Len(s) - Len(r.rest) = 0
    BY <1>1, <2>3, <2>4, Writing
  <2>8. w.bytes \in Seq(Byte) /\ Len(w.bytes) = 0
    BY <2>7
  <2> HIDE DEF v, t
  <2>9. 0 \in Nat
    OBVIOUS
  <2> QED BY <2>5, <2>6, <2>7, <2>8, <2>9
<1>5. ASSUME Get(field.tag, "optional") # <<>>
      PROVE  /\ Consumed(r, s)
             /\ \E d \in Nat : FieldHasType(field, v, known, FALSE, d)
             /\ w.ok /\ w.bytes \in Seq(Byte)
             /\ Len(w.bytes) = Len(s) - Len(r.rest)
  <2> DEFINE x == DecodeBool(s)
             y == Decode(t, x.rest, <<>>)
             w1 == Written(EncodeBool(v # <<>>))
             w2 == Encode(t, v, <<>>)
  <2>1. r = IF ~x.ok THEN Unread ELSE IF x.value THEN y ELSE Read(<<>>, x.rest)
    BY <1>5 DEF DecodeField, Recursion
  <2>2. x.ok
    BY <2>1, Reading
  <2>3. x.value \in BOOLEAN /\ Consumed(x, s) /\ Len(x.rest) = Len(s) - 4
    BY <2>2, BoolMeasured
  <2>4. x.rest \in Seq(Byte) /\ Len(x.rest) \in Nat
        /\ Len(s) - Len(x.rest) = 4 /\ len >= 4 /\ Len(x.rest) <= len - 4
    <3>1. x.rest \in Seq(Byte)
      BY <2>3 DEF Consumed
    <3>2. Len(x.rest) \in Nat
      BY <3>1, LenProperties
    <3> QED BY <1>1, <2>3, <3>1, <3>2
  <2>5. w1.ok /\ w1.bytes \in Seq(Byte) /\ Len(w1.bytes) = Len(s) - Len(x.rest)
    <3> DEFINE b == EncodeBool(v # <<>>)
    <3>1. b \in Seq(Byte) /\ Len(b) = 4
      <4>1. (IF v # <<>> THEN 1 ELSE 0) \in Int
        OBVIOUS
      <4> QED BY <4>1, UintBytes DEF EncodeBool
    <3>2. w1.ok /\ w1.bytes = b
      BY Writing
    <3> QED BY <2>4, <3>1, <3>2
  <2>6. CASE x.value
    <3>1. r = y /\ t.kind = "ptr" /\ MeasuredUpTo(t, len - 4)
      BY <1>5, <2>1, <2>2, <2>4, <2>6 DEF FieldMeasuredUpTo
    <3>2. /\ Consumed(y, x.rest)
          /\ Fits(t, v, <<>>, Len(x.rest) - Len(y.rest))
      BY <2>4, <3>1 DEF MeasuredUpTo, Measured
    <3>3. PICK d \in Nat : Has(t, v, <<>>, FALSE, d)
      BY <3>2 DEF Fits
    <3>4. v # <<>>
      <4>1. HasType(t, v, <<>>, FALSE, d)
        BY <3>3 DEF Recursion
      <4>2. v = <<v[1]>>
        BY <3>1, <4>1 DEF HasType
      <4> QED BY <4>2
    <3>5. w = Then(w1, w2)
      BY <1>5, <3>4 DEF EncodeField, Recursion
    <3>6. FieldHasType(field, v, known, FALSE, d)
      BY <1>2, <1>5, <3>3 DEF FieldHasType
    <3>7. /\ w2.ok /\ w2.bytes \in Seq(Byte)
          /\ Len(w2.bytes) = Len(x.rest) - Len(y.rest)
      BY <3>2, FitsCoded DEF Fits
    <3> HIDE DEF x, y, w1, w2
    <3>8. Then(w1, w2).ok
          /\ Len(Then(w1, w2).bytes) = Len(w1.bytes) + Len(w2.bytes)
      BY ONLY <2>5, <3>7, ThenLength
    <3>9. Then(w1, w2).bytes \in Seq(Byte)
      <4>1. Then(w1, w2) = Written(w1.bytes \o w2.bytes)
        BY <2>5, <3>7, Writing
      <4>2. Then(w1, w2).bytes = w1.bytes \o w2.bytes
        BY <4>1, Writing
      <4> DEFINE b1 == w1.bytes
                 b2 == w2.bytes
      <4>3. b1 \in Seq(Byte) /\ b2 \in Seq(Byte)
        BY <2>5, <3>7
      <4> HIDE DEF b1, b2
      <4>4. b1 \o b2 \in Seq(Byte)
        BY <4>3, ConcatProperties
      <4> QED BY <4>2, <4>4 DEF b1, b2
    <3>10. /\ Consumed(Read(v, y.rest), s)
           /\ (Len(s) - Len(x.rest)) + (Len(x.rest) - Len(y.rest))
                = Len(s) - Len(y.rest)
      <4>1. Consumed(x, s) /\ Consumed(y, x.rest)
        BY <2>3, <3>2
      <4> QED BY ONLY s \in Seq(Byte), <4>1, ConsumedThen
    <3>11. Consumed(r, s)
      BY <3>1, <3>2, <3>10 DEF Consumed, v
    <3> QED BY <2>5, <3>1, <3>5, <3>6, <3>7, <3>8, <3>9, <3>10, <3>11
  <2>7. CASE ~x.value
    <3>1. r = Read(<<>>, x.rest)
      BY <2>1, <2>2, <2>7
    <3>2. v = <<>> /\ r.rest = x.rest
      <4> HIDE DEF x
      <4> QED BY <3>1, Reading
    <3>3. FieldHasType(field, v, known, FALSE, 0)
      BY <1>2, <1>5, <3>2 DEF FieldHasType
    <3>4. w = Then(w1, Written(<<>>))
      BY <1>5, <3>2 DEF EncodeField
    <3> HIDE DEF x, w1
    <3>5. Consumed(r, s)
      BY <2>3, <3>1, <3>2 DEF Consumed
    <3> DEFINE w0 == Written(<<>>)
               b1 == w1.bytes
    <3>6. w0.ok /\ w0.bytes = <<>>
      BY Writing
    <3>7. w = Written(b1 \o <<>>)
      <4> HIDE DEF w0
      <4>1. Then(w1, w0) = Written(w1.bytes \o w0.bytes)
        BY <2>5, <3>6, Writing
      <4> QED BY <3>4, <3>6, <4>1 DEF w0, b1
    <3>8. b1 \in Seq(Byte)
      BY <2>5
    <3> HIDE DEF b1, w0
    <3>9. b1 \o <<>> = b1
      BY <3>8, ConcatEmptySeq
    <3>10. w.ok /\ w.bytes = b1
      BY <3>7, <3>9, Writing
    <3> QED BY <2>5, <3>2, <3>3, <3>5, <3>8, <3>10 DEF b1
  <2> QED BY <2>3, <2>6, <2>7
<1> QED BY <1>3, <1>4, <1>5

\* A struct, one field after the other.
LEMMA StructMeasured ==
  ASSUME Recursion, NEW t, NEW len \in Nat, t.kind = "struct",
         t.of # <<>> => /\ FieldMeasuredUpTo(Head(t.of), len)
                        /\ MeasuredUpTo(Tagged(Tail(t.of)), len)
  PROVE  MeasuredUpTo(t, len)
<1> SUFFICES ASSUME NEW u, NEW s \in Seq(Byte), Len(s) <= len, Decode(t, s, u).ok
             PROVE  LET r == Decode(t, s, u)
                    IN  /\ Consumed(r, s)
                        /\ Fits(t, r.value, u, Len(s) - Len(r.rest))
  BY DEF MeasuredUpTo, Measured
<1> DEFINE r == Decode(t, s, u)
           v == r.value
<1>1. r = DecodeFields(t.of, s, u) /\ Encode(t, v, u) = EncodeFields(t.of, v, u)
  BY DEF Decode, Encode
<1>2. Len(s) \in Nat
  BY LenProperties
<1>3. CASE t.of = <<>>
  <2>1. r = Read(<<>>, s)
    BY <1>1, <1>3 DEF DecodeFields
  <2>2. v = <<>> /\ r.rest = s
    BY <2>1, Reading
  <2>3. Encode(t, v, u) = Written(<<>>)
    BY <1>1, <1>3 DEF EncodeFields
  <2> HIDE DEF r, v
  <2>4. Has(t, v, u, FALSE, 1)
    <3>1. IsTuple(<<>>) /\ 1 \in Nat \ {0}
      BY DEF IsTuple
    <3>2. HasType(t, v, u, FALSE, 1)
      BY <1>3, <2>2, <3>1 DEF HasType
    <3> QED BY <3>2 DEF Recursion
  <2>5. Consumed(r, s)
    <3>1. r = Read(r.value, r.rest)
      BY <2>1, <2>2 DEF v
    <3> QED BY <1>2, <2>2, <3>1 DEF Consumed
  <2>6. Encode(t, v, u).ok /\ Len(Encode(t, v, u).bytes) = 0
    BY <2>3, Writing
  <2>7. Fits(t, v, u, Len(s) - Len(r.rest))
    <3>1. 1 \in Nat /\ Len(s) - Len(r.rest) = 0
      BY <1>2, <2>2
    <3> QED BY <2>4, <2>6, <3>1 DEF Fits
  <2> QED BY <2>5, <2>7 DEF r, v
<1>4. CASE t.of # <<>>
  <2> DEFINE field == Head(t.of)
             others == Tagged(Tail(t.of))
             x == DecodeField(field, s, u)
             h == x.value
             known == Known(field, h, u)
             y == Decode(others, x.rest, known)
             l == y.value
             w1 == EncodeField(field, h, known)
             w2 == Encode(others, l, known)
  <2>1. FieldMeasuredUpTo(field, len) /\ MeasuredUpTo(others, len)
    BY <1>4
  <2>2. known = IF Selected(field.tag, u) THEN Known(field, h, u) ELSE u
    <3>1. Get(field.tag, "union") # <<>> => NoCase(field.tag)
      BY <2>1 DEF FieldMeasuredUpTo
    <3> HIDE DEF field, h
    <3> QED BY <3>1, SameCases
  <2>3. r = IF x.ok /\ y.ok THEN Read(<<h>> \o l, y.rest) ELSE Unread
    BY <1>1, <1>4, <2>2 DEF DecodeFields, Recursion
  <2>4. x.ok /\ y.ok
    BY <2>3, Reading
  <2>5. v = <<h>> \o l /\ r = Read(v, y.rest) /\ r.rest = y.rest
    <3>1. r = Read(<<h>> \o l, y.rest)
      BY <2>3, <2>4
    <3> HIDE DEF r, h, l, x, y
    <3> QED BY <3>1, Reading DEF v
  <2>6. /\ Consumed(x, s)
        /\ \E d \in Nat : FieldHasType(field, h, known, FALSE, d)
        /\ w1.ok /\ w1.bytes \in Seq(Byte)
        /\ Len(w1.bytes) = Len(s) - Len(x.rest)
    BY <2>1, <2>4, FieldMeasured
  <2>7. x.rest \in Seq(Byte) /\ Len(x.rest) <= len
    <3>1. x.rest \in Seq(Byte) /\ Len(x.rest) <= Len(s)
      BY <2>6 DEF Consumed
    <3>2. Len(x.rest) \in Nat
      BY <3>1, LenProperties
    <3> QED BY <1>2, <3>1, <3>2
  <2>8. Consumed(y, x.rest) /\ Fits(others, l, known, Len(x.rest) - Len(y.rest))
    BY <2>1, <2>4, <2>7 DEF MeasuredUpTo, Measured
  <2>9. /\ w2.ok /\ w2.bytes \in Seq(Byte)
        /\ Len(w2.bytes) = Len(x.rest) - Len(y.rest)
    BY <2>8, FitsCoded DEF Fits
  <2>10. PICK d1 \in Nat : FieldHasType(field, h, known, FALSE, d1)
    BY <2>6
  <2>11. PICK d2 \in Nat : Has(others, l, known, FALSE, d2)
    BY <2>8 DEF Fits
  <2>12. PICK d \in Nat : d1 <= d /\ d2 <= d
    <3>1. d1 + d2 \in Nat /\ d1 <= d1 + d2 /\ d2 <= d1 + d2
      OBVIOUS
    <3> QED BY <3>1
  <2>13. Has(others, l, known, FALSE, d)
    <3> HIDE DEF others, l, known
    <3> QED BY ONLY Recursion, d2 \in Nat, d \in Nat, <2>11, <2>12, HasMore
  <2>14. FieldHasType(field, h, known, FALSE, d)
    <3> HIDE DEF field, h, known
    <3>1. Has(field.type, h, <<>>, FALSE, d1)
            => Has(field.type, h, <<>>, FALSE, d)
      BY ONLY Recursion, d1 \in Nat, d \in Nat, <2>12, HasMore
    <3> QED BY <2>10, <3>1 DEF FieldHasType
  <2>15. IsTuple(l)
    <3>1. HasType(others, l, known, FALSE, d)
      BY <2>13 DEF Recursion
    <3>2. others.kind = "struct"
      BY DEF Tagged, Kind
    <3> QED BY <3>1, <3>2 DEF HasType
  <2>16. IsTuple(v) /\ v # <<>> /\ Head(v) = h /\ Tail(v) = l
    <3> HIDE DEF h, l, v
    <3> QED BY <2>5, <2>15, TupleCons
  <2> HIDE DEF h, l, v, r, x, y
  <2>17. Has(t, v, u, FALSE, d + 1)
    <3>1. d + 1 \in Nat \ {0} /\ (d + 1) - 1 = d
      OBVIOUS
    <3>2. HasType(t, v, u, FALSE, d + 1)
      BY <1>4, <2>13, <2>14, <2>16, <3>1 DEF HasType
    <3> QED BY <3>2 DEF Recursion
  <2>18. Encode(t, v, u) = Then(w1, w2)
    BY <1>1, <1>4, <2>16 DEF EncodeFields, Recursion
  <2> HIDE DEF w1, w2
  <2>19. Then(w1, w2).ok
         /\ Len(Then(w1, w2).bytes) = Len(w1.bytes) + Len(w2.bytes)
    BY ONLY <2>6, <2>9, ThenLength
  <2>20. /\ Consumed(Read(v, y.rest), s)
         /\ (Len(s) - Len(x.rest)) + (Len(x.rest) - Len(y.rest))
              = Len(s) - Len(y.rest)
    <3>1. Consumed(x, s) /\ Consumed(y, x.rest)
      BY <2>6, <2>8
    <3> QED BY ONLY s \in Seq(Byte), <3>1, ConsumedThen
  <2>21. Consumed(r, s)
    BY <2>5, <2>20
  <2>22. Fits(t, v, u, Len(s) - Len(r.rest))
    <3>1. d + 1 \in Nat
      OBVIOUS
    <3> QED BY <2>5, <2>6, <2>9, <2>17, <2>18, <2>19, <2>20, <3>1 DEF Fits
  <2> QED BY <2>21, <2>22 DEF r, v
<1> QED BY <1>3, <1>4

\* Every type with a shape: by the length of the stream, which an optional
\* pointer makes shorter, and then by the depth of the type.
LEMMA ShapesMeasured ==
  ASSUME Recursion, NEW t0, NEW n0 \in Nat, Shape(t0, n0), NEW len0 \in Nat
  PROVE  MeasuredUpTo(t0, len0)
<1> DEFINE Good(len, n) == \A t : Shape(t, n) => MeasuredUpTo(t, len)
           L == {len \in Nat : \E n \in Nat : ~Good(len, n)}
<1> SUFFICES ASSUME L # {} PROVE FALSE
  OBVIOUS
<1>1. PICK len \in L : \A k \in L : len <= k
  <2>1. L \subseteq Nat
    OBVIOUS
  <2> HIDE DEF L
  <2> QED BY <2>1, Least
<1>2. len \in Nat /\ \E n \in Nat : ~Good(len, n)
  BY <1>1
<1>3. ASSUME NEW k \in Nat, k < len, NEW n \in Nat PROVE Good(k, n)
  <2>1. k \notin L
    BY <1>1, <1>2, <1>3
  <2> QED BY <2>1
<1> HIDE DEF L
<1> DEFINE N == {n \in Nat : ~Good(len, n)}
<1>4. PICK n \in N : \A k \in N : n <= k
  <2>1. N \subseteq Nat /\ N # {}
    BY <1>2
  <2> HIDE DEF N
  <2> QED BY <2>1, Least
<1>5. n \in Nat /\ ~Good(len, n)
  BY <1>4
<1>6. PICK t : Shape(t, n) /\ ~MeasuredUpTo(t, len)
  BY <1>5
<1>7. HasShape(t, n)
  BY <1>6 DEF Recursion
<1>8. n - 1 \in Nat /\ Good(len, n - 1)
  <2>1. n - 1 \in Nat /\ ~(n <= n - 1)
    BY <1>7 DEF HasShape
  <2> QED BY <1>4, <2>1
<1> HIDE DEF N
<1>9. ASSUME NEW name \in Nodes, len >= 4
      PROVE  MeasuredUpTo(Named(name), len - 4)
  <2>1. Shape(Named(name), MaxDepth)
    BY StreamsAssumption
  <2>2. MaxDepth \in Nat
    BY <2>1 DEF Recursion, HasShape
  <2>3. len - 4 \in Nat /\ len - 4 < len
    BY <1>2, <1>9
  <2>4. Good(len - 4, MaxDepth)
    BY <1>3, <2>2, <2>3
  <2> QED BY <2>1, <2>4
<1>10. CASE t.kind \in {"int", "uint", "uhyper", "bool", "opaque", "fixed"}
  <2>1. t.kind = "fixed" => t.size \in Nat
    BY <1>7 DEF HasShape
  <2>2. ASSUME NEW u, NEW s \in Seq(Byte) PROVE Measured(t, u, s)
    BY <1>10, <2>1, ScalarMeasured
  <2> QED BY <1>6, <2>2 DEF MeasuredUpTo
<1>11. CASE t.kind = "slice"
  <2>1. MeasuredUpTo(t.of, len)
    BY <1>7, <1>8, <1>11 DEF HasShape
  <2> QED BY <1>2, <1>6, <1>11, <2>1, SliceMeasured
<1>12. CASE t.kind = "struct"
  <2>1. ASSUME t.of # <<>>
        PROVE  /\ FieldMeasuredUpTo(Head(t.of), len)
               /\ MeasuredUpTo(Tagged(Tail(t.of)), len)
    <3> DEFINE field == Head(t.of)
               ft == field.type
    <3>1. /\ Get(field.tag, "union") # <<>> => NoCase(field.tag)
          /\ IF Get(field.tag, "optional") # <<>>
             THEN ft.kind = "ptr" /\ ft.of \in Nodes
             ELSE Shape(ft, n - 1)
          /\ Shape(Tagged(Tail(t.of)), n - 1)
      BY <1>7, <1>12, <2>1 DEF HasShape
    <3> HIDE DEF field
    <3>2. ASSUME Get(field.tag, "optional") # <<>>, len >= 4
          PROVE  MeasuredUpTo(ft, len - 4)
      <4>1. ft.kind = "ptr" /\ ft.of \in Nodes
        BY <3>1, <3>2
      <4>2. MeasuredUpTo(Named(ft.of), len - 4)
        BY <1>9, <3>2, <4>1
      <4>3. len - 4 \in Nat
        BY <1>2, <3>2
      <4> QED BY <4>1, <4>2, <4>3, PtrMeasured
    <3>3. FieldMeasuredUpTo(field, len)
      BY <1>8, <3>1, <3>2 DEF FieldMeasuredUpTo
    <3> QED BY <1>8, <3>1, <3>3 DEF field
  <2> QED BY <1>2, <1>6, <1>12, <2>1, StructMeasured
<1> QED BY <1>7, <1>10, <1>11, <1>12 DEF HasShape

\* decode and encode agree on what a peer sent.
THEOREM RemeasuredHolds ==
  ASSUME Recursion
  PROVE  Spec => []Remeasured
<1>1. Spec => [](TypeOK /\ OnItsWay)
  BY OnItsWayHolds
<1>2. TypeOK /\ OnItsWay => Remeasured
  <2> SUFFICES ASSUME TypeOK, OnItsWay, phase = "read", fate = "peer", result.ok
               PROVE  LET again == Encode(Type(message), result.value, <<>>)
                      IN  /\ again.ok
                          /\ Len(again.bytes) = Len(stream) - Len(result.rest)
                          /\ Decode(Type(message), again.bytes, <<>>)
                               = Read(result.value, <<>>)
    BY DEF Remeasured
  <2> DEFINE t == Type(message)
             v == result.value
             b == Encode(t, v, <<>>).bytes
  <2>1. /\ stream \in Streams(message) /\ message \in Types
        /\ result = Decode(t, stream, <<>>)
    BY DEF OnItsWay, TypeOK
  <2>2. stream \in Seq(Byte) /\ Shape(t, MaxDepth)
    BY <2>1, StreamsAssumption
  <2>3. MaxDepth \in Nat
    BY <2>2 DEF Recursion, HasShape
  <2>4. Len(stream) \in Nat /\ Len(stream) <= Len(stream)
    BY <2>2, LenProperties
  <2>5. MeasuredUpTo(t, Len(stream))
    BY <2>2, <2>3, <2>4, ShapesMeasured
  <2>6. /\ Consumed(result, stream)
        /\ Fits(t, v, <<>>, Len(stream) - Len(result.rest))
    BY <2>1, <2>2, <2>4, <2>5 DEF MeasuredUpTo, Measured
  <2>7. Encode(t, v, <<>>).ok /\ Len(b) = Len(stream) - Len(result.rest)
    BY <2>6 DEF Fits
  <2>8. Coded(Reader(t, <<>>), b, v) /\ b \in Seq(Byte)
    BY <2>6, FitsCoded
  <2>9. Decode(t, b, <<>>) = Read(v, <<>>)
    <3>1. Reader(t, <<>>)[b] = Decode(t, b, <<>>)
      BY <2>8 DEF Reader
    <3> HIDE DEF b
    <3>2. <<>> \in Seq(Byte) /\ b \o <<>> = b
      BY <2>8, ConcatEmptySeq
    <3> QED BY <2>8, <3>1, <3>2 DEF Coded
  <2> QED BY <2>7, <2>9
<1> QED BY <1>1, <1>2, PTL

-----------------------------------------------------------------------------
(* ReadDir measures what the encoder writes. *)

Length(t, v, u) == Len(Encode(t, v, u).bytes)

\* All values of a type are written in n words.
Sized(t, n) ==
  /\ n \in Nat
  /\ \A v, u, d : Has(t, v, u, FALSE, d) => Length(t, v, u) = 4 * n

\* A tag with one option, or none.
LEMMA OneOption ==
  ASSUME NEW opt, NEW n
  PROVE  /\ Get(<< <<opt, n>> >>, opt) = <<n>>
         /\ \A other : other # opt => Get(<< <<opt, n>> >>, other) = <<>>
<1> DEFINE tag == << <<opt, n>> >>
           found(o) == {i \in DOMAIN tag : tag[i][1] = o}
<1>1. found(opt) = {1} /\ \A other : other # opt => found(other) = {}
  OBVIOUS
<1>2. tag[1] = <<opt, n>> /\ tag[1][2] = n
  OBVIOUS
<1>3. \A o : Get(tag, o) =
        IF found(o) = {} THEN <<>>
        ELSE <<tag[CHOOSE i \in found(o) : \A j \in found(o) : i <= j][2]>>
  BY DEF Get
<1> HIDE DEF tag, found
<1>4. (CHOOSE i \in found(opt) : \A j \in found(opt) : i <= j) = 1
  BY <1>1
<1> QED BY <1>1, <1>2, <1>3, <1>4 DEF tag

\* A tag without options.
LEMMA NoOption ==
  ASSUME NEW opt
  PROVE  Get(<<>>, opt) = <<>>
BY DEF Get

\* What has its type is written.
LEMMA HasWritten ==
  ASSUME Recursion, NEW t, NEW v, NEW u, NEW d, Has(t, v, u, FALSE, d)
  PROVE  /\ d \in Nat \ {0} /\ d - 1 \in Nat
         /\ Encode(t, v, u).ok /\ Encode(t, v, u).bytes \in Seq(Byte)
         /\ Length(t, v, u) \in Nat
<1>1. d \in Nat \ {0}
  BY DEF Recursion, HasType
<1>2. d \in Nat /\ d - 1 \in Nat
  BY <1>1
<1>3. RoundTrips(Encode(t, v, u), Reader(t, u), v, FALSE)
  BY <1>2, ValuesRoundTrip DEF AllRoundTrip
<1>4. Encode(t, v, u).ok /\ Coded(Reader(t, u), Encode(t, v, u).bytes, v)
  BY <1>3 DEF RoundTrips
<1>5. Encode(t, v, u).bytes \in Seq(Byte)
  BY <1>4 DEF Coded
<1>6. Length(t, v, u) \in Nat
  BY <1>5, LenProperties DEF Length
<1> QED BY <1>1, <1>2, <1>4, <1>5, <1>6

\* The head of a tuple is its first element, and the tail is the others.
LEMMA TupleIndex ==
  ASSUME NEW v, IsTuple(v), v # <<>>
  PROVE  /\ Head(v) = v[1] /\ Len(v) \in Nat /\ Len(v) >= 1
         /\ Len(Tail(v)) = Len(v) - 1
         /\ \A i \in 1 .. Len(v) - 1 : Tail(v)[i] = v[i + 1]
<1> DEFINE S == {v[i] : i \in 1 .. Len(v)}
<1>1. v \in Seq(S)
  BY TupleSeq
<1> HIDE DEF S
<1>2. Len(v) \in Nat /\ Len(v) >= 1
  BY <1>1, EmptySeq, LenProperties
<1>3. /\ Head(v) = v[1] /\ Len(Tail(v)) = Len(v) - 1
      /\ \A i \in 1 .. Len(Tail(v)) : Tail(v)[i] = v[i + 1]
  BY <1>1, HeadTailProperties
<1> QED BY <1>2, <1>3

\* The fields of a struct and their lengths, the first and the others.
LEMMA StructLength ==
  ASSUME Recursion, NEW t, NEW v, NEW u, NEW d, Has(t, v, u, FALSE, d),
         t.kind = "struct", t.of # <<>>
  PROVE  LET field == Head(t.of)
             known == Known(field, Head(v), u)
             others == Tagged(Tail(t.of))
             w == EncodeField(field, Head(v), known)
         IN  /\ IsTuple(v) /\ v # <<>> /\ d - 1 \in Nat
             /\ FieldHasType(field, Head(v), known, FALSE, d - 1)
             /\ Has(others, Tail(v), known, FALSE, d - 1)
             /\ Len(w.bytes) \in Nat
             /\ Length(t, v, u) = Len(w.bytes) + Length(others, Tail(v), known)
<1> DEFINE field == Head(t.of)
           known == Known(field, Head(v), u)
           others == Tagged(Tail(t.of))
           w1 == EncodeField(field, Head(v), known)
           w2 == Encode(others, Tail(v), known)
<1>1. d \in Nat \ {0} /\ d - 1 \in Nat
  BY HasWritten
<1>2. /\ IsTuple(v) /\ v # <<>>
      /\ FieldHasType(field, Head(v), known, FALSE, d - 1)
      /\ Has(others, Tail(v), known, FALSE, d - 1)
  <2>1. HasType(t, v, u, FALSE, d)
    BY DEF Recursion
  <2> QED BY <2>1 DEF HasType
<1>3. Encode(t, v, u) = Then(w1, w2)
  BY DEF Encode, EncodeFields, Recursion
<1>4. w2.ok /\ w2.bytes \in Seq(Byte) /\ Len(w2.bytes) \in Nat
  BY <1>2, HasWritten DEF Length
<1>5. w1.ok /\ w1.bytes \in Seq(Byte)
  <2>1. AllRoundTrip(FALSE, d - 1)
    BY <1>1, ValuesRoundTrip
  <2>2. RoundTrips(w1, FieldReader(field, u), Head(v), FALSE)
    <3> HIDE DEF field
    <3> QED BY <1>2, <2>1, FieldRoundTrips
  <2>3. w1.ok /\ Coded(FieldReader(field, u), w1.bytes, Head(v))
    BY <2>2 DEF RoundTrips
  <2> QED BY <2>3 DEF Coded
<1>6. Len(w1.bytes) \in Nat
  BY <1>5, LenProperties
<1> HIDE DEF w1, w2
<1>7. Len(Then(w1, w2).bytes) = Len(w1.bytes) + Len(w2.bytes)
  BY ONLY <1>4, <1>5, ThenLength
<1> QED BY <1>1, <1>2, <1>3, <1>6, <1>7 DEF w1, w2, Length

\* A value of a struct is that of its first field and those of the others.
Parted(fields, v, u, d) ==
  LET field == Head(fields)
      known == Known(field, Head(v), u)
      others == Tagged(Tail(fields))
      w == EncodeField(field, Head(v), known)
  IN  /\ IsTuple(v) /\ v # <<>> /\ d - 1 \in Nat
      /\ FieldHasType(field, Head(v), known, FALSE, d - 1)
      /\ Has(others, Tail(v), known, FALSE, d - 1)
      /\ Len(w.bytes) \in Nat
      /\ Length(Tagged(fields), v, u)
           = Len(w.bytes) + Length(others, Tail(v), known)

\* Each value of a struct that has fields.
LEMMA FieldsLength ==
  ASSUME Recursion, NEW fields, NEW v, NEW u, NEW d,
         Has(Tagged(fields), v, u, FALSE, d), fields # <<>>
  PROVE  Parted(fields, v, u, d)
<1> DEFINE s == Tagged(fields)
<1>1. s.kind = "struct" /\ s.of = fields
  BY DEF Tagged, Kind
<1> HIDE DEF s
<1>2. Has(s, v, u, FALSE, d)
  BY DEF s
<1> QED BY <1>1, <1>2, StructLength DEF s, Parted

\* A field without a tag.
LEMMA PlainLength ==
  ASSUME Recursion, NEW t, NEW x, NEW u, NEW d,
         FieldHasType(Plain(t), x, u, FALSE, d)
  PROVE  /\ Has(t, x, <<>>, FALSE, d)
         /\ Len(EncodeField(Plain(t), x, u).bytes) = Length(t, x, <<>>)
<1> DEFINE field == Plain(t)
<1>1. field.tag = <<>> /\ field.type = t
  BY DEF Plain, Field
<1>2. \A opt : Get(field.tag, opt) = <<>>
  BY <1>1, NoOption
<1>3. Selected(field.tag, u)
  BY <1>2 DEF Selected
<1> HIDE DEF field
<1>4. Has(t, x, <<>>, FALSE, d)
  BY <1>1, <1>2, <1>3 DEF FieldHasType, field
<1>5. EncodeField(field, x, u) = Encode(t, x, <<>>)
  BY <1>1, <1>2, <1>3 DEF EncodeField, Recursion
<1> QED BY <1>4, <1>5 DEF field, Length

\* A field that is the discriminant sets it, the others leave it as it is.
LEMMA KnownAfter ==
  ASSUME NEW t, NEW x, NEW u
  PROVE  /\ Known(Plain(t), x, u) = u
         /\ Known(Union(t), x, u) = Discriminant(t, x)
         /\ \A c : Known(UnionCase(c, t), x, u) = u
         /\ \A name : Known(Optional(name), x, u) = u
<1>1. Known(Plain(t), x, u) = u
  <2>1. Plain(t).tag = <<>>
    BY DEF Plain, Field
  <2> QED BY <2>1, NoOption DEF Known
<1>2. Known(Union(t), x, u) = Discriminant(t, x)
  <2>1. Union(t).tag = << <<"union", 1>> >> /\ Union(t).type = t
    BY DEF Union, Field
  <2>2. Get(Union(t).tag, "union") = <<1>> /\ <<1>> # <<>>
    BY <2>1, OneOption
  <2> QED BY <2>1, <2>2 DEF Known
<1>3. ASSUME NEW c PROVE Known(UnionCase(c, t), x, u) = u
  <2>1. UnionCase(c, t).tag = << <<"unioncase", c>> >>
    BY DEF UnionCase, Field
  <2>2. Get(UnionCase(c, t).tag, "union") = <<>>
    BY <2>1, OneOption
  <2> QED BY <2>2 DEF Known
<1>4. ASSUME NEW name PROVE Known(Optional(name), x, u) = u
  <2>1. Optional(name).tag = << <<"optional", 1>> >>
    BY DEF Optional, Field
  <2>2. Get(Optional(name).tag, "union") = <<>>
    BY <2>1, OneOption
  <2> QED BY <2>2 DEF Known
<1> QED BY <1>1, <1>2, <1>3, <1>4

\* No fields, no bytes.
LEMMA NothingSized ==
  ASSUME Recursion
  PROVE  Sized(Tagged(<<>>), 0)
<1> SUFFICES ASSUME NEW v, NEW u PROVE Length(Tagged(<<>>), v, u) = 4 * 0
  BY DEF Sized
<1>1. Tagged(<<>>).kind = "struct" /\ Tagged(<<>>).of = <<>>
  BY DEF Tagged, Kind
<1>2. Encode(Tagged(<<>>), v, u) = Written(<<>>)
  BY <1>1 DEF Encode, EncodeFields
<1>3. Len(<<>>) = 0
  OBVIOUS
<1> QED BY <1>2, <1>3, Writing DEF Length

\* A field without a tag and the others.
LEMMA StructSized ==
  ASSUME Recursion, NEW fields, fields # <<>>,
         NEW t, Head(fields) = Plain(t),
         NEW m, Sized(t, m), NEW n, Sized(Tagged(Tail(fields)), n),
         NEW sum, sum = m + n
  PROVE  Sized(Tagged(fields), sum)
<1> DEFINE s == Tagged(fields)
           others == Tagged(Tail(fields))
<1>1. s.kind = "struct" /\ s.of = fields
  BY DEF Tagged, Kind
<1> HIDE DEF s
<1>2. ASSUME NEW v, NEW u, NEW d, Has(s, v, u, FALSE, d)
      PROVE  Length(s, v, u) = 4 * sum
  <2> DEFINE h == Head(v)
             l == Tail(v)
  <2>1. Known(Plain(t), h, u) = u
    BY KnownAfter
  <2>2. /\ FieldHasType(Plain(t), h, u, FALSE, d - 1)
        /\ Has(others, l, u, FALSE, d - 1)
        /\ Length(s, v, u) = Len(EncodeField(Plain(t), h, u).bytes)
                               + Length(others, l, u)
    BY <1>1, <1>2, <2>1, StructLength
  <2>3. Has(t, h, <<>>, FALSE, d - 1)
        /\ Len(EncodeField(Plain(t), h, u).bytes) = Length(t, h, <<>>)
    BY <2>2, PlainLength
  <2>4. Length(t, h, <<>>) = 4 * m /\ Length(others, l, u) = 4 * n
    BY <2>2, <2>3 DEF Sized
  <2>5. Length(s, v, u) = 4 * m + 4 * n
    BY <2>2, <2>3, <2>4
  <2>6. m \in Nat /\ n \in Nat
    BY DEF Sized
  <2> QED BY <2>5, <2>6
<1>3. sum \in Nat
  BY DEF Sized
<1> QED BY <1>2, <1>3 DEF Sized, s

\* The scalars.
LEMMA ScalarSized ==
  ASSUME Recursion
  PROVE  /\ \A t : t.kind \in {"int", "uint", "bool"} => Sized(t, 1)
         /\ \A t : t.kind = "uhyper" => Sized(t, 2)
<1> SUFFICES ASSUME NEW t, NEW v, NEW u, NEW d, Has(t, v, u, FALSE, d)
             PROVE  /\ t.kind \in {"int", "uint", "bool"} => Length(t, v, u) = 4
                    /\ t.kind = "uhyper" => Length(t, v, u) = 8
  <2>1. 1 \in Nat /\ 2 \in Nat /\ 4 * 1 = 4 /\ 4 * 2 = 8
    OBVIOUS
  <2> QED BY <2>1 DEF Sized
<1>1. HasType(t, v, u, FALSE, d)
  BY DEF Recursion
<1>2. CASE t.kind \in {"int", "uint"}
  <2>1. v \in Int
    <3>1. v \in -MaxInt32 - 1 .. MaxInt32 \/ v \in 0 .. MaxUint
      BY <1>1, <1>2 DEF HasType
    <3>2. -MaxInt32 - 1 \in Int /\ MaxInt32 \in Int /\ MaxUint \in Int
      BY Bases
    <3> QED BY ONLY <3>1, <3>2
  <2>2. Encode(t, v, u) = Written(EncodeUint(v))
    BY <1>2 DEF Encode
  <2>3. Len(EncodeUint(v)) = 4
    BY <2>1, UintBytes
  <2> QED BY <1>2, <2>2, <2>3, Writing DEF Length
<1>3. CASE t.kind = "bool"
  <2>1. Encode(t, v, u) = Written(EncodeBool(v))
    BY <1>3 DEF Encode
  <2>2. Len(EncodeBool(v)) = 4
    <3>1. (IF v THEN 1 ELSE 0) \in Int
      OBVIOUS
    <3> QED BY <3>1, UintBytes DEF EncodeBool
  <2> QED BY <1>3, <2>1, <2>2, Writing DEF Length
<1>4. CASE t.kind = "uhyper"
  <2>1. v \in 0 .. Wide * Wide - 1
    BY <1>1, <1>4 DEF HasType
  <2>2. Encode(t, v, u) = Written(EncodeUhyper(v))
    BY <1>4 DEF Encode
  <2>3. Len(EncodeUhyper(v)) = 8
    BY <2>1, UhyperNumber
  <2> QED BY <1>4, <2>2, <2>3, Writing DEF Length
<1> QED BY <1>2, <1>3, <1>4

\* Two words.
LEMMA PairSized ==
  ASSUME Recursion
  PROVE  Sized(Struct(<<Uint, Uint>>), 2)
<1> DEFINE w == Plain(Uint)
           s0 == <<>>
           s1 == <<w>>
           s2 == <<w, w>>
<1>1. Struct(<<Uint, Uint>>) = Tagged(s2)
  BY DEF Struct
<1>2. /\ s1 # <<>> /\ Head(s1) = w /\ Tail(s1) = s0
      /\ s2 # <<>> /\ Head(s2) = w /\ Tail(s2) = s1
  OBVIOUS
<1>3. Sized(Uint, 1)
  <2>1. Uint.kind = "uint"
    BY DEF Uint, Kind
  <2> QED BY <2>1, ScalarSized
<1>4. Sized(Tagged(s0), 0) /\ 1 = 1 + 0 /\ 2 = 1 + 1
  BY NothingSized
<1> HIDE DEF s0, s1, s2
<1>5. Sized(Tagged(s1), 1)
  BY ONLY Recursion, <1>2, <1>3, <1>4, StructSized
<1>6. Sized(Tagged(s2), 2)
  BY ONLY Recursion, <1>2, <1>3, <1>4, <1>5, StructSized
<1> QED BY <1>1, <1>6

\* "88 bytes attributes", of which 4 say whether the other 84 follow.
LEMMA FattrSized ==
  ASSUME Recursion
  PROVE  Sized(Fattr3, 21)
<1> DEFINE e == Plain(Enum({1}))
           w == Plain(Uint)
           h == Plain(Uhyper)
           p == Plain(Struct(<<Uint, Uint>>))
           s0 == <<>>
           s1 == <<p>>
           s2 == <<p, p>>
           s3 == <<p, p, p>>
           s4 == <<h, p, p, p>>
           s5 == <<h, h, p, p, p>>
           s6 == <<p, h, h, p, p, p>>
           s7 == <<h, p, h, h, p, p, p>>
           s8 == <<h, h, p, h, h, p, p, p>>
           s9 == <<w, h, h, p, h, h, p, p, p>>
           s10 == <<w, w, h, h, p, h, h, p, p, p>>
           s11 == <<w, w, w, h, h, p, h, h, p, p, p>>
           s12 == <<w, w, w, w, h, h, p, h, h, p, p, p>>
           s13 == <<e, w, w, w, w, h, h, p, h, h, p, p, p>>
<1>1. Fattr3 = Tagged(s13)
  BY DEF Fattr3, Struct, Specdata3, Nfstime3
<1>2. Sized(Enum({1}), 1) /\ Sized(Uint, 1) /\ Sized(Uhyper, 2)
  <2>1. Enum({1}).kind = "int" /\ Uint.kind = "uint" /\ Uhyper.kind = "uhyper"
    BY DEF Enum, Uint, Uhyper, Kind
  <2> QED BY <2>1, ScalarSized
<1>3. Sized(Struct(<<Uint, Uint>>), 2)
  BY PairSized
<1>4. Sized(Tagged(s0), 0)
  BY NothingSized
<1> HIDE DEF e, w, h, p,
             s0, s1, s2, s3, s4, s5, s6, s7, s8, s9, s10, s11, s12, s13
<1>5. Sized(Tagged(s1), 2)
  <2>1. s1 # <<>> /\ Head(s1) = p /\ Tail(s1) = s0
    BY DEF s1, s0
  <2>2. 2 = 2 + 0
    OBVIOUS
  <2> QED BY ONLY Recursion, <1>3, <1>4, <2>1, <2>2, StructSized DEF p
<1>6. Sized(Tagged(s2), 4)
  <2>1. s2 # <<>> /\ Head(s2) = p /\ Tail(s2) = s1
    BY DEF s2, s1
  <2>2. 4 = 2 + 2
    OBVIOUS
  <2> QED BY ONLY Recursion, <1>3, <1>5, <2>1, <2>2, StructSized DEF p
<1>7. Sized(Tagged(s3), 6)
  <2>1. s3 # <<>> /\ Head(s3) = p /\ Tail(s3) = s2
    BY DEF s3, s2
  <2>2. 6 = 2 + 4
    OBVIOUS
  <2> QED BY ONLY Recursion, <1>3, <1>6, <2>1, <2>2, StructSized DEF p
<1>8. Sized(Tagged(s4), 8)
  <2>1. s4 # <<>> /\ Head(s4) = h /\ Tail(s4) = s3
    BY DEF s4, s3
  <2>2. 8 = 2 + 6
    OBVIOUS
  <2> QED BY ONLY Recursion, <1>2, <1>7, <2>1, <2>2, StructSized DEF h
<1>9. Sized(Tagged(s5), 10)
  <2>1. s5 # <<>> /\ Head(s5) = h /\ Tail(s5) = s4
    BY DEF s5, s4
  <2>2. 10 = 2 + 8
    OBVIOUS
  <2> QED BY ONLY Recursion, <1>2, <1>8, <2>1, <2>2, StructSized DEF h
<1>10. Sized(Tagged(s6), 12)
  <2>1. s6 # <<>> /\ Head(s6) = p /\ Tail(s6) = s5
    BY DEF s6, s5
  <2>2. 12 = 2 + 10
    OBVIOUS
  <2> QED BY ONLY Recursion, <1>3, <1>9, <2>1, <2>2, StructSized DEF p
<1>11. Sized(Tagged(s7), 14)
  <2>1. s7 # <<>> /\ Head(s7) = h /\ Tail(s7) = s6
    BY DEF s7, s6
  <2>2. 14 = 2 + 12
    OBVIOUS
  <2> QED BY ONLY Recursion, <1>2, <1>10, <2>1, <2>2, StructSized DEF h
<1>12. Sized(Tagged(s8), 16)
  <2>1. s8 # <<>> /\ Head(s8) = h /\ Tail(s8) = s7
    BY DEF s8, s7
  <2>2. 16 = 2 + 14
    OBVIOUS
  <2> QED BY ONLY Recursion, <1>2, <1>11, <2>1, <2>2, StructSized DEF h
<1>13. Sized(Tagged(s9), 17)
  <2>1. s9 # <<>> /\ Head(s9) = w /\ Tail(s9) = s8
    BY DEF s9, s8
  <2>2. 17 = 1 + 16
    OBVIOUS
  <2> QED BY ONLY Recursion, <1>2, <1>12, <2>1, <2>2, StructSized DEF w
<1>14. Sized(Tagged(s10), 18)
  <2>1. s10 # <<>> /\ Head(s10) = w /\ Tail(s10) = s9
    BY DEF s10, s9
  <2>2. 18 = 1 + 17
    OBVIOUS
  <2> QED BY ONLY Recursion, <1>2, <1>13, <2>1, <2>2, StructSized DEF w
<1>15. Sized(Tagged(s11), 19)
  <2>1. s11 # <<>> /\ Head(s11) = w /\ Tail(s11) = s10
    BY DEF s11, s10
  <2>2. 19 = 1 + 18
    OBVIOUS
  <2> QED BY ONLY Recursion, <1>2, <1>14, <2>1, <2>2, StructSized DEF w
<1>16. Sized(Tagged(s12), 20)
  <2>1. s12 # <<>> /\ Head(s12) = w /\ Tail(s12) = s11
    BY DEF s12, s11
  <2>2. 20 = 1 + 19
    OBVIOUS
  <2> QED BY ONLY Recursion, <1>2, <1>15, <2>1, <2>2, StructSized DEF w
<1>17. Sized(Tagged(s13), 21)
  <2>1. s13 # <<>> /\ Head(s13) = e /\ Tail(s13) = s12
    BY DEF s13, s12
  <2>2. 21 = 1 + 20
    OBVIOUS
  <2> QED BY ONLY Recursion, <1>2, <1>16, <2>1, <2>2, StructSized DEF e
<1> QED BY <1>1, <1>17

\* A field that is the discriminant, and has no cases.
LEMMA UnionLength ==
  ASSUME Recursion, NEW t, NEW x, NEW u, NEW d,
         FieldHasType(Union(t), x, u, FALSE, d)
  PROVE  /\ Has(t, x, <<>>, FALSE, d)
         /\ Len(EncodeField(Union(t), x, u).bytes) = Length(t, x, <<>>)
<1> DEFINE field == Union(t)
<1>1. field.tag = << <<"union", 1>> >> /\ field.type = t
  BY DEF Union, Field
<1>2. /\ Get(field.tag, "union") = <<1>>
      /\ \A opt : opt # "union" => Get(field.tag, opt) = <<>>
  BY <1>1, OneOption
<1>3. Selected(field.tag, u)
  BY <1>2 DEF Selected
<1> HIDE DEF field
<1>4. Has(t, x, <<>>, FALSE, d)
  BY <1>1, <1>2, <1>3 DEF FieldHasType, field
<1>5. EncodeField(field, x, u) = Encode(t, x, <<>>)
  BY <1>1, <1>2, <1>3 DEF EncodeField, Recursion
<1> QED BY <1>4, <1>5 DEF field, Length

\* A field in one case.
LEMMA CaseLength ==
  ASSUME Recursion, NEW c, NEW t, NEW x, NEW u, u # <<>>, NEW d,
         FieldHasType(UnionCase(c, t), x, u, FALSE, d)
  PROVE  /\ u = <<c>> =>
              /\ Has(t, x, <<>>, FALSE, d)
              /\ Len(EncodeField(UnionCase(c, t), x, u).bytes)
                   = Length(t, x, <<>>)
         /\ u # <<c>> => Len(EncodeField(UnionCase(c, t), x, u).bytes) = 0
<1> DEFINE field == UnionCase(c, t)
<1>1. field.tag = << <<"unioncase", c>> >> /\ field.type = t
  BY DEF UnionCase, Field
<1>2. /\ Get(field.tag, "unioncase") = <<c>>
      /\ \A opt : opt # "unioncase" => Get(field.tag, opt) = <<>>
  BY <1>1, OneOption
<1>3. <<c>> # <<>>
  OBVIOUS
<1>4. Selected(field.tag, u) <=> u = <<c>>
  BY <1>2, <1>3 DEF Selected
<1> HIDE DEF field
<1>5. ASSUME u = <<c>>
      PROVE  /\ Has(t, x, <<>>, FALSE, d)
             /\ Len(EncodeField(field, x, u).bytes) = Length(t, x, <<>>)
  <2>1. Has(t, x, <<>>, FALSE, d)
    BY <1>1, <1>2, <1>4, <1>5 DEF FieldHasType, field
  <2>2. EncodeField(field, x, u) = Encode(t, x, <<>>)
    BY <1>1, <1>2, <1>4, <1>5 DEF EncodeField, Recursion
  <2> QED BY <2>1, <2>2 DEF Length
<1>6. ASSUME u # <<c>> PROVE Len(EncodeField(field, x, u).bytes) = 0
  <2>1. EncodeField(field, x, u) = Written(<<>>)
    BY <1>2, <1>4, <1>6 DEF EncodeField
  <2>2. Len(<<>>) = 0
    OBVIOUS
  <2> QED BY <2>1, <2>2, Writing
<1> QED BY <1>5, <1>6 DEF field

\* An optional pointer.
LEMMA OptionalLength ==
  ASSUME Recursion, NEW name, NEW x, NEW u, NEW d,
         FieldHasType(Optional(name), x, u, FALSE, d)
  PROVE  /\ x = <<>> \/ Has(Ptr(name), x, <<>>, FALSE, d)
         /\ x = <<>> => Len(EncodeField(Optional(name), x, u).bytes) = 4
         /\ Has(Ptr(name), x, <<>>, FALSE, d) /\ x # <<>> =>
              Len(EncodeField(Optional(name), x, u).bytes)
                = 4 + Length(Ptr(name), x, <<>>)
<1> DEFINE field == Optional(name)
           b == Written(EncodeBool(x # <<>>))
<1>1. field.tag = << <<"optional", 1>> >> /\ field.type = Ptr(name)
  BY DEF Optional, Field
<1>2. /\ Get(field.tag, "optional") = <<1>>
      /\ \A opt : opt # "optional" => Get(field.tag, opt) = <<>>
  BY <1>1, OneOption
<1>3. Get(field.tag, "optional") # <<>> /\ Get(field.tag, "union") = <<>>
  <2>1. <<1>> # <<>>
    OBVIOUS
  <2> QED BY <1>2, <2>1
<1> HIDE DEF field
<1>4. x = <<>> \/ Has(Ptr(name), x, <<>>, FALSE, d)
  BY <1>1, <1>3 DEF FieldHasType, field
<1>5. /\ b.ok /\ b.bytes \in Seq(Byte) /\ Len(b.bytes) = 4
      /\ Written(<<>>).ok /\ Written(<<>>).bytes = <<>>
  <2>1. (IF x # <<>> THEN 1 ELSE 0) \in Int
    OBVIOUS
  <2>2. EncodeBool(x # <<>>) \in Seq(Byte) /\ Len(EncodeBool(x # <<>>)) = 4
    BY <2>1, UintBytes DEF EncodeBool
  <2> QED BY <2>2, Writing
<1>6. EncodeField(field, x, u)
        = Then(b, IF x = <<>> THEN Written(<<>>) ELSE Enc(Ptr(name), x, <<>>))
  BY <1>1, <1>3 DEF EncodeField
<1> HIDE DEF b
<1>7. ASSUME x = <<>> PROVE Len(EncodeField(field, x, u).bytes) = 4
  <2>1. EncodeField(field, x, u) = Then(b, Written(<<>>))
    BY <1>6, <1>7
  <2>2. <<>> \in Seq(Byte) /\ Len(<<>>) = 0
    OBVIOUS
  <2> DEFINE w == Written(<<>>)
  <2>3. w.ok /\ w.bytes \in Seq(Byte) /\ Len(w.bytes) = 0
    BY <1>5, <2>2
  <2> HIDE DEF w
  <2>4. Len(Then(b, w).bytes) = Len(b.bytes) + Len(w.bytes)
    BY ONLY <1>5, <2>3, ThenLength
  <2>5. EncodeField(field, x, u) = Then(b, w)
    BY <2>1 DEF w
  <2> QED BY <1>5, <2>3, <2>4, <2>5
<1>8. ASSUME Has(Ptr(name), x, <<>>, FALSE, d), x # <<>>
      PROVE  Len(EncodeField(field, x, u).bytes)
               = 4 + Length(Ptr(name), x, <<>>)
  <2> DEFINE w == Encode(Ptr(name), x, <<>>)
  <2>1. EncodeField(field, x, u) = Then(b, w)
    BY <1>6, <1>8 DEF Recursion
  <2>2. w.ok /\ w.bytes \in Seq(Byte)
    BY <1>8, HasWritten
  <2> HIDE DEF w
  <2>3. Len(Then(b, w).bytes) = Len(b.bytes) + Len(w.bytes)
    BY ONLY <1>5, <2>2, ThenLength
  <2> QED BY <1>5, <2>1, <2>3 DEF w, Length
<1> QED BY <1>4, <1>7, <1>8 DEF field

\* Attributes that follow, or not.
LEMMA AttributesLength ==
  ASSUME Recursion, NEW v, NEW u, NEW d, Has(Post_op_attr, v, u, FALSE, d)
  PROVE  /\ v[1] \in BOOLEAN
         /\ Length(Post_op_attr, v, u) = 4 + (IF v[1] THEN 4 * 21 ELSE 0)
<1> DEFINE f == Union(Bool)
           g == UnionCase(1, Fattr3)
           s0 == <<>>
           s1 == <<g>>
           s2 == <<f, g>>
           h == Head(v)
           l == Tail(v)
           known == Discriminant(Bool, h)
           k == Head(l)
           r == Tail(l)
           d1 == d - 1
           d2 == d1 - 1
<1>1. Post_op_attr = Tagged(s2)
  BY DEF Post_op_attr
<1>2. /\ s1 # <<>> /\ Head(s1) = g /\ Tail(s1) = s0
      /\ s2 # <<>> /\ Head(s2) = f /\ Tail(s2) = s1
  OBVIOUS
<1>3. Known(f, h, u) = known /\ Known(g, k, known) = known
  <2> HIDE DEF h, k
  <2>1. Known(Union(Bool), h, u) = Discriminant(Bool, h)
    BY KnownAfter
  <2> DEFINE c == Discriminant(Bool, h)
  <2> HIDE DEF c
  <2>2. Known(UnionCase(1, Fattr3), k, c) = c
    BY KnownAfter
  <2> QED BY <2>1, <2>2 DEF c
<1>4. Length(Tagged(s0), r, known) = 0 /\ Has(Tagged(s2), v, u, FALSE, d)
  <2>1. Tagged(s0).kind = "struct" /\ Tagged(s0).of = <<>>
    BY DEF Tagged, Kind
  <2>2. Encode(Tagged(s0), r, known) = Written(<<>>)
    BY <2>1 DEF Encode, EncodeFields
  <2>3. Len(<<>>) = 0
    OBVIOUS
  <2> QED BY <1>1, <2>2, <2>3, Writing DEF Length
<1>5. known = (IF h THEN <<1>> ELSE <<0>>) /\ known # <<>>
  <2>1. Bool.kind = "bool"
    BY DEF Bool, Kind
  <2> QED BY <2>1 DEF Discriminant
<1> HIDE DEF f, g, s0, s1, s2, known
<1>6. /\ IsTuple(v) /\ v # <<>> /\ d1 \in Nat
      /\ FieldHasType(f, h, known, FALSE, d1)
      /\ Has(Tagged(s1), l, known, FALSE, d1)
      /\ Length(Tagged(s2), v, u)
           = Len(EncodeField(f, h, known).bytes) + Length(Tagged(s1), l, known)
  <2>1. Parted(s2, v, u, d)
    BY <1>2, <1>4, FieldsLength
  <2> QED BY <1>2, <1>3, <2>1 DEF Parted
<1> HIDE DEF h, l, d1
<1>7. /\ FieldHasType(g, k, known, FALSE, d2)
      /\ Len(EncodeField(g, k, known).bytes) \in Nat
      /\ Length(Tagged(s1), l, known)
           = Len(EncodeField(g, k, known).bytes) + Length(Tagged(s0), r, known)
  <2>1. Parted(s1, l, known, d1)
    BY <1>2, <1>6, FieldsLength
  <2> QED BY <1>2, <1>3, <2>1 DEF Parted
<1> HIDE DEF k, r, d2
<1>8. /\ Has(Bool, h, <<>>, FALSE, d1)
      /\ Len(EncodeField(f, h, known).bytes) = Length(Bool, h, <<>>)
  BY <1>6, UnionLength DEF f
<1>9. h \in BOOLEAN /\ Length(Bool, h, <<>>) = 4
  <2>1. Bool.kind = "bool"
    BY DEF Bool, Kind
  <2>2. HasType(Bool, h, <<>>, FALSE, d1)
    BY <1>8 DEF Recursion
  <2>3. h \in BOOLEAN
    BY <2>1, <2>2 DEF HasType
  <2>4. Sized(Bool, 1)
    BY <2>1, ScalarSized
  <2>5. Length(Bool, h, <<>>) = 4 * 1
    BY <1>8, <2>4 DEF Sized
  <2> QED BY <2>3, <2>5
<1>10. Len(EncodeField(g, k, known).bytes) = IF h THEN 4 * 21 ELSE 0
  <2>1. CASE h
    <3>1. known = <<1>>
      BY <1>5, <2>1
    <3>2. FieldHasType(UnionCase(1, Fattr3), k, known, FALSE, d2)
      BY <1>7 DEF g
    <3>3. /\ Has(Fattr3, k, <<>>, FALSE, d2)
          /\ Len(EncodeField(g, k, known).bytes) = Length(Fattr3, k, <<>>)
      <4> DEFINE t == Fattr3
                 c == 1
      <4> HIDE DEF t, c
      <4>1. known # <<>> /\ known = <<c>>
        BY <1>5, <3>1 DEF c
      <4>2. FieldHasType(UnionCase(c, t), k, known, FALSE, d2)
        BY <3>2 DEF c, t
      <4>3. /\ Has(t, k, <<>>, FALSE, d2)
            /\ Len(EncodeField(UnionCase(c, t), k, known).bytes)
                 = Length(t, k, <<>>)
        BY ONLY Recursion, <4>1, <4>2, CaseLength
      <4> QED BY <4>3 DEF g, c, t
    <3>4. Length(Fattr3, k, <<>>) = 4 * 21
      BY <3>3, FattrSized DEF Sized
    <3> QED BY <2>1, <3>3, <3>4
  <2>2. CASE ~h
    <3>1. known # <<1>>
      <4>1. known = <<0>>
        BY <1>5, <2>2
      <4> QED BY <4>1
    <3>2. Len(EncodeField(g, k, known).bytes) = 0
      BY <1>5, <1>7, <3>1, CaseLength DEF g
    <3> QED BY <2>2, <3>2
  <2> QED BY <1>9, <2>1, <2>2
<1>11. h = v[1]
  BY <1>6, TupleIndex DEF h
<1>12. Length(Tagged(s2), v, u) = 4 + (IF h THEN 4 * 21 ELSE 0)
  BY <1>4, <1>6, <1>7, <1>8, <1>9, <1>10
<1> QED BY <1>1, <1>9, <1>11, <1>12

\* A value of a struct whose first field has no tag.
PlainParted(fields, t, v, u, d) ==
  /\ IsTuple(v) /\ v # <<>> /\ d - 1 \in Nat
  /\ Has(t, Head(v), <<>>, FALSE, d - 1)
  /\ Has(Tagged(Tail(fields)), Tail(v), u, FALSE, d - 1)
  /\ Length(Tagged(fields), v, u)
       = Length(t, Head(v), <<>>) + Length(Tagged(Tail(fields)), Tail(v), u)

\* Each value of such a struct.
LEMMA PlainFirst ==
  ASSUME Recursion, NEW fields, NEW t, fields # <<>>, Head(fields) = Plain(t),
         NEW v, NEW u, NEW d, Has(Tagged(fields), v, u, FALSE, d)
  PROVE  PlainParted(fields, t, v, u, d)
<1> DEFINE h == Head(v)
           d1 == d - 1
<1>1. Parted(fields, v, u, d)
  BY FieldsLength
<1>2. Known(Plain(t), h, u) = u
  BY KnownAfter
<1>3. /\ IsTuple(v) /\ v # <<>> /\ d1 \in Nat
      /\ FieldHasType(Plain(t), h, u, FALSE, d1)
      /\ Has(Tagged(Tail(fields)), Tail(v), u, FALSE, d1)
      /\ Length(Tagged(fields), v, u)
           = Len(EncodeField(Plain(t), h, u).bytes)
               + Length(Tagged(Tail(fields)), Tail(v), u)
  BY <1>1, <1>2 DEF Parted
<1> HIDE DEF h, d1
<1>4. /\ Has(t, h, <<>>, FALSE, d1)
      /\ Len(EncodeField(Plain(t), h, u).bytes) = Length(t, h, <<>>)
  BY <1>3, PlainLength
<1>5. Length(Tagged(fields), v, u)
        = Length(t, h, <<>>) + Length(Tagged(Tail(fields)), Tail(v), u)
  BY <1>3, <1>4
<1> QED BY <1>3, <1>4, <1>5 DEF PlainParted, h, d1

\* The bytes of an opaque or a string in whole words.
Words(n) == ((n + 3) \div 4) * 4

\* They are the bytes and their padding.
LEMMA WordsPadded ==
  ASSUME NEW n \in Nat
  PROVE  Words(n) \in Nat /\ n + Padding(n) = Words(n)
<1> DEFINE q == n \div 4
           r == n % 4
<1>1. q \in Int /\ r \in 0 .. 3 /\ n = 4 * q + r
  OBVIOUS
<1> HIDE DEF q, r
<1>2. CASE r = 0
  <2>1. (n + 3) \div 4 = q
    BY <1>1, <1>2
  <2>2. Padding(n) = 0
    BY <1>1, <1>2 DEF Padding, r
  <2> QED BY <1>1, <1>2, <2>1, <2>2 DEF Words
<1>3. CASE r # 0
  <2>1. (n + 3) \div 4 = q + 1
    BY <1>1, <1>3
  <2>2. Padding(n) = 4 - r
    <3>1. (4 - r) % 4 = 4 - r
      BY <1>1, <1>3
    <3> QED BY <3>1 DEF Padding, r
  <2> QED BY <1>1, <1>3, <2>1, <2>2 DEF Words
<1> QED BY <1>2, <1>3

\* An opaque or a string is its length and its bytes in whole words.
LEMMA OpaqueLength ==
  ASSUME Recursion, NEW v, NEW u, NEW d, Has(Opaque, v, u, FALSE, d)
  PROVE  Len(v) \in Nat /\ Length(Opaque, v, u) = 4 + Words(Len(v))
<1>1. Opaque.kind = "opaque"
  BY DEF Opaque, Kind
<1>2. v \in Seq(Byte)
  <2>1. HasType(Opaque, v, u, FALSE, d)
    BY DEF Recursion
  <2> QED BY <1>1, <2>1 DEF HasType, IsOpaque
<1>3. Len(v) \in Nat
  BY <1>2, LenProperties
<1> DEFINE b == EncodeUint(Len(v))
           f == EncodeFixedOpaque(v)
<1>4. b \in Seq(Byte) /\ Len(b) = 4
  BY <1>3, UintBytes
<1>5. f \in Seq(Byte) /\ Len(f) = Len(v) + Padding(Len(v))
  BY <1>2, PaddedBytes
<1>6. Encode(Opaque, v, u) = Written(b \o f)
  BY <1>1 DEF Encode, EncodeOpaque
<1> HIDE DEF b, f
<1>7. Len(b \o f) = Len(b) + Len(f)
  BY <1>4, <1>5, ConcatProperties
<1>8. Len(v) + Padding(Len(v)) = Words(Len(v))
  BY <1>3, WordsPadded
<1> QED BY <1>3, <1>4, <1>5, <1>6, <1>7, <1>8, Writing DEF Length

\* "8 bytes verifier".
LEMMA VerfSized ==
  ASSUME Recursion
  PROVE  Sized(Verf, 2)
<1> SUFFICES ASSUME NEW v, NEW u, NEW d, Has(Verf, v, u, FALSE, d)
             PROVE  Length(Verf, v, u) = 8
  <2>1. 2 \in Nat /\ 4 * 2 = 8
    OBVIOUS
  <2> QED BY <2>1 DEF Sized
<1>1. Verf.kind = "fixed" /\ Verf.size = 8
  BY DEF Verf, Fixed, Kind
<1>2. v \in Seq(Byte) /\ Len(v) = 8
  <2>1. HasType(Verf, v, u, FALSE, d)
    BY DEF Recursion
  <2> QED BY <1>1, <2>1 DEF HasType, IsOpaque
<1>3. Len(EncodeFixedOpaque(v)) = Len(v) + Padding(Len(v))
  BY <1>2, PaddedBytes
<1>4. Len(EncodeFixedOpaque(v)) = 8
  <2>1. Padding(8) = 0
    BY DEF Padding
  <2> QED BY <1>2, <1>3, <2>1
<1>5. Encode(Verf, v, u) = Written(EncodeFixedOpaque(v))
  BY <1>1 DEF Encode
<1>6. Encode(Verf, v, u).bytes = EncodeFixedOpaque(v)
  BY <1>5, Writing
<1> QED BY <1>4, <1>6 DEF Length

\* An entry: two numbers of 8 bytes, a name, whether another one follows, and
\* the other one.
LEMMA EntryLength ==
  ASSUME Recursion, NEW v, NEW u, NEW d, Has(Entry3, v, u, FALSE, d)
  PROVE  LET name == v[2]
             next == v[4]
             size == ENTRY3SIZE + Words(Len(name))
         IN  /\ next = <<>> => Length(Entry3, v, u) = size
             /\ next # <<>> =>
                  /\ d - 4 \in Nat
                  /\ Has(Ptr("Entry3"), next, <<>>, FALSE, d - 4)
                  /\ Length(Entry3, v, u)
                       = size + Length(Ptr("Entry3"), next, <<>>)
<1> DEFINE h == Plain(Uhyper)
           o == Plain(Opaque)
           q == Optional("Entry3")
           s0 == <<>>
           s1 == <<q>>
           s2 == <<h, q>>
           s3 == <<o, h, q>>
           s4 == <<h, o, h, q>>
           v1 == Tail(v)
           v2 == Tail(v1)
           v3 == Tail(v2)
           d1 == d - 1
           d2 == d1 - 1
           d3 == d2 - 1
           d4 == d3 - 1
<1>1. Entry3 = Tagged(s4)
  BY DEF Entry3
<1>2. /\ s1 # <<>> /\ Head(s1) = q /\ Tail(s1) = s0
      /\ s2 # <<>> /\ Head(s2) = h /\ Tail(s2) = s1
      /\ s3 # <<>> /\ Head(s3) = o /\ Tail(s3) = s2
      /\ s4 # <<>> /\ Head(s4) = h /\ Tail(s4) = s3
  OBVIOUS
<1>3. \A x, e : Has(Uhyper, x, <<>>, FALSE, e) => Length(Uhyper, x, <<>>) = 8
  <2>1. Uhyper.kind = "uhyper"
    BY DEF Uhyper, Kind
  <2>2. Sized(Uhyper, 2) /\ 4 * 2 = 8
    BY <2>1, ScalarSized
  <2> QED BY <2>2 DEF Sized
<1>4. Length(Tagged(s0), Tail(v3), u) = 0
  <2>1. Tagged(s0).kind = "struct" /\ Tagged(s0).of = <<>>
    BY DEF Tagged, Kind
  <2>2. Encode(Tagged(s0), Tail(v3), u) = Written(<<>>)
    BY <2>1 DEF Encode, EncodeFields
  <2>3. Len(<<>>) = 0
    OBVIOUS
  <2> QED BY <2>2, <2>3, Writing DEF Length
<1> HIDE DEF s0, s1, s2, s3, s4, q
<1>5. /\ IsTuple(v) /\ v # <<>> /\ d1 \in Nat
      /\ Has(Tagged(s3), v1, u, FALSE, d1)
      /\ Length(Tagged(s4), v, u) = 8 + Length(Tagged(s3), v1, u)
  <2>1. PlainParted(s4, Uhyper, v, u, d)
    BY <1>1, <1>2, PlainFirst
  <2>2. Has(Uhyper, Head(v), <<>>, FALSE, d1)
    BY <2>1 DEF PlainParted
  <2>3. Length(Uhyper, Head(v), <<>>) = 8
    BY <1>3, <2>2
  <2> QED BY <1>2, <2>1, <2>3 DEF PlainParted
<1> HIDE DEF v1, d1
<1>6. /\ IsTuple(v1) /\ v1 # <<>> /\ d2 \in Nat
      /\ Has(Tagged(s2), v2, u, FALSE, d2)
      /\ Len(Head(v1)) \in Nat
      /\ Length(Tagged(s3), v1, u)
           = 4 + Words(Len(Head(v1))) + Length(Tagged(s2), v2, u)
  <2>1. PlainParted(s3, Opaque, v1, u, d1)
    BY <1>2, <1>5, PlainFirst
  <2>2. /\ Len(Head(v1)) \in Nat
        /\ Length(Opaque, Head(v1), <<>>) = 4 + Words(Len(Head(v1)))
    BY <2>1, OpaqueLength DEF PlainParted
  <2> QED BY <1>2, <2>1, <2>2 DEF PlainParted
<1> HIDE DEF v2, d2
<1>7. /\ IsTuple(v2) /\ v2 # <<>> /\ d3 \in Nat
      /\ Has(Tagged(s1), v3, u, FALSE, d3)
      /\ Length(Tagged(s2), v2, u) = 8 + Length(Tagged(s1), v3, u)
  <2>1. PlainParted(s2, Uhyper, v2, u, d2)
    BY <1>2, <1>6, PlainFirst
  <2>2. Has(Uhyper, Head(v2), <<>>, FALSE, d3)
    BY <2>1 DEF PlainParted
  <2>3. Length(Uhyper, Head(v2), <<>>) = 8
    BY <1>3, <2>2
  <2> QED BY <1>2, <2>1, <2>3 DEF PlainParted
<1> HIDE DEF v3, d3
<1> DEFINE x == Head(v3)
           w == EncodeField(q, x, u)
<1>8. /\ IsTuple(v3) /\ v3 # <<>> /\ d4 \in Nat
      /\ FieldHasType(q, x, u, FALSE, d4)
      /\ Length(Tagged(s1), v3, u) = Len(w.bytes)
  <2>1. Parted(s1, v3, u, d3)
    BY <1>2, <1>7, FieldsLength
  <2>2. Known(q, x, u) = u
    BY KnownAfter DEF q
  <2>3. /\ IsTuple(v3) /\ v3 # <<>> /\ d4 \in Nat
        /\ FieldHasType(q, x, u, FALSE, d4)
        /\ Len(w.bytes) \in Nat
        /\ Length(Tagged(s1), v3, u)
              = Len(w.bytes) + Length(Tagged(s0), Tail(v3), u)
    BY <1>2, <2>1, <2>2 DEF Parted
  <2> DEFINE n == Len(w.bytes)
             all == Length(Tagged(s1), v3, u)
             none == Length(Tagged(s0), Tail(v3), u)
  <2>4. all = n + none /\ none = 0 /\ n \in Nat
    BY <1>4, <2>3
  <2> HIDE DEF n, all, none
  <2>5. all = n
    BY ONLY <2>4
  <2> QED BY <2>3, <2>5 DEF n, all
<1> HIDE DEF d4, x
<1>9. /\ x = <<>> \/ Has(Ptr("Entry3"), x, <<>>, FALSE, d4)
      /\ x = <<>> => Len(w.bytes) = 4
      /\ Has(Ptr("Entry3"), x, <<>>, FALSE, d4) /\ x # <<>> =>
           Len(w.bytes) = 4 + Length(Ptr("Entry3"), x, <<>>)
  <2> DEFINE node == "Entry3"
  <2>1. FieldHasType(Optional(node), x, u, FALSE, d4)
    BY <1>8 DEF q
  <2> HIDE DEF node
  <2>2. /\ x = <<>> \/ Has(Ptr(node), x, <<>>, FALSE, d4)
        /\ x = <<>> => Len(EncodeField(Optional(node), x, u).bytes) = 4
        /\ Has(Ptr(node), x, <<>>, FALSE, d4) /\ x # <<>> =>
             Len(EncodeField(Optional(node), x, u).bytes)
               = 4 + Length(Ptr(node), x, <<>>)
    BY ONLY Recursion, <2>1, OptionalLength
  <2> QED BY <2>2 DEF q, node
<1>10. Head(v1) = v[2] /\ x = v[4]
  <2>1. /\ Len(v3) = Len(v2) - 1 /\ Len(v2) = Len(v1) - 1
        /\ Len(v1) = Len(v) - 1
        /\ Len(v) \in Nat /\ Len(v1) \in Nat /\ Len(v2) \in Nat
        /\ Len(v3) \in Nat /\ Len(v3) >= 1
    BY <1>5, <1>6, <1>7, <1>8, TupleIndex DEF v1, v2, v3
  <2>2. Head(v1) = v1[1] /\ x = v3[1]
    BY <1>6, <1>8, TupleIndex DEF x
  <2>3. v3[1] = v2[1 + 1]
    BY <1>7, <2>1, TupleIndex DEF v3
  <2>4. v2[2] = v1[2 + 1]
    BY <1>6, <2>1, TupleIndex DEF v2
  <2>5. v1[1] = v[1 + 1] /\ v1[3] = v[3 + 1]
    BY <1>5, <2>1, TupleIndex DEF v1
  <2> QED BY <2>2, <2>3, <2>4, <2>5
<1> DEFINE size == Words(Len(Head(v1)))
           more == Length(Ptr("Entry3"), x, <<>>)
<1>11. ENTRY3SIZE = 24 /\ size \in Nat
  BY <1>6, WordsPadded DEF ENTRY3SIZE
<1>12. ASSUME x # <<>> PROVE more \in Nat
  BY <1>9, <1>12, HasWritten
<1> DEFINE all == Length(Tagged(s4), v, u)
           n == Len(w.bytes)
<1>13. all = 8 + (4 + size + (8 + n))
  BY <1>5, <1>6, <1>7, <1>8
<1>14. /\ x = <<>> => n = 4
       /\ x # <<>> => n = 4 + more
  BY <1>9
<1> HIDE DEF w, size, more, all, n
<1>15. ASSUME n = 4 PROVE all = ENTRY3SIZE + size
  BY ONLY <1>11, <1>13, <1>15
<1>16. ASSUME n = 4 + more, more \in Nat PROVE all = ENTRY3SIZE + size + more
  BY ONLY <1>11, <1>13, <1>16
<1>17. /\ x = <<>> => all = ENTRY3SIZE + size
       /\ x # <<>> => all = ENTRY3SIZE + size + more
  BY <1>12, <1>14, <1>15, <1>16
<1>18. d4 \in Nat /\ d4 = d - 4
  <2>1. d \in Nat
    BY HasWritten
  <2> QED BY <1>8, <2>1 DEF d1, d2, d3, d4
<1> QED BY <1>1, <1>9, <1>10, <1>17, <1>18 DEF size, more, all

\* ReadDir measures the entries of a page as the encoder writes them, by
\* induction on how deep the list is nested.
LEMMA ListLength ==
  ASSUME Recursion, NEW d \in Nat, NEW list,
         Has(Ptr("Entry3"), list, <<>>, FALSE, d)
  PROVE  /\ list # <<>>
         /\ Length(Ptr("Entry3"), list, <<>>) = EntriesSize(list)
<1> DEFINE p == Ptr("Entry3")
           Measure(l) == l # <<>> /\ Length(p, l, <<>>) = EntriesSize(l)
           Bad == {k \in Nat : \E l : Has(p, l, <<>>, FALSE, k) /\ ~Measure(l)}
<1>1. p.kind = "ptr" /\ Named(p.of) = Entry3
  BY DEF Ptr, Kind, Named
<1>2. SUFFICES Bad = {}
  BY <1>2
<1>3. SUFFICES ASSUME Bad # {} PROVE FALSE
  OBVIOUS
<1>4. PICK k \in Bad : \A j \in Bad : k <= j
  BY <1>3, Least
<1>5. PICK l : Has(p, l, <<>>, FALSE, k) /\ ~Measure(l)
  BY <1>4
<1>6. k \in Nat
  BY <1>4
<1>7. ASSUME NEW j \in Nat, j < k, NEW m, Has(p, m, <<>>, FALSE, j)
      PROVE  Measure(m)
  <2> SUFFICES ASSUME ~Measure(m) PROVE FALSE
    OBVIOUS
  <2>1. j \in Bad
    BY <1>7
  <2>2. k <= j
    BY <1>4, <2>1
  <2> QED BY <1>6, <1>7, <2>2
<1> DEFINE v == l[1]
           e == k - 1
           next == v[4]
           name == v[2]
<1> HIDE DEF Bad, Measure, p
<1>8. l = <<v>> /\ Has(Entry3, v, <<>>, FALSE, e)
  <2>1. HasType(p, l, <<>>, FALSE, k)
    BY <1>5 DEF Recursion
  <2> QED BY <1>1, <2>1 DEF HasType
<1> HIDE DEF v
<1>9. l # <<>>
  BY <1>8
<1>10. Length(p, l, <<>>) = Length(Entry3, v, <<>>)
  <2>1. Encode(p, l, <<>>) = Enc(Named(p.of), l[1], <<>>)
    BY <1>1, <1>9 DEF Encode
  <2> QED BY <1>1, <2>1 DEF Recursion, Length, v
<1>11. EntriesSize(l) = ENTRY3SIZE + Words(Len(name)) + Size(next)
  BY <1>9 DEF EntriesSize, Words, v
<1>12. Size(next) = EntriesSize(next)
  BY DEF Recursion
<1> HIDE DEF e
<1>13. /\ next = <<>> =>
            Length(Entry3, v, <<>>) = ENTRY3SIZE + Words(Len(name))
       /\ next # <<>> =>
            /\ e - 4 \in Nat
            /\ Has(p, next, <<>>, FALSE, e - 4)
            /\ Length(Entry3, v, <<>>)
                 = ENTRY3SIZE + Words(Len(name)) + Length(p, next, <<>>)
  <2>1. LET nm == v[2]
            nx == v[4]
            size == ENTRY3SIZE + Words(Len(nm))
        IN  /\ nx = <<>> => Length(Entry3, v, <<>>) = size
            /\ nx # <<>> =>
                 /\ e - 4 \in Nat
                 /\ Has(Ptr("Entry3"), nx, <<>>, FALSE, e - 4)
                 /\ Length(Entry3, v, <<>>)
                      = size + Length(Ptr("Entry3"), nx, <<>>)
    BY ONLY Recursion, <1>8, EntryLength
  <2> QED BY <2>1 DEF p
<1> HIDE DEF next, name
<1>14. CASE next = <<>>
  <2>1. EntriesSize(next) = 0
    BY <1>14 DEF EntriesSize
  <2> DEFINE size == Words(Len(name))
  <2>2. size \in Int /\ ENTRY3SIZE = 24
    BY DEF ENTRY3SIZE, Words
  <2> QED BY <1>5, <1>9, <1>10, <1>11, <1>12, <1>13, <1>14, <2>1, <2>2
          DEF Measure
<1>15. CASE next # <<>>
  <2>1. e - 4 \in Nat /\ e - 4 < k
    BY <1>6, <1>13, <1>15 DEF e
  <2>2. Measure(next)
    BY <1>7, <1>13, <1>15, <2>1
  <2>3. Length(p, next, <<>>) = Size(next)
    BY <1>12, <2>2 DEF Measure
  <2>4. Length(p, l, <<>>) = EntriesSize(l)
    BY <1>10, <1>11, <1>13, <1>15, <2>3
  <2> QED BY <1>5, <1>9, <2>4 DEF Measure
<1> QED BY <1>14, <1>15

\* The list and the flag at its end.
LEMMA DirlistLength ==
  ASSUME Recursion, NEW v, NEW u, NEW d, Has(Dirlist3, v, u, FALSE, d)
  PROVE  /\ EntriesSize(v[1]) \in Nat
         /\ Length(Dirlist3, v, u) = 8 + EntriesSize(v[1])
<1> DEFINE q == Optional("Entry3")
           f == Plain(Bool)
           s0 == <<>>
           s1 == <<f>>
           s2 == <<q, f>>
           x == Head(v)
           l == Tail(v)
           d1 == d - 1
           w == EncodeField(q, x, u)
<1>1. Dirlist3 = Tagged(s2)
  BY DEF Dirlist3
<1>2. /\ s1 # <<>> /\ Head(s1) = f /\ Tail(s1) = s0
      /\ s2 # <<>> /\ Head(s2) = q /\ Tail(s2) = s1
  OBVIOUS
<1>3. Known(q, x, u) = u
  <2> HIDE DEF x
  <2> QED BY KnownAfter
<1>4. Length(Tagged(s0), Tail(l), u) = 0
  <2>1. Tagged(s0).kind = "struct" /\ Tagged(s0).of = <<>>
    BY DEF Tagged, Kind
  <2>2. Encode(Tagged(s0), Tail(l), u) = Written(<<>>)
    BY <2>1 DEF Encode, EncodeFields
  <2>3. Len(<<>>) = 0
    OBVIOUS
  <2> QED BY <2>2, <2>3, Writing DEF Length
<1> HIDE DEF q, f, s0, s1, s2
<1>5. /\ IsTuple(v) /\ v # <<>> /\ d1 \in Nat
      /\ FieldHasType(q, x, u, FALSE, d1)
      /\ Has(Tagged(s1), l, u, FALSE, d1)
      /\ Length(Tagged(s2), v, u)
           = Len(w.bytes) + Length(Tagged(s1), l, u)
  <2>1. Parted(s2, v, u, d)
    BY <1>1, <1>2, FieldsLength
  <2> QED BY <1>2, <1>3, <2>1 DEF Parted
<1> HIDE DEF x, l, d1
<1>6. Length(Tagged(s1), l, u) = 4
  <2>1. PlainParted(s1, Bool, l, u, d1)
    BY <1>2, <1>5, PlainFirst DEF f
  <2>2. Sized(Bool, 1)
    <3>1. Bool.kind = "bool"
      BY DEF Bool, Kind
    <3> QED BY <3>1, ScalarSized
  <2>3. Has(Bool, Head(l), <<>>, FALSE, d1 - 1)
    BY <2>1 DEF PlainParted
  <2>4. Length(Bool, Head(l), <<>>) = 4
    <3>1. 4 * 1 = 4
      OBVIOUS
    <3> QED BY <2>2, <2>3, <3>1 DEF Sized
  <2>5. Length(Tagged(s1), l, u)
          = Length(Bool, Head(l), <<>>) + Length(Tagged(s0), Tail(l), u)
    BY <1>2, <2>1 DEF PlainParted
  <2> QED BY <1>4, <2>4, <2>5
<1>7. /\ x = <<>> \/ Has(Ptr("Entry3"), x, <<>>, FALSE, d1)
      /\ x = <<>> => Len(w.bytes) = 4
      /\ Has(Ptr("Entry3"), x, <<>>, FALSE, d1) /\ x # <<>> =>
           Len(w.bytes) = 4 + Length(Ptr("Entry3"), x, <<>>)
  <2> DEFINE node == "Entry3"
  <2>1. FieldHasType(Optional(node), x, u, FALSE, d1)
    BY <1>5 DEF q
  <2> HIDE DEF node
  <2>2. /\ x = <<>> \/ Has(Ptr(node), x, <<>>, FALSE, d1)
        /\ x = <<>> => Len(EncodeField(Optional(node), x, u).bytes) = 4
        /\ Has(Ptr(node), x, <<>>, FALSE, d1) /\ x # <<>> =>
             Len(EncodeField(Optional(node), x, u).bytes)
               = 4 + Length(Ptr(node), x, <<>>)
    BY ONLY Recursion, <2>1, OptionalLength
  <2> QED BY <2>2 DEF q, node
<1>8. x = v[1]
  BY <1>5, TupleIndex DEF x
<1> HIDE DEF w
<1>9. Len(w.bytes) = 4 + EntriesSize(x) /\ EntriesSize(x) \in Nat
  <2>1. CASE x = <<>>
    <3>1. EntriesSize(x) = 0
      BY <2>1 DEF EntriesSize
    <3>2. Len(w.bytes) = 4
      BY <1>7, <2>1
    <3> QED BY ONLY <3>1, <3>2
  <2>2. CASE x # <<>>
    <3>1. Has(Ptr("Entry3"), x, <<>>, FALSE, d1)
      BY <1>7, <2>2
    <3>2. Length(Ptr("Entry3"), x, <<>>) = EntriesSize(x)
      BY <1>5, <3>1, ListLength
    <3>3. Length(Ptr("Entry3"), x, <<>>) \in Nat
      BY <3>1, HasWritten
    <3> QED BY <1>7, <2>2, <3>1, <3>2, <3>3
  <2> QED BY <2>1, <2>2
<1> DEFINE n == Len(w.bytes)
           size == EntriesSize(x)
           all == Length(Tagged(s2), v, u)
<1>10. all = n + 4 /\ n = 4 + size /\ size \in Nat
  BY <1>5, <1>6, <1>9
<1> HIDE DEF n, size, all
<1>11. all = 8 + size
  BY ONLY <1>10
<1> QED BY <1>1, <1>8, <1>10, <1>11 DEF all, size

\* A page: the attributes, the verifier, the entries and the end.
LEMMA PageLength ==
  ASSUME Recursion, NEW v, NEW u, NEW d, Has(READDIR3resok, v, u, FALSE, d)
  PROVE  LET attributesFollow == v[1][1]
             size == READDIRRESOKSIZE + EntriesSize(v[3][1])
         IN  IF attributesFollow THEN Length(READDIR3resok, v, u) = size
             ELSE Length(READDIR3resok, v, u) <= size
<1> DEFINE a == Plain(Post_op_attr)
           f == Plain(Verf)
           p == Plain(Dirlist3)
           s0 == <<>>
           s1 == <<p>>
           s2 == <<f, p>>
           s3 == <<a, f, p>>
           x == Head(v)
           v1 == Tail(v)
           v2 == Tail(v1)
           y == Head(v2)
           d1 == d - 1
           d2 == d1 - 1
           d3 == d2 - 1
<1>1. READDIR3resok = Tagged(s3)
  BY DEF READDIR3resok, Struct
<1>2. /\ s1 # <<>> /\ Head(s1) = p /\ Tail(s1) = s0
      /\ s2 # <<>> /\ Head(s2) = f /\ Tail(s2) = s1
      /\ s3 # <<>> /\ Head(s3) = a /\ Tail(s3) = s2
  OBVIOUS
<1>3. Length(Tagged(s0), Tail(v2), u) = 0
  <2>1. Tagged(s0).kind = "struct" /\ Tagged(s0).of = <<>>
    BY DEF Tagged, Kind
  <2>2. Encode(Tagged(s0), Tail(v2), u) = Written(<<>>)
    BY <2>1 DEF Encode, EncodeFields
  <2>3. Len(<<>>) = 0
    OBVIOUS
  <2> QED BY <2>2, <2>3, Writing DEF Length
<1> HIDE DEF s0, s1, s2, s3
<1>4. /\ IsTuple(v) /\ v # <<>>
      /\ Has(Post_op_attr, x, <<>>, FALSE, d1)
      /\ Has(Tagged(s2), v1, u, FALSE, d1)
      /\ Length(Tagged(s3), v, u)
           = Length(Post_op_attr, x, <<>>) + Length(Tagged(s2), v1, u)
  <2>1. PlainParted(s3, Post_op_attr, v, u, d)
    BY <1>1, <1>2, PlainFirst
  <2> QED BY <1>2, <2>1 DEF PlainParted
<1> HIDE DEF x, v1, d1
<1>5. /\ IsTuple(v1) /\ v1 # <<>>
      /\ Has(Verf, Head(v1), <<>>, FALSE, d2)
      /\ Has(Tagged(s1), v2, u, FALSE, d2)
      /\ Length(Tagged(s2), v1, u)
           = Length(Verf, Head(v1), <<>>) + Length(Tagged(s1), v2, u)
  <2>1. PlainParted(s2, Verf, v1, u, d1)
    BY <1>2, <1>4, PlainFirst
  <2> QED BY <1>2, <2>1 DEF PlainParted
<1> HIDE DEF v2, d2
<1>6. /\ IsTuple(v2) /\ v2 # <<>>
      /\ Has(Dirlist3, y, <<>>, FALSE, d3)
      /\ Length(Tagged(s1), v2, u)
           = Length(Dirlist3, y, <<>>) + Length(Tagged(s0), Tail(v2), u)
  <2>1. PlainParted(s1, Dirlist3, v2, u, d2)
    BY <1>2, <1>5, PlainFirst
  <2> QED BY <1>2, <2>1 DEF PlainParted
<1> HIDE DEF y, d3
<1>7. x = v[1] /\ y = v[3]
  <2>1. /\ Len(v2) = Len(v1) - 1 /\ Len(v1) = Len(v) - 1
        /\ Len(v) \in Nat /\ Len(v1) \in Nat /\ Len(v2) \in Nat
        /\ Len(v2) >= 1
    BY <1>4, <1>5, <1>6, TupleIndex DEF v1, v2
  <2>2. x = v[1] /\ y = v2[1]
    BY <1>4, <1>6, TupleIndex DEF x, y
  <2>3. v2[1] = v1[1 + 1]
    BY <1>5, <2>1, TupleIndex DEF v2
  <2>4. v1[2] = v[2 + 1]
    BY <1>4, <2>1, TupleIndex DEF v1
  <2> QED BY <2>2, <2>3, <2>4
<1> DEFINE all == Length(Tagged(s3), v, u)
           attributes == Length(Post_op_attr, x, <<>>)
           verifier == Length(Verf, Head(v1), <<>>)
           list == Length(Dirlist3, y, <<>>)
           size == EntriesSize(y[1])
<1>8. x[1] \in BOOLEAN /\ attributes = 4 + (IF x[1] THEN 4 * 21 ELSE 0)
  BY <1>4, AttributesLength
<1>9. verifier = 4 * 2
  BY <1>5, VerfSized DEF Sized
<1>10. size \in Nat /\ list = 8 + size
  BY <1>6, DirlistLength
<1>11. all = attributes + (verifier + (list + 0))
  BY <1>3, <1>4, <1>5, <1>6
<1> HIDE DEF all, attributes, verifier, list, size
<1>12. CASE x[1]
  <2>1. attributes = 4 + 4 * 21
    BY <1>8, <1>12
  <2>2. all = READDIRRESOKSIZE + size
    BY ONLY <1>9, <1>10, <1>11, <2>1 DEF READDIRRESOKSIZE
  <2> QED BY <1>1, <1>7, <1>12, <2>2 DEF all, size
<1>13. CASE ~x[1]
  <2>1. attributes = 4
    BY <1>8, <1>13
  <2>2. all <= READDIRRESOKSIZE + size
    BY ONLY <1>9, <1>10, <1>11, <2>1 DEF READDIRRESOKSIZE
  <2> QED BY <1>1, <1>7, <1>13, <2>2 DEF all, size
<1> QED BY <1>8, <1>12, <1>13

\* ReadDir in allunix.go and its constants: what it measures of a page is what
\* the page is written in, however long the list and the names are, where the
\* message is of its type.
THEOREM PageMeasuredHolds ==
  ASSUME Recursion, Type("READDIR3resok") = READDIR3resok
  PROVE  Spec => []PageMeasured
<1>1. Spec => [](TypeOK /\ OnItsWay)
  BY OnItsWayHolds
<1>2. TypeOK /\ OnItsWay => PageMeasured
  <2> SUFFICES ASSUME TypeOK, OnItsWay, message = "READDIR3resok",
                      phase = "sent", fate = "whole"
               PROVE  LET attributesFollow == value[1][1]
                          size == READDIRRESOKSIZE + EntriesSize(value[3][1])
                      IN  IF attributesFollow THEN Len(stream) = size
                          ELSE Len(stream) <= size
    BY DEF PageMeasured
  <2> DEFINE d == Depth(value)
  <2>1. Has(Type(message), value, <<>>, message = "Mountbody", d)
    BY ValuesAssumption DEF TypeOK, OnItsWay
  <2>2. (message = "Mountbody") = FALSE
    OBVIOUS
  <2>3. Has(READDIR3resok, value, <<>>, FALSE, d)
    BY <2>1, <2>2
  <2>4. Len(stream) = Length(READDIR3resok, value, <<>>)
    BY DEF OnItsWay, Sending, Length
  <2> HIDE DEF d
  <2> QED BY <2>3, <2>4, PageLength
<1> QED BY <1>1, <1>2, PTL
=============================================================================
