---------------------------- MODULE DirScanProofs -----------------------------
(***************************************************************************)
(* A scan with READDIR misses at most one entry for each that is removed,  *)
(* and gives at most one twice for each that is added: for any directory,  *)
(* any sizes and limits, any number of changes and of lost replies.        *)
(*                                                                         *)
(* A cookie is a position in a list that shifts.  The invariant counts, on *)
(* both sides of every position the reply under way may end at, the names  *)
(* that are on the wrong one.                                              *)
(***************************************************************************)
EXTENDS DirScan, TLAPS, SequenceTheorems, FiniteSetTheorems

\* The names of a sequence up to a position, after one, and between two.
Upto(s, m) == {s[j] : j \in {j \in DOMAIN s : j <= m}}
Beyond(s, m) == {s[j] : j \in {j \in DOMAIN s : j > m}}
Between(s, i, m) == {s[j] : j \in {j \in DOMAIN s : i < j /\ j <= m}}

\* The list a READDIR makes now, as far as no Lstat fails.
All == dir \o Dots

\* What the scan has to give, and what the reply under way gives if it ends at
\* the position m.
Awaited == IF scan.nodots THEN scan.there \ ToSet(Dots) ELSE scan.there
Page(m) == Between(call.entries, cookie.sent, m)

\* If the next call goes on after m, these are missed, ...
Missed(m) == (Awaited \cap Upto(All, m)) \ (ToSet(listed) \cup Page(m))

\* ... and so many are given twice: some were by now, some are in the page, and
\* some are yet to come.
Twice(m) ==
  (Len(listed) - Cardinality(ToSet(listed)))
    + Cardinality(ToSet(listed) \cap Page(m))
    + Cardinality((ToSet(listed) \cup Page(m)) \cap Beyond(All, m))

\* The directory was listed for the call, which may end anywhere after the
\* cookie; before that, and when the reply is lost, the client is at the cookie.
Listed == call.pc \in {"fill", "nil", "reply"}
Positions == IF Listed THEN cookie.sent .. MaxEntries ELSE {cookie.sent}

Pages == [entries : Listings, next : Cookies, eof : BOOLEAN]
Calls ==
  [pc : {"idle", "list", "fill", "nil", "reply"}, cookie : Cookies,
   limit : Nat, entries : Listings, page : Pages]
Scans ==
  [there : SUBSET AllNames, added : Nat, removed : Nat, nodots : BOOLEAN]

Types ==
  /\ dir \in Seq(Names) /\ IsInjective(dir)
  /\ changes \in 0 .. MaxChanges /\ lost \in 0 .. MaxLost
  /\ server \in {"up", "down"} /\ eof \in BOOLEAN
  /\ listed \in Listings /\ call \in Calls /\ cookie \in Cookies
  /\ scan \in Scans
  /\ \A c \in {cookie, call.cookie, call.page.next} : c.sent <= c.count

HostOK ==
  /\ scan.there \subseteq ToSet(All)
  /\ changes = scan.added + scan.removed
  /\ Len(dir) + scan.removed = Len(InitDir) + scan.added

CallOK ==
  /\ call.pc # "idle" => ~eof /\ call.cookie = cookie
  /\ Listed \/ call.entries = <<>>
  /\ IsInjective(call.entries) /\ Len(call.entries) <= MaxEntries
  /\ call.pc = "reply" =>
       LET m == call.page.next.sent IN
       /\ m \in Positions /\ (m = cookie.sent \/ m <= Len(call.entries))
       /\ call.page.entries = SubSeq(call.entries, cookie.sent + 1, m)
       /\ call.page.eof => m >= Len(call.entries)

CountOK ==
  /\ \A m \in Positions :
       Cardinality(Missed(m)) <= scan.removed /\ Twice(m) <= scan.added
  /\ eof => Cardinality(Awaited \ ToSet(listed)) <= scan.removed

IInv == Types /\ HostOK /\ CallOK /\ CountOK

-----------------------------------------------------------------------------
(* Sequences. *)

\* The names of a sequence are finite, and as many as it is long if no name is
\* there twice.
LEMMA NamesFinite ==
  ASSUME NEW S, NEW s \in Seq(S)
  PROVE  /\ ToSet(s) \subseteq S /\ IsFiniteSet(ToSet(s))
         /\ Cardinality(ToSet(s)) \in Nat /\ Cardinality(ToSet(s)) <= Len(s)
         /\ IsInjective(s) => Cardinality(ToSet(s)) = Len(s)
<1>1. s \in [1 .. Len(s) -> S] /\ DOMAIN s = 1 .. Len(s) /\ Len(s) \in Nat
  OBVIOUS
<1>2. s \in Surjection(1 .. Len(s), ToSet(s))
  BY <1>1 DEF Surjection, ToSet
<1>3. IsFiniteSet(1 .. Len(s)) /\ Cardinality(1 .. Len(s)) = Len(s)
  <2>1. /\ IsFiniteSet(1 .. Len(s))
        /\ Cardinality(1 .. Len(s)) =
             IF 1 > Len(s) THEN 0 ELSE Len(s) - 1 + 1
    BY <1>1, FS_Interval
  <2>2. (IF 1 > Len(s) THEN 0 ELSE Len(s) - 1 + 1) = Len(s)
    BY <1>1
  <2>3. QED
    BY <2>1, <2>2
<1>4. /\ IsFiniteSet(ToSet(s)) /\ Cardinality(ToSet(s)) <= Len(s)
      /\ (Cardinality(ToSet(s)) = Len(s) <=>
            s \in Injection(1 .. Len(s), ToSet(s)))
  BY <1>2, <1>3, FS_Surjection
<1>5. Cardinality(ToSet(s)) \in Nat
  BY <1>4, FS_CardinalityType
<1>6. ToSet(s) \subseteq S
  BY <1>1 DEF ToSet
<1>7. ASSUME IsInjective(s)
      PROVE  s \in Injection(1 .. Len(s), ToSet(s))
  BY <1>1, <1>2, <1>7 DEF IsInjective, Injection, Surjection
<1>8. QED
  BY <1>4, <1>5, <1>6, <1>7

\* A set with at most one more has at most one more.
LEMMA OneMore ==
  ASSUME NEW S, NEW T, NEW x, IsFiniteSet(S), T \subseteq S \cup {x}
  PROVE  /\ IsFiniteSet(T) /\ Cardinality(T) \in Nat /\ Cardinality(S) \in Nat
         /\ Cardinality(T) <= Cardinality(S) + 1
<1>1. /\ IsFiniteSet(S \cup {x})
      /\ Cardinality(S \cup {x}) =
           IF x \in S THEN Cardinality(S) ELSE Cardinality(S) + 1
  BY FS_AddElement
<1>2. IsFiniteSet(T) /\ Cardinality(T) <= Cardinality(S \cup {x})
  BY <1>1, FS_Subset
<1>3. Cardinality(S) \in Nat /\ Cardinality(T) \in Nat
  BY <1>2, FS_CardinalityType
<1>4. Cardinality(S \cup {x}) <= Cardinality(S) + 1
  BY <1>1, <1>3
<1>5. Cardinality(S \cup {x}) \in Nat
  BY <1>1, FS_CardinalityType
<1>6. QED
  BY <1>2, <1>3, <1>4, <1>5

LEMMA NoMore ==
  ASSUME NEW S, NEW T, IsFiniteSet(S), T \subseteq S
  PROVE  /\ IsFiniteSet(T) /\ Cardinality(T) \in Nat /\ Cardinality(S) \in Nat
         /\ Cardinality(T) <= Cardinality(S)
  BY FS_Subset, FS_CardinalityType
-----------------------------------------------------------------------------
(* An entry that comes and one that goes. *)

\* t is s with x at the position k; s without its k-th.
Inserted(s, t, k, x) ==
  /\ Len(t) = Len(s) + 1 /\ k \in 1 .. Len(t)
  /\ \A j \in 1 .. Len(t) :
       /\ j < k => j \in 1 .. Len(s) /\ t[j] = s[j]
       /\ j = k => t[j] = x
       /\ j > k => j - 1 \in 1 .. Len(s) /\ t[j] = s[j - 1]
Removed(s, t, k) ==
  /\ Len(s) = Len(t) + 1 /\ k \in 1 .. Len(s)
  /\ \A j \in 1 .. Len(t) :
       /\ j < k => j \in 1 .. Len(s) /\ t[j] = s[j]
       /\ j >= k => j + 1 \in 1 .. Len(s) /\ t[j] = s[j + 1]

LEMMA ConcatAt ==
  ASSUME NEW S, NEW s \in Seq(S), NEW t \in Seq(S)
  PROVE  /\ s \o t \in Seq(S) /\ Len(s \o t) = Len(s) + Len(t)
         /\ \A j \in 1 .. Len(s) : (s \o t)[j] = s[j]
         /\ \A j \in 1 .. Len(t) : (s \o t)[Len(s) + j] = t[j]
<1>1. Len(s) \in Nat /\ Len(t) \in Nat
  OBVIOUS
<1>2. /\ s \o t \in Seq(S) /\ Len(s \o t) = Len(s) + Len(t)
      /\ \A i \in 1 .. Len(s) + Len(t) :
           (s \o t)[i] = IF i <= Len(s) THEN s[i] ELSE t[i - Len(s)]
  BY ConcatProperties
<1>3. ASSUME NEW j \in 1 .. Len(s)
      PROVE  (s \o t)[j] = s[j]
  <2>1. j \in 1 .. Len(s) + Len(t) /\ j <= Len(s)
    BY <1>1
  <2>2. QED
    BY <1>2, <2>1
<1>4. ASSUME NEW j \in 1 .. Len(t)
      PROVE  (s \o t)[Len(s) + j] = t[j]
  <2>1. Len(s) + j \in 1 .. Len(s) + Len(t) /\ ~(Len(s) + j <= Len(s))
        /\ (Len(s) + j) - Len(s) = j
    BY <1>1
  <2>2. QED
    BY <1>2, <2>1
<1>5. QED
  BY <1>2, <1>3, <1>4

\* A piece of a sequence that lies within it.
LEMMA PieceAt ==
  ASSUME NEW S, NEW s \in Seq(S), NEW m \in Nat, NEW n \in Nat,
         m >= 1, n <= Len(s), m <= n + 1
  PROVE  /\ SubSeq(s, m, n) \in Seq(S) /\ Len(SubSeq(s, m, n)) = n - m + 1
         /\ \A j \in 1 .. n - m + 1 : SubSeq(s, m, n)[j] = s[m + j - 1]
<1>1. \A j \in m .. n : s[j] \in S
  OBVIOUS
<1>2. /\ SubSeq(s, m, n) \in Seq(S)
      /\ Len(SubSeq(s, m, n)) = IF m <= n THEN n - m + 1 ELSE 0
      /\ \A j \in 1 .. n - m + 1 : SubSeq(s, m, n)[j] = s[m + j - 1]
  BY <1>1, SubSeqProperties
<1>3. (IF m <= n THEN n - m + 1 ELSE 0) = n - m + 1
  OBVIOUS
<1>4. QED
  BY <1>2, <1>3

LEMMA InsertedAt ==
  ASSUME NEW S, NEW s \in Seq(S), NEW k \in 1 .. Len(s) + 1, NEW x \in S
  PROVE  InsertAt(s, k, x) \in Seq(S) /\ Inserted(s, InsertAt(s, k, x), k, x)
<1> DEFINE u == SubSeq(s, 1, k - 1)
           v == SubSeq(s, k, Len(s))
           t == (u \o <<x>>) \o v
<1>1. Len(s) \in Nat /\ k \in Nat /\ k - 1 \in Nat
  OBVIOUS
<1>2. /\ u \in Seq(S) /\ Len(u) = k - 1
      /\ \A j \in 1 .. k - 1 : u[j] = s[j]
  <2>1. /\ u \in Seq(S) /\ Len(u) = (k - 1) - 1 + 1
        /\ \A j \in 1 .. (k - 1) - 1 + 1 : u[j] = s[1 + j - 1]
    BY <1>1, PieceAt
  <2>2. (k - 1) - 1 + 1 = k - 1 /\ \A j \in 1 .. k - 1 : 1 + j - 1 = j
    BY <1>1
  <2>3. QED
    BY <2>1, <2>2
<1>3. /\ v \in Seq(S) /\ Len(v) = Len(s) - k + 1
      /\ \A j \in 1 .. Len(s) - k + 1 : v[j] = s[k + j - 1]
  BY <1>1, PieceAt
<1>4. <<x>> \in Seq(S) /\ Len(<<x>>) = 1 /\ <<x>>[1] = x
  OBVIOUS
<1> HIDE DEF u, v
<1> DEFINE w == u \o <<x>>
<1>5. /\ w \in Seq(S) /\ Len(w) = k
      /\ \A j \in 1 .. k - 1 : w[j] = s[j]
      /\ w[k] = x
  <2>1. /\ u \o <<x>> \in Seq(S) /\ Len(u \o <<x>>) = Len(u) + Len(<<x>>)
        /\ \A j \in 1 .. Len(u) : (u \o <<x>>)[j] = u[j]
        /\ \A j \in 1 .. Len(<<x>>) : (u \o <<x>>)[Len(u) + j] = <<x>>[j]
    BY <1>2, <1>4, ConcatAt
  <2>2. (u \o <<x>>)[Len(u) + 1] = x
    BY <1>4, <2>1
  <2>3. Len(u) + 1 = k
    BY <1>1, <1>2
  <2>4. QED
    BY <1>2, <1>4, <2>1, <2>2, <2>3
<1> HIDE DEF w
<1>6. /\ w \o v \in Seq(S) /\ Len(w \o v) = Len(w) + Len(v)
      /\ \A j \in 1 .. Len(w) : (w \o v)[j] = w[j]
      /\ \A j \in 1 .. Len(v) : (w \o v)[Len(w) + j] = v[j]
  <2>1. w \in Seq(S) /\ v \in Seq(S)
    BY <1>3, <1>5
  <2>2. QED
    BY <2>1, ConcatAt
<1>7. Len(w \o v) = Len(s) + 1
  BY <1>1, <1>3, <1>5, <1>6
<1>8. ASSUME NEW j \in 1 .. Len(w \o v)
      PROVE  /\ j < k => j \in 1 .. Len(s) /\ (w \o v)[j] = s[j]
             /\ j = k => (w \o v)[j] = x
             /\ j > k => j - 1 \in 1 .. Len(s) /\ (w \o v)[j] = s[j - 1]
  <2>1. CASE j < k
    <3>1. j \in 1 .. Len(w) /\ j \in 1 .. k - 1 /\ j \in 1 .. Len(s)
      BY <1>1, <1>5, <1>7, <2>1
    <3>2. (w \o v)[j] = s[j]
      BY <1>5, <1>6, <3>1
    <3>3. QED
      BY <1>1, <2>1, <3>1, <3>2
  <2>2. CASE j = k
    <3>1. j \in 1 .. Len(w)
      BY <1>1, <1>5, <2>2
    <3>2. (w \o v)[j] = x
      BY <1>5, <1>6, <2>2, <3>1
    <3>3. QED
      BY <1>1, <2>2, <3>2
  <2>3. CASE j > k
    <3>1. j - k \in 1 .. Len(v) /\ Len(w) + (j - k) = j
          /\ k + (j - k) - 1 = j - 1 /\ j - 1 \in 1 .. Len(s)
      BY <1>1, <1>3, <1>5, <1>7, <2>3
    <3>2. (w \o v)[j] = v[j - k] /\ v[j - k] = s[j - 1]
      BY <1>3, <1>6, <3>1
    <3>3. QED
      BY <1>1, <2>3, <3>1, <3>2
  <2>4. QED
    BY <1>1, <1>7, <2>1, <2>2, <2>3
<1>9. k \in 1 .. Len(w \o v)
  BY <1>1, <1>7
<1>10. InsertAt(s, k, x) = w \o v
  BY DEF InsertAt, u, v, w
<1>11. QED
  BY <1>6, <1>7, <1>8, <1>9, <1>10 DEF Inserted

LEMMA RemovedAt ==
  ASSUME NEW S, NEW s \in Seq(S), NEW k \in 1 .. Len(s)
  PROVE  RemoveAt(s, k) \in Seq(S) /\ Removed(s, RemoveAt(s, k), k)
<1> DEFINE u == SubSeq(s, 1, k - 1)
           v == SubSeq(s, k + 1, Len(s))
<1>1. Len(s) \in Nat /\ k \in Nat /\ k - 1 \in Nat /\ k + 1 \in Nat
  OBVIOUS
<1>2. /\ u \in Seq(S) /\ Len(u) = k - 1
      /\ \A j \in 1 .. k - 1 : u[j] = s[j]
  <2>1. /\ u \in Seq(S) /\ Len(u) = (k - 1) - 1 + 1
        /\ \A j \in 1 .. (k - 1) - 1 + 1 : u[j] = s[1 + j - 1]
    BY <1>1, PieceAt
  <2>2. (k - 1) - 1 + 1 = k - 1 /\ \A j \in 1 .. k - 1 : 1 + j - 1 = j
    BY <1>1
  <2>3. QED
    BY <2>1, <2>2
<1>3. /\ v \in Seq(S) /\ Len(v) = Len(s) - k
      /\ \A j \in 1 .. Len(s) - k : v[j] = s[k + j]
  <2>1. /\ v \in Seq(S) /\ Len(v) = Len(s) - (k + 1) + 1
        /\ \A j \in 1 .. Len(s) - (k + 1) + 1 : v[j] = s[(k + 1) + j - 1]
    BY <1>1, PieceAt
  <2>2. Len(s) - (k + 1) + 1 = Len(s) - k
        /\ \A j \in 1 .. Len(s) - k : (k + 1) + j - 1 = k + j
    BY <1>1
  <2>3. QED
    BY <2>1, <2>2
<1> HIDE DEF u, v
<1>4. /\ u \o v \in Seq(S) /\ Len(u \o v) = Len(u) + Len(v)
      /\ \A j \in 1 .. Len(u) : (u \o v)[j] = u[j]
      /\ \A j \in 1 .. Len(v) : (u \o v)[Len(u) + j] = v[j]
  <2>1. u \in Seq(S) /\ v \in Seq(S)
    BY <1>2, <1>3
  <2>2. QED
    BY <2>1, ConcatAt
<1>5. Len(s) = Len(u \o v) + 1 /\ Len(u \o v) \in Nat
  BY <1>1, <1>2, <1>3, <1>4
<1>6. ASSUME NEW j \in 1 .. Len(u \o v)
      PROVE  /\ j < k => j \in 1 .. Len(s) /\ (u \o v)[j] = s[j]
             /\ j >= k => j + 1 \in 1 .. Len(s) /\ (u \o v)[j] = s[j + 1]
  <2>1. CASE j < k
    <3>1. j \in 1 .. Len(u) /\ j \in 1 .. k - 1 /\ j \in 1 .. Len(s)
      BY <1>1, <1>2, <1>5, <2>1
    <3>2. (u \o v)[j] = s[j]
      BY <1>2, <1>4, <3>1
    <3>3. QED
      BY <1>1, <2>1, <3>1, <3>2
  <2>2. CASE j >= k
    <3>1. j - k + 1 \in 1 .. Len(v) /\ Len(u) + (j - k + 1) = j
          /\ k + (j - k + 1) = j + 1 /\ j + 1 \in 1 .. Len(s)
      BY <1>1, <1>2, <1>3, <1>5, <2>2
    <3>2. (u \o v)[j] = v[j - k + 1] /\ v[j - k + 1] = s[j + 1]
      BY <1>3, <1>4, <3>1
    <3>3. QED
      BY <1>1, <2>2, <3>1, <3>2
  <2>3. QED
    BY <1>1, <1>5, <2>1, <2>2
<1>7. RemoveAt(s, k) = u \o v
  BY DEF RemoveAt, u, v
<1>8. QED
  BY <1>4, <1>5, <1>6, <1>7 DEF Removed
-----------------------------------------------------------------------------
\* The same with "." and ".." behind them.
LEMMA InsertedMore ==
  ASSUME NEW S, NEW s \in Seq(S), NEW t \in Seq(S), NEW k, NEW x,
         Inserted(s, t, k, x), NEW u \in Seq(S)
  PROVE  Inserted(s \o u, t \o u, k, x)
<1>1. /\ Len(s) \in Nat /\ Len(t) \in Nat /\ Len(u) \in Nat
      /\ Len(t) = Len(s) + 1 /\ k \in 1 .. Len(t)
  BY DEF Inserted
<1> DEFINE p == s \o u
           q == t \o u
<1>2. /\ p \in Seq(S) /\ Len(p) = Len(s) + Len(u)
      /\ \A j \in 1 .. Len(s) : p[j] = s[j]
      /\ \A j \in 1 .. Len(u) : p[Len(s) + j] = u[j]
  BY ConcatAt
<1>3. /\ q \in Seq(S) /\ Len(q) = Len(t) + Len(u)
      /\ \A j \in 1 .. Len(t) : q[j] = t[j]
      /\ \A j \in 1 .. Len(u) : q[Len(t) + j] = u[j]
  BY ConcatAt
<1> HIDE DEF p, q
<1>4. ASSUME NEW j \in 1 .. Len(q)
      PROVE  /\ j < k => j \in 1 .. Len(p) /\ q[j] = p[j]
             /\ j = k => q[j] = x
             /\ j > k => j - 1 \in 1 .. Len(p) /\ q[j] = p[j - 1]
  <2>1. CASE j \in 1 .. Len(t)
    <3>1. /\ j < k => j \in 1 .. Len(s) /\ t[j] = s[j]
          /\ j = k => t[j] = x
          /\ j > k => j - 1 \in 1 .. Len(s) /\ t[j] = s[j - 1]
      BY <2>1 DEF Inserted
    <3>2. \A i \in 1 .. Len(s) : i \in 1 .. Len(p)
      BY <1>1, <1>2
    <3>3. QED
      BY <1>2, <1>3, <2>1, <3>1, <3>2
  <2>2. CASE j > Len(t)
    <3>1. /\ j - Len(t) \in 1 .. Len(u) /\ Len(t) + (j - Len(t)) = j
          /\ Len(s) + (j - Len(t)) = j - 1 /\ j > k /\ j - 1 \in 1 .. Len(p)
      BY <1>1, <1>2, <1>3, <2>2
    <3>2. q[j] = u[j - Len(t)] /\ p[j - 1] = u[j - Len(t)]
      BY <1>2, <1>3, <3>1
    <3>3. ~(j < k) /\ j # k
      BY <1>1, <3>1
    <3>4. QED
      BY <3>1, <3>2, <3>3
  <2>3. QED
    BY <1>1, <1>3, <2>1, <2>2
<1>5. Len(q) = Len(p) + 1 /\ k \in 1 .. Len(q)
  BY <1>1, <1>2, <1>3
<1>6. QED
  BY <1>4, <1>5 DEF Inserted, p, q

LEMMA RemovedMore ==
  ASSUME NEW S, NEW s \in Seq(S), NEW t \in Seq(S), NEW k,
         Removed(s, t, k), NEW u \in Seq(S)
  PROVE  Removed(s \o u, t \o u, k)
<1>1. /\ Len(s) \in Nat /\ Len(t) \in Nat /\ Len(u) \in Nat
      /\ Len(s) = Len(t) + 1 /\ k \in 1 .. Len(s)
  BY DEF Removed
<1> DEFINE p == s \o u
           q == t \o u
<1>2. /\ p \in Seq(S) /\ Len(p) = Len(s) + Len(u)
      /\ \A j \in 1 .. Len(s) : p[j] = s[j]
      /\ \A j \in 1 .. Len(u) : p[Len(s) + j] = u[j]
  BY ConcatAt
<1>3. /\ q \in Seq(S) /\ Len(q) = Len(t) + Len(u)
      /\ \A j \in 1 .. Len(t) : q[j] = t[j]
      /\ \A j \in 1 .. Len(u) : q[Len(t) + j] = u[j]
  BY ConcatAt
<1> HIDE DEF p, q
<1>4. ASSUME NEW j \in 1 .. Len(q)
      PROVE  /\ j < k => j \in 1 .. Len(p) /\ q[j] = p[j]
             /\ j >= k => j + 1 \in 1 .. Len(p) /\ q[j] = p[j + 1]
  <2>1. CASE j \in 1 .. Len(t)
    <3>1. /\ j < k => j \in 1 .. Len(s) /\ t[j] = s[j]
          /\ j >= k => j + 1 \in 1 .. Len(s) /\ t[j] = s[j + 1]
      BY <2>1 DEF Removed
    <3>2. \A i \in 1 .. Len(s) : i \in 1 .. Len(p)
      BY <1>1, <1>2
    <3>3. QED
      BY <1>2, <1>3, <2>1, <3>1, <3>2
  <2>2. CASE j > Len(t)
    <3>1. /\ j - Len(t) \in 1 .. Len(u) /\ Len(t) + (j - Len(t)) = j
          /\ Len(s) + (j - Len(t)) = j + 1 /\ j >= k /\ j + 1 \in 1 .. Len(p)
      BY <1>1, <1>2, <1>3, <2>2
    <3>2. q[j] = u[j - Len(t)] /\ p[j + 1] = u[j - Len(t)]
      BY <1>2, <1>3, <3>1
    <3>3. ~(j < k)
      BY <1>1, <3>1
    <3>4. QED
      BY <3>1, <3>2, <3>3
  <2>3. QED
    BY <1>1, <1>3, <2>1, <2>2
<1>5. Len(p) = Len(q) + 1 /\ k \in 1 .. Len(p)
  BY <1>1, <1>2, <1>3
<1>6. QED
  BY <1>4, <1>5 DEF Removed, p, q

\* At most one name comes to either side of a position when an entry comes: it,
\* or the one that it moves across.
LEMMA InsertedSides ==
  ASSUME NEW S, NEW s \in Seq(S), NEW t \in Seq(S), NEW k, NEW x,
         Inserted(s, t, k, x), NEW m \in Nat
  PROVE  /\ Upto(t, m) \subseteq Upto(s, m) \cup {x}
         /\ \E y : Beyond(t, m) \subseteq Beyond(s, m) \cup {y}
         /\ ToSet(s) \subseteq ToSet(t)
<1>1. /\ Len(s) \in Nat /\ Len(t) \in Nat
      /\ DOMAIN s = 1 .. Len(s) /\ DOMAIN t = 1 .. Len(t)
      /\ Len(t) = Len(s) + 1 /\ k \in 1 .. Len(t)
  BY DEF Inserted
<1>2. Upto(t, m) \subseteq Upto(s, m) \cup {x}
  <2> SUFFICES ASSUME NEW j \in 1 .. Len(t), j <= m
               PROVE  t[j] \in Upto(s, m) \cup {x}
    BY <1>1 DEF Upto
  <2>1. CASE j < k
    BY <1>1, <2>1 DEF Inserted, Upto
  <2>2. CASE j = k
    BY <2>2 DEF Inserted
  <2>3. CASE j > k
    <3>1. j - 1 \in 1 .. Len(s) /\ t[j] = s[j - 1] /\ j - 1 <= m
      BY <2>3 DEF Inserted
    <3>2. QED
      BY <1>1, <3>1 DEF Upto
  <2>4. QED
    BY <1>1, <2>1, <2>2, <2>3
<1>3. \E y : Beyond(t, m) \subseteq Beyond(s, m) \cup {y}
  <2> DEFINE y == IF m >= k THEN s[m] ELSE x
  <2> SUFFICES ASSUME NEW j \in 1 .. Len(t), j > m
               PROVE  t[j] \in Beyond(s, m) \cup {y}
    <3>1. Beyond(t, m) \subseteq Beyond(s, m) \cup {y}
      BY <1>1 DEF Beyond
    <3>2. QED
      BY <3>1
  <2>1. CASE j < k
    BY <1>1, <2>1 DEF Inserted, Beyond
  <2>2. CASE j = k
    <3>1. ~(m >= k) /\ t[j] = x
      BY <1>1, <2>2 DEF Inserted
    <3>2. QED
      BY <3>1
  <2>3. CASE j > k /\ j - 1 > m
    <3>1. j - 1 \in 1 .. Len(s) /\ t[j] = s[j - 1]
      BY <2>3 DEF Inserted
    <3>2. QED
      BY <1>1, <2>3, <3>1 DEF Beyond
  <2>4. CASE j > k /\ j - 1 = m
    <3>1. t[j] = s[m] /\ m >= k
      BY <1>1, <2>4 DEF Inserted
    <3>2. QED
      BY <3>1
  <2>5. QED
    BY <1>1, <2>1, <2>2, <2>3, <2>4
<1>4. ToSet(s) \subseteq ToSet(t)
  <2> SUFFICES ASSUME NEW j \in 1 .. Len(s)
               PROVE  s[j] \in ToSet(t)
    BY <1>1 DEF ToSet
  <2>1. CASE j < k
    <3>1. j \in 1 .. Len(t) /\ t[j] = s[j]
      BY <1>1, <2>1 DEF Inserted
    <3>2. QED
      BY <1>1, <3>1 DEF ToSet
  <2>2. CASE j >= k
    <3>1. j + 1 \in 1 .. Len(t) /\ j + 1 > k /\ (j + 1) - 1 = j
      BY <1>1, <2>2
    <3>2. t[j + 1] = s[j]
      BY <3>1 DEF Inserted
    <3>3. QED
      BY <1>1, <3>1, <3>2 DEF ToSet
  <2>3. QED
    BY <1>1, <2>1, <2>2
<1>5. QED
  BY <1>2, <1>3, <1>4

\* When one goes none comes behind a position, and at most one before it.
LEMMA RemovedSides ==
  ASSUME NEW S, NEW s \in Seq(S), NEW t \in Seq(S), NEW k,
         Removed(s, t, k), NEW m \in Nat
  PROVE  /\ \E y : Upto(t, m) \subseteq Upto(s, m) \cup {y}
         /\ Beyond(t, m) \subseteq Beyond(s, m)
         /\ ToSet(s) \ {s[k]} \subseteq ToSet(t)
<1>1. /\ Len(s) \in Nat /\ Len(t) \in Nat
      /\ DOMAIN s = 1 .. Len(s) /\ DOMAIN t = 1 .. Len(t)
      /\ Len(s) = Len(t) + 1 /\ k \in 1 .. Len(s)
  BY DEF Removed
<1>2. \E y : Upto(t, m) \subseteq Upto(s, m) \cup {y}
  <2> SUFFICES ASSUME NEW j \in 1 .. Len(t), j <= m
               PROVE  t[j] \in Upto(s, m) \cup {s[m + 1]}
    <3>1. Upto(t, m) \subseteq Upto(s, m) \cup {s[m + 1]}
      BY <1>1 DEF Upto
    <3>2. QED
      BY <3>1
  <2>1. CASE j < k
    BY <1>1, <2>1 DEF Removed, Upto
  <2>2. CASE j >= k /\ j < m
    <3>1. j + 1 \in 1 .. Len(s) /\ t[j] = s[j + 1] /\ j + 1 <= m
      BY <2>2 DEF Removed
    <3>2. QED
      BY <1>1, <3>1 DEF Upto
  <2>3. CASE j >= k /\ j = m
    BY <2>3 DEF Removed
  <2>4. QED
    BY <1>1, <2>1, <2>2, <2>3
<1>3. Beyond(t, m) \subseteq Beyond(s, m)
  <2> SUFFICES ASSUME NEW j \in 1 .. Len(t), j > m
               PROVE  t[j] \in Beyond(s, m)
    BY <1>1 DEF Beyond
  <2>1. CASE j < k
    BY <1>1, <2>1 DEF Removed, Beyond
  <2>2. CASE j >= k
    <3>1. j + 1 \in 1 .. Len(s) /\ t[j] = s[j + 1] /\ j + 1 > m
      BY <2>2 DEF Removed
    <3>2. QED
      BY <1>1, <3>1 DEF Beyond
  <2>3. QED
    BY <1>1, <2>1, <2>2
<1>4. ToSet(s) \ {s[k]} \subseteq ToSet(t)
  <2> SUFFICES ASSUME NEW j \in 1 .. Len(s), j # k
               PROVE  s[j] \in ToSet(t)
    BY <1>1 DEF ToSet
  <2>1. CASE j < k
    <3>1. j \in 1 .. Len(t) /\ t[j] = s[j]
      BY <1>1, <2>1 DEF Removed
    <3>2. QED
      BY <1>1, <3>1 DEF ToSet
  <2>2. CASE j > k
    <3>1. j - 1 \in 1 .. Len(t) /\ j - 1 >= k /\ (j - 1) + 1 = j
      BY <1>1, <2>2
    <3>2. t[j - 1] = s[j]
      BY <3>1 DEF Removed
    <3>3. QED
      BY <1>1, <3>1, <3>2 DEF ToSet
  <2>3. QED
    BY <1>1, <2>1, <2>2
<1>5. QED
  BY <1>2, <1>3, <1>4

\* No name is there twice after it.
LEMMA InsertedOnce ==
  ASSUME NEW S, NEW s \in Seq(S), NEW t \in Seq(S), NEW k, NEW x,
         Inserted(s, t, k, x), IsInjective(s), x \notin ToSet(s)
  PROVE  IsInjective(t)
<1>1. /\ Len(s) \in Nat /\ Len(t) \in Nat
      /\ DOMAIN s = 1 .. Len(s) /\ DOMAIN t = 1 .. Len(t)
      /\ Len(t) = Len(s) + 1 /\ k \in 1 .. Len(t)
  BY DEF Inserted
\* Where the j-th of t was in s.
<1> DEFINE was(j) == IF j < k THEN j ELSE j - 1
<1>2. ASSUME NEW j \in 1 .. Len(t), j # k
      PROVE  was(j) \in 1 .. Len(s) /\ t[j] = s[was(j)]
  <2>1. CASE j < k
    BY <2>1 DEF Inserted
  <2>2. CASE j > k
    BY <1>1, <2>2 DEF Inserted
  <2>3. QED
    BY <1>1, <1>2, <2>1, <2>2
<1>3. t[k] = x
  BY <1>1 DEF Inserted
<1>4. ASSUME NEW i \in 1 .. Len(t), NEW j \in 1 .. Len(t), t[i] = t[j]
      PROVE  i = j
  <2>1. CASE i # k /\ j # k
    <3>1. s[was(i)] = s[was(j)]
      BY <1>2, <1>4, <2>1
    <3>2. was(i) = was(j)
      BY <1>1, <1>2, <2>1, <3>1 DEF IsInjective
    <3>3. QED
      BY <1>1, <2>1, <3>2
  <2>2. CASE i = k /\ j # k
    BY <1>1, <1>2, <1>3, <1>4, <2>2 DEF ToSet
  <2>3. CASE i # k /\ j = k
    BY <1>1, <1>2, <1>3, <1>4, <2>3 DEF ToSet
  <2>4. QED
    BY <2>1, <2>2, <2>3
<1>5. QED
  BY <1>1, <1>4 DEF IsInjective

LEMMA RemovedOnce ==
  ASSUME NEW S, NEW s \in Seq(S), NEW t \in Seq(S), NEW k,
         Removed(s, t, k), IsInjective(s)
  PROVE  IsInjective(t)
<1>1. /\ Len(s) \in Nat /\ Len(t) \in Nat
      /\ DOMAIN s = 1 .. Len(s) /\ DOMAIN t = 1 .. Len(t)
      /\ Len(s) = Len(t) + 1 /\ k \in 1 .. Len(s)
  BY DEF Removed
<1> DEFINE was(j) == IF j < k THEN j ELSE j + 1
<1>2. ASSUME NEW j \in 1 .. Len(t)
      PROVE  was(j) \in 1 .. Len(s) /\ t[j] = s[was(j)]
  BY <1>1 DEF Removed
<1>3. ASSUME NEW i \in 1 .. Len(t), NEW j \in 1 .. Len(t), t[i] = t[j]
      PROVE  i = j
  <2>1. was(i) = was(j)
    BY <1>1, <1>2, <1>3 DEF IsInjective
  <2>2. QED
    BY <1>1, <2>1
<1>4. QED
  BY <1>1, <1>3 DEF IsInjective
-----------------------------------------------------------------------------
(* How far a page gets. *)

LEMMA MaxIn ==
  ASSUME NEW S \in SUBSET Nat, NEW n \in Nat, \A i \in S : i <= n, S # {}
  PROVE  Max(S) \in S /\ \A i \in S : Max(S) >= i
<1> DEFINE T == {j \in Nat : n - j \in S}
<1>1. T \subseteq Nat /\ T # {}
  <2>1. PICK i \in S : TRUE
    OBVIOUS
  <2>2. n - i \in Nat /\ n - (n - i) = i
    BY <2>1
  <2>3. QED
    BY <2>1, <2>2
<1>2. \E j \in T : \A i \in T : ~(<<i, j>> \in OpToRel(<, Nat))
  <2>1. IsWellFoundedOn(OpToRel(<, Nat), Nat)
    BY NatLessThanWellFounded, Zenon
  <2> DEFINE R == OpToRel(<, Nat)
  <2> HIDE DEF R, T
  <2>2. IsWellFoundedOn(R, Nat)
    BY <2>1, Zenon DEF R
  <2>3. \E j \in T : \A i \in T : ~(<<i, j>> \in R)
    BY <1>1, <2>2, WFMin
  <2>4. QED
    BY <2>3, Zenon DEF R
<1>3. PICK j \in T : \A i \in T : ~(i < j)
  <2> HIDE DEF T
  <2>1. PICK j \in T : \A i \in T : ~(<<i, j>> \in OpToRel(<, Nat))
    BY <1>2, Zenon
  <2>2. ASSUME NEW i \in T, i < j
        PROVE  <<i, j>> \in OpToRel(<, Nat)
    BY <1>1, <2>2, Zenon DEF OpToRel
  <2>3. QED
    BY <2>1, <2>2, Zenon
<1>4. n - j \in S
  OBVIOUS
<1>5. ASSUME NEW i \in S
      PROVE  n - j >= i
  <2>1. n - i \in Nat /\ n - (n - i) = i
    OBVIOUS
  <2>2. n - i \in T
    BY <2>1
  <2>3. ~(n - i < j)
    BY <1>3, <2>2
  <2>4. QED
    BY <2>1, <2>3
<1>6. \E x \in S : \A y \in S : x >= y
  BY <1>4, <1>5
<1>7. QED
  BY <1>6 DEF Max

\* A page ends at the cookie or after it, and within the list.
LEMMA FittingIn ==
  ASSUME NEW entries \in Listings, NEW i \in Nat, NEW limit \in Nat
  PROVE  LET m == Fitting(entries, i, limit) IN
         /\ m \in Nat /\ m >= i
         /\ m = i \/ m <= Len(entries)
<1> DEFINE fits == {m \in i .. Len(entries) :
                      PageSize(entries, i, m) <= limit}
           S == {i} \cup fits
<1>1. Len(entries) \in Nat
  BY DEF Listings
<1> HIDE DEF fits
<1>2. fits \subseteq i .. Len(entries)
  BY DEF fits
<1>3. S \in SUBSET Nat /\ S # {} /\ i + Len(entries) \in Nat
      /\ \A m \in S : m <= i + Len(entries)
  BY <1>1, <1>2
<1>4. Max(S) \in S /\ \A m \in S : Max(S) >= m
  BY <1>3, MaxIn
<1>5. Max(S) \in Nat /\ Max(S) >= i /\ (Max(S) = i \/ Max(S) <= Len(entries))
  <2>1. i \in S
    OBVIOUS
  <2>2. Max(S) >= i
    BY <1>4, <2>1
  <2>3. CASE Max(S) = i
    BY <2>2, <2>3
  <2>4. CASE Max(S) # i
    <3>1. Max(S) \in i .. Len(entries)
      BY <1>2, <1>4, <2>4
    <3>2. QED
      BY <1>1, <2>2, <3>1
  <2>5. QED
    BY <2>3, <2>4
<1>6. Fitting(entries, i, limit) = Max(S)
  BY DEF Fitting, fits
<1>7. QED
  BY <1>5, <1>6
-----------------------------------------------------------------------------
(* The list and the counts. *)

LEMMA SidesWithin ==
  ASSUME NEW s
  PROVE  /\ \A m : /\ Upto(s, m) \subseteq ToSet(s)
                  /\ Beyond(s, m) \subseteq ToSet(s)
         /\ \A i, m : Between(s, i, m) \subseteq ToSet(s)
  BY DEF Upto, Beyond, Between, ToSet

\* Nothing is between a position and itself, and nothing is in no list.
LEMMA NothingBetween ==
  /\ \A s \in Listings, i \in Nat : Between(s, i, i) = {}
  /\ \A i, m : Between(<<>>, i, m) = {}
<1>1. ASSUME NEW s \in Listings, NEW i \in Nat
      PROVE  Between(s, i, i) = {}
  <2>1. DOMAIN s \subseteq Nat
    BY DEF Listings
  <2>2. \A j \in DOMAIN s : ~(i < j /\ j <= i)
    BY <2>1
  <2>3. QED
    BY <2>2 DEF Between
<1>2. DOMAIN <<>> = {}
  OBVIOUS
<1>3. QED
  BY <1>1, <1>2 DEF Between

LEMMA NamesOfBoth ==
  ASSUME NEW S, NEW s \in Seq(S), NEW t \in Seq(S)
  PROVE  ToSet(s \o t) = ToSet(s) \cup ToSet(t)
<1>1. /\ s \o t \in Seq(S) /\ Len(s \o t) = Len(s) + Len(t)
      /\ \A j \in 1 .. Len(s) : (s \o t)[j] = s[j]
      /\ \A j \in 1 .. Len(t) : (s \o t)[Len(s) + j] = t[j]
  BY ConcatAt
<1>2. /\ DOMAIN s = 1 .. Len(s) /\ DOMAIN t = 1 .. Len(t)
      /\ DOMAIN (s \o t) = 1 .. Len(s) + Len(t)
      /\ Len(s) \in Nat /\ Len(t) \in Nat
  BY <1>1
<1> DEFINE u == s \o t
<1> HIDE DEF u
<1>3. ASSUME NEW j \in 1 .. Len(s) + Len(t)
      PROVE  u[j] \in ToSet(s) \cup ToSet(t)
  <2>1. CASE j <= Len(s)
    <3>1. j \in 1 .. Len(s)
      BY <1>2, <2>1
    <3>2. QED
      BY <1>1, <1>2, <3>1 DEF u, ToSet
  <2>2. CASE j > Len(s)
    <3>1. j - Len(s) \in 1 .. Len(t) /\ Len(s) + (j - Len(s)) = j
      BY <1>2, <2>2
    <3>2. u[j] = t[j - Len(s)]
      BY <1>1, <3>1 DEF u
    <3>3. QED
      BY <1>2, <3>1, <3>2 DEF ToSet
  <2>3. QED
    BY <1>2, <2>1, <2>2
<1>4. ASSUME NEW j \in 1 .. Len(s)
      PROVE  s[j] \in ToSet(u)
  <2>1. j \in 1 .. Len(s) + Len(t) /\ u[j] = s[j]
    BY <1>1, <1>2 DEF u
  <2>2. QED
    BY <1>2, <2>1 DEF ToSet, u
<1>5. ASSUME NEW j \in 1 .. Len(t)
      PROVE  t[j] \in ToSet(u)
  <2>1. Len(s) + j \in 1 .. Len(s) + Len(t) /\ u[Len(s) + j] = t[j]
    BY <1>1, <1>2 DEF u
  <2>2. QED
    BY <1>2, <2>1 DEF ToSet, u
<1>6. ToSet(u) \subseteq ToSet(s) \cup ToSet(t)
  BY <1>2, <1>3 DEF ToSet, u
<1>7. ToSet(s) \subseteq ToSet(u) /\ ToSet(t) \subseteq ToSet(u)
  BY <1>2, <1>4, <1>5 DEF ToSet
<1>8. QED
  BY <1>6, <1>7 DEF u

\* Two lists with no name twice and none in common are such a list.
LEMMA BothOnce ==
  ASSUME NEW S, NEW s \in Seq(S), NEW t \in Seq(S),
         IsInjective(s), IsInjective(t), ToSet(s) \cap ToSet(t) = {}
  PROVE  IsInjective(s \o t)
<1>1. /\ s \o t \in Seq(S) /\ Len(s \o t) = Len(s) + Len(t)
      /\ \A j \in 1 .. Len(s) : (s \o t)[j] = s[j]
      /\ \A j \in 1 .. Len(t) : (s \o t)[Len(s) + j] = t[j]
  BY ConcatAt
<1>2. /\ DOMAIN s = 1 .. Len(s) /\ DOMAIN t = 1 .. Len(t)
      /\ DOMAIN (s \o t) = 1 .. Len(s) + Len(t)
      /\ Len(s) \in Nat /\ Len(t) \in Nat
  BY <1>1
<1> DEFINE u == s \o t
<1> HIDE DEF u
<1>3. ASSUME NEW j \in DOMAIN u
      PROVE  \/ j \in 1 .. Len(s) /\ u[j] = s[j] /\ s[j] \in ToSet(s)
             \/ /\ j - Len(s) \in 1 .. Len(t) /\ u[j] = t[j - Len(s)]
                /\ t[j - Len(s)] \in ToSet(t)
  <2>1. CASE j <= Len(s)
    <3>1. j \in 1 .. Len(s)
      BY <1>2, <2>1 DEF u
    <3>2. QED
      BY <1>1, <1>2, <3>1 DEF u, ToSet
  <2>2. CASE j > Len(s)
    <3>1. j - Len(s) \in 1 .. Len(t) /\ Len(s) + (j - Len(s)) = j
      BY <1>2, <2>2 DEF u
    <3>2. u[j] = t[j - Len(s)]
      BY <1>1, <3>1 DEF u
    <3>3. QED
      BY <1>2, <3>1, <3>2 DEF ToSet
  <2>3. QED
    BY <1>2, <2>1, <2>2 DEF u
<1>4. ASSUME NEW i \in DOMAIN u, NEW j \in DOMAIN u, u[i] = u[j]
      PROVE  i = j
  <2>1. CASE i \in 1 .. Len(s) /\ u[i] = s[i] /\ s[i] \in ToSet(s)
    <3>1. j \in 1 .. Len(s) /\ u[j] = s[j]
      BY <1>3, <1>4, <2>1
    <3>2. QED
      BY <1>2, <1>4, <2>1, <3>1 DEF IsInjective
  <2>2. CASE /\ i - Len(s) \in 1 .. Len(t) /\ u[i] = t[i - Len(s)]
             /\ t[i - Len(s)] \in ToSet(t)
    <3>1. j - Len(s) \in 1 .. Len(t) /\ u[j] = t[j - Len(s)]
      BY <1>3, <1>4, <2>2
    <3>2. i - Len(s) = j - Len(s)
      BY <1>2, <1>4, <2>2, <3>1 DEF IsInjective
    <3>3. QED
      BY <1>2, <3>2 DEF u
  <2>3. QED
    BY <1>3, <2>1, <2>2
<1>5. QED
  BY <1>4 DEF IsInjective, u

\* A set with two parts that have nothing in common.
LEMMA TwoParts ==
  ASSUME NEW S, NEW A, NEW C, IsFiniteSet(S), A \subseteq S, C \subseteq S,
         A \cap C = {}
  PROVE  /\ Cardinality(A) \in Nat /\ Cardinality(C) \in Nat
         /\ Cardinality(S) \in Nat
         /\ Cardinality(A) + Cardinality(C) <= Cardinality(S)
<1>1. IsFiniteSet(A) /\ IsFiniteSet(C)
      /\ Cardinality(A) \in Nat /\ Cardinality(C) \in Nat
      /\ Cardinality(S) \in Nat
  BY NoMore
<1>2. Cardinality(A \cup C)
        = Cardinality(A) + Cardinality(C) - Cardinality(A \cap C)
  BY <1>1, FS_Union
<1>3. Cardinality(A \cap C) = 0
  BY FS_EmptySet
<1>4. A \cup C \subseteq S
  OBVIOUS
<1>5. Cardinality(A \cup C) <= Cardinality(S)
  BY <1>4, NoMore
<1>6. QED
  BY <1>1, <1>2, <1>3, <1>5

\* A page between two positions is part of what is behind the first, and has
\* nothing of what is behind the second.
LEMMA PageSides ==
  ASSUME NEW S, NEW s \in Seq(S), IsInjective(s), NEW i \in Nat, NEW m \in Nat,
         i <= m
  PROVE  /\ Between(s, i, m) \cap Beyond(s, m) = {}
         /\ Between(s, i, m) \subseteq Beyond(s, i)
         /\ Beyond(s, m) \subseteq Beyond(s, i)
         /\ Upto(s, m) \subseteq Upto(s, i) \cup Between(s, i, m)
<1>1. DOMAIN s = 1 .. Len(s) /\ DOMAIN s \subseteq Nat
  OBVIOUS
<1>2. \A j, k \in DOMAIN s : s[j] = s[k] => j = k
  BY DEF IsInjective
<1>3. Between(s, i, m) \cap Beyond(s, m) = {}
  <2> SUFFICES ASSUME NEW j \in DOMAIN s, NEW k \in DOMAIN s,
                      j <= m, k > m, s[j] = s[k]
               PROVE  FALSE
    BY DEF Between, Beyond
  <2>1. j = k
    BY <1>2
  <2>2. QED
    BY <1>1, <2>1
<1>4. Between(s, i, m) \subseteq Beyond(s, i)
  BY <1>1 DEF Between, Beyond
<1>5. Beyond(s, m) \subseteq Beyond(s, i)
  BY <1>1 DEF Beyond
<1>6. Upto(s, m) \subseteq Upto(s, i) \cup Between(s, i, m)
  BY <1>1 DEF Upto, Between
<1>7. QED
  BY <1>3, <1>4, <1>5, <1>6

LEMMA DotsType ==
  Dots \in Seq(AllNames) /\ Len(Dots) = 2 /\ MaxEntries \in Nat
  BY DirAssumption DEF AllNames, MaxEntries

\* The list of a directory.
LEMMA ListType ==
  ASSUME NEW d \in Seq(Names), IsInjective(d)
  PROVE  /\ d \in Seq(AllNames) /\ d \o Dots \in Seq(AllNames)
         /\ Len(d \o Dots) = Len(d) + Len(Dots)
         /\ IsInjective(d \o Dots)
         /\ ToSet(d \o Dots) = ToSet(d) \cup ToSet(Dots)
         /\ \A j \in 1 .. Len(d) : (d \o Dots)[j] = d[j]
         /\ \A j \in 1 .. Len(Dots) : (d \o Dots)[Len(d) + j] = Dots[j]
<1>1. d \in Seq(AllNames) /\ Dots \in Seq(AllNames)
  BY DotsType DEF AllNames
<1>2. ToSet(d) \subseteq Names
  BY NamesFinite
<1>3. IsInjective(Dots) /\ ToSet(d) \cap ToSet(Dots) = {}
  BY <1>2, DirAssumption
<1>4. IsInjective(d \o Dots)
  BY <1>1, <1>3, BothOnce
<1>5. ToSet(d \o Dots) = ToSet(d) \cup ToSet(Dots)
  BY <1>1, NamesOfBoth
<1>6. /\ d \o Dots \in Seq(AllNames)
      /\ Len(d \o Dots) = Len(d) + Len(Dots)
      /\ \A j \in 1 .. Len(d) : (d \o Dots)[j] = d[j]
      /\ \A j \in 1 .. Len(Dots) : (d \o Dots)[Len(d) + j] = Dots[j]
  BY <1>1, ConcatAt
<1>7. QED
  BY <1>1, <1>4, <1>5, <1>6

\* A page of a list without "." and ".." has the same names but these.
LEMMA PageWithoutDots ==
  ASSUME NEW d \in Seq(Names), IsInjective(d), NEW i \in Nat, NEW m \in Nat
  PROVE  /\ Between(d, i, m) \subseteq Between(d \o Dots, i, m)
         /\ Between(d \o Dots, i, m) \ ToSet(Dots) \subseteq Between(d, i, m)
<1> DEFINE u == d \o Dots
<1>1. /\ u \in Seq(AllNames) /\ Len(u) = Len(d) + Len(Dots)
      /\ \A j \in 1 .. Len(d) : u[j] = d[j]
      /\ \A j \in 1 .. Len(Dots) : u[Len(d) + j] = Dots[j]
  BY ListType
<1>2. Dots \in Seq(AllNames) /\ Len(Dots) \in Nat /\ Len(d) \in Nat
  BY DotsType
<1> HIDE DEF u
<1>3. DOMAIN u = 1 .. Len(d) + Len(Dots) /\ DOMAIN d = 1 .. Len(d)
      /\ DOMAIN Dots = 1 .. Len(Dots)
  BY <1>1, <1>2
<1>4. Between(d, i, m) \subseteq Between(u, i, m)
  <2> SUFFICES ASSUME NEW j \in 1 .. Len(d), i < j, j <= m
               PROVE  d[j] \in Between(u, i, m)
    BY <1>3 DEF Between
  <2>1. j \in DOMAIN u /\ u[j] = d[j]
    BY <1>1, <1>2, <1>3
  <2>2. QED
    BY <2>1 DEF Between
<1>5. Between(u, i, m) \ ToSet(Dots) \subseteq Between(d, i, m)
  <2> SUFFICES ASSUME NEW j \in DOMAIN u, i < j, j <= m, u[j] \notin ToSet(Dots)
               PROVE  u[j] \in Between(d, i, m)
    BY DEF Between
  <2>1. j <= Len(d)
    <3>1. SUFFICES ASSUME j > Len(d)
                   PROVE  FALSE
      BY <1>2, <1>3
    <3>2. j - Len(d) \in 1 .. Len(Dots) /\ Len(d) + (j - Len(d)) = j
      BY <1>2, <1>3, <3>1
    <3>3. u[j] = Dots[j - Len(d)]
      BY <1>1, <3>2
    <3>4. QED
      BY <1>3, <3>2, <3>3 DEF ToSet
  <2>2. j \in DOMAIN d /\ u[j] = d[j]
    BY <1>1, <1>2, <1>3, <2>1
  <2>3. QED
    BY <2>2 DEF Between
<1>6. QED
  BY <1>4, <1>5 DEF u

\* What is counted can be counted.
LEMMA CountsFinite ==
  ASSUME Types, NEW m
  PROVE  /\ IsFiniteSet(Missed(m)) /\ IsFiniteSet(ToSet(listed) \cap Page(m))
         /\ IsFiniteSet((ToSet(listed) \cup Page(m)) \cap Beyond(All, m))
         /\ IsFiniteSet(ToSet(All)) /\ IsFiniteSet(ToSet(listed))
         /\ Len(listed) \in Nat /\ Cardinality(ToSet(listed)) \in Nat
         /\ scan.added \in Nat /\ scan.removed \in Nat
<1>1. All \in Seq(AllNames)
  BY ListType DEF Types, All
<1>2. IsFiniteSet(ToSet(All)) /\ IsFiniteSet(ToSet(listed))
      /\ Cardinality(ToSet(listed)) \in Nat
  BY <1>1, NamesFinite DEF Types, Listings
<1>3. Missed(m) \subseteq ToSet(All)
  BY SidesWithin DEF Missed
<1>4. (ToSet(listed) \cup Page(m)) \cap Beyond(All, m) \subseteq ToSet(All)
  BY SidesWithin
<1>5. ToSet(listed) \cap Page(m) \subseteq ToSet(listed)
  OBVIOUS
<1>6. /\ IsFiniteSet(Missed(m)) /\ IsFiniteSet(ToSet(listed) \cap Page(m))
      /\ IsFiniteSet((ToSet(listed) \cup Page(m)) \cap Beyond(All, m))
  <2> DEFINE A == ToSet(listed) \cap Page(m)
             B == (ToSet(listed) \cup Page(m)) \cap Beyond(All, m)
  <2> HIDE DEF A, B
  <2>1. A \subseteq ToSet(listed) /\ B \subseteq ToSet(All)
    BY <1>4, <1>5 DEF A, B
  <2>2. IsFiniteSet(Missed(m)) /\ IsFiniteSet(A) /\ IsFiniteSet(B)
    BY <1>2, <1>3, <2>1, NoMore
  <2>3. QED
    BY <2>2 DEF A, B
<1>7. Len(listed) \in Nat /\ scan.added \in Nat /\ scan.removed \in Nat
  BY DEF Types, Scans, Listings
<1>8. QED
  BY <1>2, <1>6, <1>7
-----------------------------------------------------------------------------
(* The steps. *)

LEMMA IdleType ==
  /\ Start \in Cookies /\ Start.sent = 0 /\ Start.count = 0
  /\ <<>> \in Listings /\ NoPage \in Pages /\ NoPage.next = Start
  /\ Idle \in Calls /\ Idle.pc = "idle" /\ Idle.cookie = Start
  /\ Idle.entries = <<>> /\ Idle.page = NoPage
<1>1. Start \in Cookies /\ Start.sent = 0 /\ Start.count = 0
  BY DotsType DEF Start, Cookies
<1>2. <<>> \in Listings /\ NoPage \in Pages /\ NoPage.next = Start
  BY <1>1 DEF Listings, NoPage, Pages
<1>3. Idle \in Calls /\ Idle.pc = "idle" /\ Idle.cookie = Start
      /\ Idle.entries = <<>> /\ Idle.page = NoPage
  BY <1>1, <1>2 DEF Idle, Calls
<1>4. QED
  BY <1>1, <1>2, <1>3

\* The invariant at the start.
LEMMA InitIInv ==
  ASSUME Init
  PROVE  IInv
<1>1. /\ dir = InitDir /\ changes = 0 /\ lost = 0 /\ call = Idle
      /\ server = "up" /\ cookie = Start /\ listed = <<>> /\ eof = FALSE
      /\ scan = [there |-> ToSet(InitDir \o Dots), added |-> 0, removed |-> 0,
                 nodots |-> FALSE]
  BY DEF Init
<1>2. InitDir \in Seq(Names) /\ IsInjective(InitDir)
      /\ Len(InitDir) \in Nat /\ MaxChanges \in Nat /\ MaxLost \in Nat
  BY DirAssumption
<1>3. /\ All = InitDir \o Dots /\ All \in Seq(AllNames)
      /\ ToSet(All) \subseteq AllNames
  BY <1>1, <1>2, ListType, NamesFinite DEF All
<1>4. Start \in Cookies /\ Start.sent = 0 /\ Start.count = 0
  BY IdleType
<1>5. <<>> \in Listings /\ NoPage \in Pages
      /\ NoPage.next = Start
  BY IdleType
<1>6. Idle \in Calls /\ Idle.pc = "idle" /\ Idle.cookie = Start
      /\ Idle.entries = <<>> /\ Idle.page = NoPage
  BY IdleType
<1>7. scan \in Scans
  BY <1>1, <1>3 DEF Scans
<1>8. Types
  <2>1. dir \in Seq(Names) /\ IsInjective(dir)
    BY <1>1, <1>2
  <2>2. changes \in 0 .. MaxChanges /\ lost \in 0 .. MaxLost
    BY <1>1, <1>2
  <2>3. server \in {"up", "down"} /\ eof \in BOOLEAN /\ listed \in Listings
    BY <1>1, <1>5
  <2>4. call \in Calls /\ cookie \in Cookies
    BY <1>1, <1>4, <1>6
  <2>5. cookie = Start /\ call.cookie = Start /\ call.page.next = Start
    BY <1>1, <1>5, <1>6
  <2>6. \A c \in {cookie, call.cookie, call.page.next} : c.sent <= c.count
    BY <1>4, <2>5
  <2>7. QED
    BY <1>7, <2>1, <2>2, <2>3, <2>4, <2>6 DEF Types
<1>9. HostOK
  BY <1>1, <1>2, <1>3 DEF HostOK
<1>10. CallOK
  BY <1>1, <1>6, DotsType DEF CallOK, Listed, IsInjective
<1>11. CountOK
  <2>1. Positions = {0}
    BY <1>1, <1>4, <1>6 DEF Positions, Listed
  <2>2. ToSet(listed) = {} /\ Len(listed) = 0
    BY <1>1 DEF ToSet
  <2>3. Upto(All, 0) = {}
    BY <1>3 DEF Upto
  <2>4. Page(0) = {}
    BY <1>1, <1>6, NothingBetween DEF Page
  <2>5. Missed(0) = {}
    BY <2>3 DEF Missed
  <2>6. Cardinality(Missed(0)) = 0
    BY <2>5, FS_EmptySet
  <2>7. Twice(0) = 0
    <3>1. ToSet(listed) \cap Page(0) = {}
          /\ (ToSet(listed) \cup Page(0)) \cap Beyond(All, 0) = {}
      BY <2>2, <2>4
    <3>2. QED
      BY <2>2, <3>1, FS_EmptySet DEF Twice
  <2>8. QED
    BY <1>1, <2>1, <2>6, <2>7 DEF CountOK
<1>12. QED
  BY <1>8, <1>9, <1>10, <1>11 DEF IInv

\* An entry comes: at most one name that was given is to be given again.
LEMMA AddEntryStep ==
  ASSUME IInv, AddEntry
  PROVE  IInv'
<1>1. PICK x \in Names \ ToSet(dir), k \in 1 .. Len(dir) + 1 :
        dir' = InsertAt(dir, k, x)
  BY DEF AddEntry
<1>2. /\ changes < MaxChanges /\ changes' = changes + 1
      /\ scan' = [scan EXCEPT !.added = @ + 1]
      /\ UNCHANGED <<lost, call, server, cookie, listed, eof>>
  BY DEF AddEntry, client
<1>3. Types /\ HostOK /\ CallOK /\ CountOK
  BY DEF IInv
<1>4. dir \in Seq(Names) /\ IsInjective(dir) /\ scan \in Scans
      /\ changes \in 0 .. MaxChanges /\ MaxChanges \in Nat
  BY <1>3, DirAssumption DEF Types
<1>5. dir' \in Seq(Names) /\ Inserted(dir, dir', k, x)
  BY <1>1, <1>4, InsertedAt
<1>6. IsInjective(dir')
  BY <1>1, <1>4, <1>5, InsertedOnce
<1>7. /\ dir \in Seq(AllNames) /\ dir' \in Seq(AllNames)
      /\ Dots \in Seq(AllNames)
  BY <1>4, <1>5, DotsType DEF AllNames
<1>8. /\ All \in Seq(AllNames) /\ All' \in Seq(AllNames)
      /\ Inserted(All, All', k, x)
      /\ ToSet(All) = ToSet(dir) \cup ToSet(Dots)
  <2>1. All \in Seq(AllNames) /\ ToSet(All) = ToSet(dir) \cup ToSet(Dots)
    BY <1>4, ListType DEF All
  <2>2. dir' \o Dots \in Seq(AllNames)
    BY <1>5, <1>6, ListType
  <2>3. Inserted(dir \o Dots, dir' \o Dots, k, x)
    BY <1>5, <1>7, InsertedMore
  <2>4. QED
    BY <2>1, <2>2, <2>3 DEF All
<1>9. /\ scan' \in Scans /\ scan'.there = scan.there
      /\ scan'.added = scan.added + 1 /\ scan'.removed = scan.removed
      /\ scan'.nodots = scan.nodots
  BY <1>2, <1>4 DEF Scans
<1>10. Types'
  BY <1>2, <1>3, <1>4, <1>5, <1>6, <1>9 DEF Types
<1>11. /\ \A m \in Nat : Upto(All', m) \subseteq Upto(All, m) \cup {x}
       /\ \A m \in Nat :
            \E y : Beyond(All', m) \subseteq Beyond(All, m) \cup {y}
       /\ ToSet(All) \subseteq ToSet(All')
  <2>1. ASSUME NEW m \in Nat
        PROVE  /\ Upto(All', m) \subseteq Upto(All, m) \cup {x}
               /\ \E y : Beyond(All', m) \subseteq Beyond(All, m) \cup {y}
               /\ ToSet(All) \subseteq ToSet(All')
    BY <1>8, InsertedSides
  <2>2. ToSet(All) \subseteq ToSet(All')
    BY <2>1
  <2>3. QED
    BY <2>1, <2>2
<1>12. HostOK'
  <2>1. Len(dir') = Len(dir) + 1 /\ Len(dir) \in Nat /\ Len(dir') \in Nat
    BY <1>4, <1>5 DEF Inserted
  <2>2. scan'.there \subseteq ToSet(All')
    BY <1>3, <1>9, <1>11 DEF HostOK
  <2>3. /\ changes' = scan'.added + scan'.removed
        /\ Len(dir') + scan'.removed = Len(InitDir) + scan'.added
    <3>1. /\ changes = scan.added + scan.removed
          /\ Len(dir) + scan.removed = Len(InitDir) + scan.added
      BY <1>3 DEF HostOK
    <3>2. scan.added \in Nat /\ scan.removed \in Nat /\ Len(InitDir) \in Nat
      BY <1>4, DirAssumption DEF Scans
    <3>3. scan'.added = scan.added + 1 /\ scan'.removed = scan.removed
      BY <1>9
    <3>4. changes' = scan'.added + scan'.removed
      BY <1>2, <3>1, <3>2, <3>3
    <3>5. Len(dir') + scan'.removed = Len(InitDir) + scan'.added
      <4> DEFINE n == Len(dir)
                 o == Len(dir')
                 z == Len(InitDir)
                 a == scan.added
                 r == scan.removed
      <4>1. n \in Nat /\ o \in Nat /\ z \in Nat /\ a \in Nat /\ r \in Nat
            /\ n + r = z + a
        BY <2>1, <3>1, <3>2
      <4>2. o = n + 1
        BY <2>1
      <4> HIDE DEF n, o, z, a, r
      <4>3. o + r = z + (a + 1)
        BY <4>1, <4>2
      <4>4. QED
        BY <3>3, <4>3 DEF o, z, a, r
    <3>6. QED
      BY <3>4, <3>5
  <2>4. QED
    BY <2>2, <2>3 DEF HostOK
<1>13. Positions' = Positions /\ Listed' = Listed /\ Awaited' = Awaited
       /\ \A m : Page(m)' = Page(m)
  BY <1>2, <1>9 DEF Positions, Listed, Awaited, Page
<1>14. CallOK'
  BY <1>2, <1>3, <1>13 DEF CallOK
<1>15. x \notin Awaited
  <2>1. x \notin ToSet(Dots)
    BY <1>1, DirAssumption
  <2>2. x \notin scan.there
    BY <1>1, <1>3, <1>8, <2>1 DEF HostOK
  <2>3. QED
    BY <2>2 DEF Awaited
<1>16. Positions \subseteq Nat
  BY <1>3 DEF Types, Positions, Cookies
<1>17. ASSUME NEW m \in Positions
       PROVE  Cardinality(Missed(m)') <= scan'.removed
              /\ Twice(m)' <= scan'.added
  <2>1. Missed(m)' \subseteq Missed(m)
    BY <1>2, <1>11, <1>13, <1>15, <1>16 DEF Missed
  <2>2. Cardinality(Missed(m)') <= Cardinality(Missed(m))
        /\ Cardinality(Missed(m)') \in Nat /\ Cardinality(Missed(m)) \in Nat
    BY <1>3, <2>1, CountsFinite, NoMore
  <2> DEFINE A == ToSet(listed) \cap Page(m)
             B == (ToSet(listed) \cup Page(m)) \cap Beyond(All, m)
             C == (ToSet(listed) \cup Page(m)) \cap Beyond(All', m)
             n == Len(listed) - Cardinality(ToSet(listed))
  <2>3. PICK y : C \subseteq B \cup {y}
    <3>1. PICK y : Beyond(All', m) \subseteq Beyond(All, m) \cup {y}
      BY <1>11, <1>16
    <3>2. C \subseteq B \cup {y}
      BY <3>1
    <3>3. QED
      BY <3>2
  <2>4. /\ Twice(m) = n + Cardinality(A) + Cardinality(B)
        /\ Twice(m)' = n + Cardinality(A) + Cardinality(C)
    BY <1>2, <1>13 DEF Twice
  <2>5. IsFiniteSet(A) /\ IsFiniteSet(B) /\ n \in Int
    <3>1. /\ IsFiniteSet(ToSet(listed) \cap Page(m))
          /\ IsFiniteSet((ToSet(listed) \cup Page(m)) \cap Beyond(All, m))
          /\ Len(listed) \in Nat /\ Cardinality(ToSet(listed)) \in Nat
      BY <1>3, CountsFinite
    <3>2. QED
      BY <3>1
  <2> HIDE DEF A, B, C, n
  <2>6. Cardinality(C) <= Cardinality(B) + 1 /\ Cardinality(A) \in Nat
        /\ Cardinality(B) \in Nat /\ Cardinality(C) \in Nat
    BY <2>3, <2>5, OneMore, FS_CardinalityType
  <2>7. Twice(m) <= scan.added /\ Cardinality(Missed(m)) <= scan.removed
        /\ scan.added \in Nat /\ scan.removed \in Nat
    BY <1>3, CountsFinite DEF CountOK
  <2>8. Cardinality(Missed(m)') <= scan.removed
    BY <2>2, <2>7
  <2>9. Twice(m)' <= scan.added + 1
    <3>1. n + Cardinality(A) + Cardinality(B) <= scan.added
      BY <2>4, <2>7
    <3>2. n + Cardinality(A) + Cardinality(C) <= scan.added + 1
      BY <2>5, <2>6, <2>7, <3>1
    <3>3. QED
      BY <2>4, <3>2
  <2>10. QED
    BY <1>9, <2>8, <2>9
<1>18. CountOK'
  BY <1>2, <1>3, <1>9, <1>13, <1>17 DEF CountOK
<1>19. QED
  BY <1>10, <1>12, <1>14, <1>18 DEF IInv
-----------------------------------------------------------------------------
\* An entry goes: at most one name that was yet to be given no longer is.
LEMMA RemoveEntryStep ==
  ASSUME IInv, RemoveEntry
  PROVE  IInv'
<1>1. PICK k \in 1 .. Len(dir) :
        /\ dir' = RemoveAt(dir, k)
        /\ scan' = [scan EXCEPT !.there = @ \ {dir[k]}, !.removed = @ + 1]
  BY DEF RemoveEntry
<1>2. /\ changes < MaxChanges /\ changes' = changes + 1
      /\ UNCHANGED <<lost, call, server, cookie, listed, eof>>
  BY DEF RemoveEntry, client
<1>3. Types /\ HostOK /\ CallOK /\ CountOK
  BY DEF IInv
<1>4. dir \in Seq(Names) /\ IsInjective(dir) /\ scan \in Scans
      /\ changes \in 0 .. MaxChanges /\ MaxChanges \in Nat
  BY <1>3, DirAssumption DEF Types
<1>5. dir' \in Seq(Names) /\ Removed(dir, dir', k)
  BY <1>1, <1>4, RemovedAt
<1>6. IsInjective(dir')
  BY <1>4, <1>5, RemovedOnce
<1>7. /\ dir \in Seq(AllNames) /\ dir' \in Seq(AllNames)
      /\ Dots \in Seq(AllNames)
  BY <1>4, <1>5, DotsType DEF AllNames
<1>8. /\ All \in Seq(AllNames) /\ All' \in Seq(AllNames)
      /\ Removed(All, All', k) /\ All[k] = dir[k]
  <2>1. All \in Seq(AllNames) /\ All[k] = dir[k]
    BY <1>4, ListType DEF All
  <2>2. dir' \o Dots \in Seq(AllNames)
    BY <1>5, <1>6, ListType
  <2>3. Removed(dir \o Dots, dir' \o Dots, k)
    BY <1>5, <1>7, RemovedMore
  <2>4. QED
    BY <2>1, <2>2, <2>3 DEF All
<1>9. /\ scan' \in Scans /\ scan'.there = scan.there \ {dir[k]}
      /\ scan'.added = scan.added /\ scan'.removed = scan.removed + 1
      /\ scan'.nodots = scan.nodots
  <2>1. /\ scan.there \subseteq AllNames /\ scan.added \in Nat
        /\ scan.removed \in Nat /\ scan.nodots \in BOOLEAN
    BY <1>4 DEF Scans
  <2> DEFINE there == scan.there \ {dir[k]}
             removed == scan.removed + 1
  <2>2. there \subseteq AllNames /\ removed \in Nat
    BY <2>1
  <2>3. scan' = [scan EXCEPT !.there = there, !.removed = removed]
    BY <1>1
  <2> HIDE DEF there, removed
  <2>4. scan' = [there |-> there, added |-> scan.added, removed |-> removed,
                 nodots |-> scan.nodots]
    BY <1>4, <2>3 DEF Scans
  <2>5. /\ scan' \in Scans /\ scan'.there = there
        /\ scan'.added = scan.added /\ scan'.removed = removed
        /\ scan'.nodots = scan.nodots
    BY <2>1, <2>2, <2>4 DEF Scans
  <2>6. QED
    BY <2>5 DEF there, removed
<1>10. Types'
  BY <1>2, <1>3, <1>4, <1>5, <1>6, <1>9 DEF Types
<1>11. ASSUME NEW m \in Nat
       PROVE  /\ \E y : Upto(All', m) \subseteq Upto(All, m) \cup {y}
              /\ Beyond(All', m) \subseteq Beyond(All, m)
              /\ ToSet(All) \ {All[k]} \subseteq ToSet(All')
  BY <1>8, RemovedSides
<1>12. HostOK'
  <2>1. Len(dir) = Len(dir') + 1 /\ Len(dir) \in Nat /\ Len(dir') \in Nat
    BY <1>4, <1>5 DEF Removed
  <2>2. scan'.there \subseteq ToSet(All')
    <3>1. ToSet(All) \ {dir[k]} \subseteq ToSet(All')
      BY <1>8, <1>11
    <3>2. QED
      BY <1>3, <1>9, <3>1 DEF HostOK
  <2>3. /\ changes' = scan'.added + scan'.removed
        /\ Len(dir') + scan'.removed = Len(InitDir) + scan'.added
    <3>1. /\ changes = scan.added + scan.removed
          /\ Len(dir) + scan.removed = Len(InitDir) + scan.added
      BY <1>3 DEF HostOK
    <3>2. scan.added \in Nat /\ scan.removed \in Nat /\ Len(InitDir) \in Nat
      BY <1>4, DirAssumption DEF Scans
    <3>3. scan'.added = scan.added /\ scan'.removed = scan.removed + 1
      BY <1>9
    <3>4. changes' = scan'.added + scan'.removed
      BY <1>2, <3>1, <3>2, <3>3
    <3>5. Len(dir') + scan'.removed = Len(InitDir) + scan'.added
      <4> DEFINE n == Len(dir)
                 o == Len(dir')
                 z == Len(InitDir)
                 a == scan.added
                 r == scan.removed
      <4>1. n \in Nat /\ o \in Nat /\ z \in Nat /\ a \in Nat /\ r \in Nat
            /\ n + r = z + a
        BY <2>1, <3>1, <3>2
      <4>2. n = o + 1
        BY <2>1
      <4> HIDE DEF n, o, z, a, r
      <4>3. o + (r + 1) = z + a
        BY <4>1, <4>2
      <4>4. QED
        BY <3>3, <4>3 DEF o, z, a, r
    <3>6. QED
      BY <3>4, <3>5
  <2>4. QED
    BY <2>2, <2>3 DEF HostOK
<1>13. Positions' = Positions /\ Listed' = Listed
       /\ \A m : Page(m)' = Page(m)
  BY <1>2, <1>9 DEF Positions, Listed, Page
<1>14. Awaited' \subseteq Awaited /\ Awaited \subseteq ToSet(All)
  BY <1>3, <1>9 DEF Awaited, HostOK
<1>15. CallOK'
  BY <1>2, <1>3, <1>13 DEF CallOK
<1>16. Positions \subseteq Nat
  BY <1>3 DEF Types, Positions, Cookies
<1>17. scan.added \in Nat /\ scan.removed \in Nat
  BY <1>4 DEF Scans
<1>18. ASSUME NEW m \in Positions
       PROVE  Cardinality(Missed(m)') <= scan'.removed
              /\ Twice(m)' <= scan'.added
  <2>1. PICK y : Upto(All', m) \subseteq Upto(All, m) \cup {y}
    BY <1>11, <1>16
  <2>2. Missed(m)' \subseteq Missed(m) \cup {y}
    BY <1>2, <1>13, <1>14, <2>1 DEF Missed
  <2>3. Cardinality(Missed(m)') <= Cardinality(Missed(m)) + 1
        /\ Cardinality(Missed(m)') \in Nat /\ Cardinality(Missed(m)) \in Nat
    <3>1. IsFiniteSet(Missed(m))
      BY <1>3, CountsFinite
    <3>2. QED
      BY <2>2, <3>1, OneMore
  <2> DEFINE A == ToSet(listed) \cap Page(m)
             B == (ToSet(listed) \cup Page(m)) \cap Beyond(All, m)
             C == (ToSet(listed) \cup Page(m)) \cap Beyond(All', m)
             n == Len(listed) - Cardinality(ToSet(listed))
  <2>4. C \subseteq B
    BY <1>11, <1>16
  <2>5. /\ Twice(m) = n + Cardinality(A) + Cardinality(B)
        /\ Twice(m)' = n + Cardinality(A) + Cardinality(C)
    BY <1>2, <1>13 DEF Twice
  <2>6. IsFiniteSet(A) /\ IsFiniteSet(B) /\ n \in Int
    <3>1. /\ IsFiniteSet(ToSet(listed) \cap Page(m))
          /\ IsFiniteSet((ToSet(listed) \cup Page(m)) \cap Beyond(All, m))
          /\ Len(listed) \in Nat /\ Cardinality(ToSet(listed)) \in Nat
      BY <1>3, CountsFinite
    <3>2. QED
      BY <3>1
  <2> HIDE DEF A, B, C, n
  <2>7. Cardinality(C) <= Cardinality(B) /\ Cardinality(A) \in Nat
        /\ Cardinality(B) \in Nat /\ Cardinality(C) \in Nat
    BY <2>4, <2>6, NoMore, FS_CardinalityType
  <2>8. Twice(m) <= scan.added /\ Cardinality(Missed(m)) <= scan.removed
    BY <1>3 DEF CountOK
  <2>9. Cardinality(Missed(m)') <= scan.removed + 1
    BY <1>17, <2>3, <2>8
  <2>10. Twice(m)' <= scan.added
    <3>1. n + Cardinality(A) + Cardinality(B) <= scan.added
      BY <2>5, <2>8
    <3>2. n + Cardinality(A) + Cardinality(C) <= scan.added
      BY <1>17, <2>6, <2>7, <3>1
    <3>3. QED
      BY <2>5, <3>2
  <2>11. QED
    BY <1>9, <2>9, <2>10
<1>19. ASSUME eof
       PROVE  Cardinality(Awaited' \ ToSet(listed)) <= scan'.removed
  <2>1. Cardinality(Awaited \ ToSet(listed)) <= scan.removed
    BY <1>3, <1>19 DEF CountOK
  <2>2. IsFiniteSet(Awaited \ ToSet(listed))
    <3>1. /\ IsFiniteSet(ToSet(All))
          /\ Awaited \ ToSet(listed) \subseteq ToSet(All)
      BY <1>3, <1>14, CountsFinite
    <3>2. QED
      BY <3>1, NoMore
  <2>3. Awaited' \ ToSet(listed) \subseteq Awaited \ ToSet(listed)
    BY <1>14
  <2> DEFINE R == Awaited \ ToSet(listed)
             T == Awaited' \ ToSet(listed)
  <2> HIDE DEF R, T
  <2>4. /\ Cardinality(T) \in Nat /\ Cardinality(R) \in Nat
        /\ Cardinality(T) <= Cardinality(R)
    BY <2>2, <2>3, NoMore DEF R, T
  <2>5. QED
    BY <1>9, <1>17, <2>1, <2>4 DEF R, T
<1>20. CountOK'
  BY <1>2, <1>9, <1>13, <1>18, <1>19 DEF CountOK
<1>21. QED
  BY <1>10, <1>12, <1>15, <1>20 DEF IInv

\* A call of the client starts where it is.
LEMMA ReadDirCallStep ==
  ASSUME IInv, ReadDirCall
  PROVE  IInv'
<1>1. PICK limit \in Counts :
        call' = [Idle EXCEPT !.pc = "list", !.cookie = cookie, !.limit = limit]
  BY DEF ReadDirCall
<1>2. /\ ~eof /\ call.pc = "idle"
      /\ UNCHANGED <<dir, changes, lost, server, cookie, listed, eof, scan>>
  BY DEF ReadDirCall, client, host
<1>3. Types /\ HostOK /\ CallOK /\ CountOK
  BY DEF IInv
<1>4. call' = [pc |-> "list", cookie |-> cookie, limit |-> limit,
               entries |-> <<>>, page |-> NoPage]
  BY <1>1 DEF Idle
<1>5. limit \in Nat /\ cookie \in Cookies
  BY <1>3, DirAssumption DEF Types
<1>6. Start \in Cookies /\ Start.sent = 0 /\ Start.count = 0
  BY IdleType
<1>7. NoPage \in Pages /\ NoPage.next = Start /\ <<>> \in Listings
  BY IdleType
<1>8. /\ call' \in Calls /\ call'.pc = "list" /\ call'.cookie = cookie
      /\ call'.entries = <<>> /\ call'.page.next = Start
  BY <1>4, <1>5, <1>7 DEF Calls
<1>9. Types'
  <2>1. \A c \in {cookie', call'.cookie, call'.page.next} : c.sent <= c.count
    BY <1>2, <1>3, <1>6, <1>8 DEF Types
  <2>2. QED
    BY <1>2, <1>3, <1>8, <2>1 DEF Types
<1>10. HostOK'
  BY <1>2, <1>3 DEF HostOK, All
<1>11. ~Listed /\ ~Listed' /\ call.entries = <<>>
  BY <1>2, <1>3, <1>8 DEF Listed, CallOK
<1>12. CallOK'
  BY <1>2, <1>8, <1>11, DotsType DEF CallOK, IsInjective
<1>13. /\ Positions' = Positions /\ Awaited' = Awaited
       /\ \A m : Page(m)' = Page(m)
  BY <1>2, <1>8, <1>11 DEF Positions, Awaited, Page
<1>14. \A m : Missed(m)' = Missed(m) /\ Twice(m)' = Twice(m)
  BY <1>2, <1>13 DEF Missed, Twice, All
<1>15. CountOK'
  BY <1>2, <1>3, <1>13, <1>14 DEF CountOK
<1>16. QED
  BY <1>9, <1>10, <1>12, <1>15 DEF IInv
-----------------------------------------------------------------------------
\* The list is made: wherever the page will end, what was to be given before it
\* is in the page, and nothing of the page is behind it.
LEMMA ListStep ==
  ASSUME IInv, List
  PROVE  IInv'
<1>1. PICK err \in {"none"} \cup Faults :
        /\ call' = [call EXCEPT !.pc = IF err = "dotdot" THEN "nil" ELSE "fill",
                      !.entries = IF err = "dot" THEN dir ELSE All]
        /\ scan' = [scan EXCEPT !.nodots = @ \/ err = "dot"]
  BY DEF List, All
<1>2. /\ call.pc = "list"
      /\ UNCHANGED <<dir, changes, lost, server, cookie, listed, eof>>
  BY DEF List, client, host
<1>3. Types /\ HostOK /\ CallOK /\ CountOK
  BY DEF IInv
<1> DEFINE pc == IF err = "dotdot" THEN "nil" ELSE "fill"
           E == IF err = "dot" THEN dir ELSE All
<1>4. /\ dir \in Seq(Names) /\ IsInjective(dir)
      /\ dir \in Seq(AllNames) /\ All \in Seq(AllNames) /\ IsInjective(All)
      /\ Len(All) = Len(dir) + 2 /\ Len(dir) \in Nat
  BY <1>3, ListType, DotsType DEF Types, All
<1>5. E \in Listings /\ IsInjective(E) /\ Len(E) <= Len(dir) + 2
      /\ pc \in {"nil", "fill"}
  BY <1>4 DEF Listings
<1>6. Len(dir) + 2 <= MaxEntries
  <2>1. /\ changes = scan.added + scan.removed /\ changes <= MaxChanges
        /\ Len(dir) + scan.removed = Len(InitDir) + scan.added
    BY <1>3, DirAssumption DEF HostOK, Types
  <2>2. /\ scan.added \in Nat /\ scan.removed \in Nat /\ Len(InitDir) \in Nat
        /\ MaxChanges \in Nat
    BY <1>3, DirAssumption DEF Types, Scans
  <2>3. MaxEntries = Len(InitDir) + MaxChanges + 2
    BY DotsType DEF MaxEntries
  <2>4. QED
    BY <1>4, <2>1, <2>2, <2>3
<1> HIDE DEF pc, E
<1>7. call' = [pc |-> pc, cookie |-> call.cookie, limit |-> call.limit,
               entries |-> E, page |-> call.page]
  <2>1. call' = [call EXCEPT !.pc = pc, !.entries = E]
    BY <1>1 DEF pc, E
  <2>2. QED
    BY <1>3, <2>1 DEF Types, Calls
<1>8. /\ call' \in Calls /\ call'.pc = pc /\ call'.cookie = call.cookie
      /\ call'.entries = E /\ call'.page = call.page
  BY <1>3, <1>5, <1>7 DEF Types, Calls
<1>9. /\ scan' \in Scans /\ scan'.there = scan.there
      /\ scan'.added = scan.added /\ scan'.removed = scan.removed
      /\ scan'.nodots = (scan.nodots \/ err = "dot")
  BY <1>1, <1>3 DEF Types, Scans
<1>10. Types'
  BY <1>2, <1>3, <1>8, <1>9 DEF Types
<1>11. HostOK' /\ All' = All
  BY <1>2, <1>3, <1>9 DEF HostOK, All
<1>12. /\ ~Listed /\ call.entries = <<>> /\ Listed'
       /\ ~eof /\ call.cookie = cookie
  BY <1>2, <1>3, <1>5, <1>8 DEF Listed, CallOK
<1>13. Len(E) <= MaxEntries
  BY <1>4, <1>5, <1>6, DotsType DEF Listings
<1>14. CallOK'
  BY <1>2, <1>5, <1>8, <1>12, <1>13 DEF CallOK
<1>15. cookie.sent \in Nat /\ cookie.sent <= MaxEntries /\ MaxEntries \in Nat
  BY <1>3, DotsType DEF Types, Cookies
<1>16. Positions = {cookie.sent} /\ Positions' = cookie.sent .. MaxEntries
  BY <1>2, <1>12 DEF Positions
<1>17. Page(cookie.sent) = {}
  BY <1>12, NothingBetween DEF Page
<1>18. scan.added \in Nat /\ scan.removed \in Nat
  BY <1>3 DEF Types, Scans
<1>19. ASSUME NEW m \in Positions'
       PROVE  Cardinality(Missed(m)') <= scan'.removed
              /\ Twice(m)' <= scan'.added
  <2> DEFINE i == cookie.sent
             B == Between(E, i, m)
             L == ToSet(listed)
  <2>1. m \in Nat /\ i \in Nat /\ i <= m
    BY <1>15, <1>16
  <2>2. /\ Between(All, i, m) \cap Beyond(All, m) = {}
        /\ Between(All, i, m) \subseteq Beyond(All, i)
        /\ Beyond(All, m) \subseteq Beyond(All, i)
        /\ Upto(All, m) \subseteq Upto(All, i) \cup Between(All, i, m)
    BY <1>4, <2>1, PageSides
  <2>3. /\ B \subseteq Between(All, i, m)
        /\ err # "dot" => B = Between(All, i, m)
        /\ Between(All, i, m) \ ToSet(Dots) \subseteq B
    BY <1>4, <2>1, PageWithoutDots DEF E, All
  <2>4. Page(m)' = B
    BY <1>2, <1>8 DEF Page
  <2>5. Awaited' \subseteq Awaited
        /\ (err = "dot" => Awaited' \cap ToSet(Dots) = {})
    BY <1>9 DEF Awaited
  <2> HIDE DEF B
  <2>6. Missed(m)' \subseteq Missed(i)
    <3>1. Missed(m)' = (Awaited' \cap Upto(All, m)) \ (L \cup B)
      BY <1>2, <1>11, <2>4 DEF Missed
    <3>2. Missed(i) = (Awaited \cap Upto(All, i)) \ L
      BY <1>17 DEF Missed
    <3>3. Awaited' \cap Between(All, i, m) \subseteq B
      BY <2>3, <2>5
    <3>4. QED
      BY <2>2, <2>5, <3>1, <3>2, <3>3
  <2>7. /\ Cardinality(Missed(m)') <= Cardinality(Missed(i))
        /\ Cardinality(Missed(m)') \in Nat /\ Cardinality(Missed(i)) \in Nat
    <3>1. IsFiniteSet(Missed(i))
      BY <1>3, CountsFinite
    <3>2. QED
      BY <2>6, <3>1, NoMore
  <2>8. Cardinality(Missed(i)) <= scan.removed /\ Twice(i) <= scan.added
    BY <1>3, <1>16 DEF CountOK
  <2> DEFINE n == Len(listed) - Cardinality(L)
             T == L \cap Beyond(All, i)
             V == L \cap B
             W == (L \cup B) \cap Beyond(All, m)
  <2>9. n \in Int /\ IsFiniteSet(T)
    <3>1. Len(listed) \in Nat /\ Cardinality(L) \in Nat
      BY <1>3, CountsFinite
    <3>2. IsFiniteSet((L \cup Page(i)) \cap Beyond(All, i))
      BY <1>3, CountsFinite
    <3>3. (L \cup Page(i)) \cap Beyond(All, i) = T
      BY <1>17
    <3>4. n \in Int
      BY <3>1
    <3> HIDE DEF n, T
    <3>5. QED
      BY <3>2, <3>3, <3>4
  <2>10. Twice(i) = n + Cardinality(T)
    <3>1. Twice(i) = n + Cardinality(L \cap Page(i))
                       + Cardinality((L \cup Page(i)) \cap Beyond(All, i))
      BY DEF Twice
    <3>2. L \cap Page(i) = {} /\ (L \cup Page(i)) \cap Beyond(All, i) = T
      BY <1>17
    <3>3. Cardinality(L \cap Page(i)) = 0
      BY <3>2, FS_EmptySet
    <3>4. n \in Int /\ Cardinality(T) \in Nat
      BY <2>9, FS_CardinalityType
    <3> HIDE DEF n, T
    <3>5. Twice(i) = n + 0 + Cardinality(T)
      BY <3>1, <3>2, <3>3
    <3>6. QED
      BY <3>4, <3>5
  <2>11. Twice(m)' = n + Cardinality(V) + Cardinality(W)
    BY <1>2, <1>11, <2>4 DEF Twice
  <2>12. V \subseteq T /\ W \subseteq T /\ V \cap W = {}
    BY <2>2, <2>3
  <2> HIDE DEF n, T, V, W
  <2>13. /\ Cardinality(V) \in Nat /\ Cardinality(W) \in Nat
         /\ Cardinality(T) \in Nat
         /\ Cardinality(V) + Cardinality(W) <= Cardinality(T)
    BY <2>9, <2>12, TwoParts
  <2>14. Twice(m)' <= Twice(i)
    BY <2>9, <2>10, <2>11, <2>13
  <2>15. Twice(m)' \in Int /\ Twice(i) \in Int
    BY <2>9, <2>10, <2>11, <2>13
  <2>16. QED
    BY <1>9, <1>18, <2>7, <2>8, <2>14, <2>15
<1>20. CountOK'
  BY <1>2, <1>12, <1>19 DEF CountOK
<1>21. QED
  BY <1>10, <1>11, <1>14, <1>20 DEF IInv

\* The page is filled: it ends at a position the counts already allow for.
LEMMA FillStep ==
  ASSUME IInv, Fill
  PROVE  IInv'
<1> DEFINE i == call.cookie.sent
           m == Fitting(call.entries, i, call.limit)
           next == IF m = i THEN call.cookie
                   ELSE NextCookie(Len(call.entries), m)
           page == [entries |-> SubSeq(call.entries, i + 1, m),
                    next |-> next, eof |-> IsEof(call.entries, m)]
<1>1. /\ call.pc = "fill"
      /\ call' = [call EXCEPT !.pc = "reply", !.page = page]
      /\ UNCHANGED <<dir, changes, lost, server, cookie, listed, eof, scan>>
  BY DEF Fill, client, host
<1>2. Types /\ HostOK /\ CallOK /\ CountOK
  BY DEF IInv
<1>3. Listed /\ ~eof /\ call.cookie = cookie
      /\ IsInjective(call.entries) /\ Len(call.entries) <= MaxEntries
  BY <1>1, <1>2 DEF Listed, CallOK
<1>4. /\ call.entries \in Listings /\ call.limit \in Nat
      /\ call.cookie \in Cookies /\ call.cookie.sent <= call.cookie.count
      /\ i \in Nat /\ i <= MaxEntries /\ MaxEntries \in Nat
      /\ Len(call.entries) \in Nat
  BY <1>2, DotsType DEF Types, Calls, Cookies, Listings
<1>5. m \in Nat /\ m >= i /\ (m = i \/ m <= Len(call.entries))
  BY <1>4, FittingIn
<1> HIDE DEF i, m
<1>6. next \in Cookies /\ next.sent <= next.count /\ next.sent = m
  <2>1. CASE m = i
    BY <1>4, <2>1 DEF i
  <2>2. CASE m # i
    <3>1. next = [count |-> Len(call.entries), sent |-> m]
      BY <2>2 DEF NextCookie
    <3>2. Len(call.entries) \in 0 .. MaxEntries /\ m \in 0 .. MaxEntries
          /\ m <= Len(call.entries)
      BY <1>3, <1>4, <1>5, <2>2
    <3>3. QED
      BY <3>1, <3>2 DEF Cookies
  <2>3. QED
    BY <2>1, <2>2
<1> HIDE DEF next
<1>7. SubSeq(call.entries, i + 1, m) \in Listings
  <2>1. \A j \in i + 1 .. m : call.entries[j] \in AllNames
    BY <1>4, <1>5 DEF Listings
  <2>2. i + 1 \in Int /\ m \in Int
    BY <1>4, <1>5
  <2>3. SubSeq(call.entries, i + 1, m) \in Seq(AllNames)
    BY <1>4, <2>1, <2>2, SubSeqProperties DEF Listings
  <2>4. QED
    BY <2>3 DEF Listings
<1>8. IsEof(call.entries, m) \in BOOLEAN
      /\ (IsEof(call.entries, m) => m >= Len(call.entries))
  BY DEF IsEof
<1>9. /\ page \in Pages /\ page.next = next
      /\ page.entries = SubSeq(call.entries, i + 1, m)
      /\ page.eof = IsEof(call.entries, m)
  BY <1>6, <1>7, <1>8 DEF Pages
<1> HIDE DEF page
<1>10. /\ call' \in Calls /\ call'.pc = "reply" /\ call'.page = page
       /\ call'.cookie = call.cookie /\ call'.entries = call.entries
  BY <1>1, <1>2, <1>9 DEF Types, Calls
<1>11. Types'
  <2>1. \A c \in {cookie', call'.cookie, call'.page.next} : c.sent <= c.count
    BY <1>1, <1>2, <1>6, <1>9, <1>10 DEF Types
  <2>2. QED
    BY <1>1, <1>2, <1>10, <2>1 DEF Types
<1>12. HostOK'
  BY <1>1, <1>2 DEF HostOK, All
<1>13. Listed' /\ Positions' = Positions /\ m \in Positions
  <2>1. Listed'
    BY <1>10 DEF Listed
  <2>2. Positions' = Positions /\ Positions = i .. MaxEntries
    BY <1>1, <1>3, <2>1 DEF Positions, i
  <2>3. QED
    BY <1>3, <1>4, <1>5, <2>1, <2>2
<1>14. CallOK'
  <2>1. call'.page.next.sent = m
    BY <1>6, <1>9, <1>10
  <2>2. i = cookie.sent
    BY <1>3 DEF i
  <2>3. LET n == call'.page.next.sent IN
        /\ n \in Positions' /\ (n = cookie'.sent \/ n <= Len(call'.entries))
        /\ call'.page.entries = SubSeq(call'.entries, cookie'.sent + 1, n)
        /\ call'.page.eof => n >= Len(call'.entries)
    BY <1>1, <1>5, <1>8, <1>9, <1>10, <1>13, <2>1, <2>2
  <2>4. QED
    BY <1>1, <1>3, <1>10, <1>13, <2>3 DEF CallOK
<1>15. CountOK'
  <2>1. Awaited' = Awaited /\ \A n : Page(n)' = Page(n)
    BY <1>1, <1>10 DEF Awaited, Page
  <2>2. \A n : Missed(n)' = Missed(n) /\ Twice(n)' = Twice(n)
    BY <1>1, <2>1 DEF Missed, Twice, All
  <2>3. QED
    BY <1>1, <1>2, <1>13, <2>1, <2>2 DEF CountOK
<1>16. QED
  BY <1>11, <1>12, <1>14, <1>15 DEF IInv

LEMMA FillNilStep ==
  ASSUME IInv, FillNil
  PROVE  IInv'
<1>1. /\ call.pc = "nil"
      /\ \/ call' = [call EXCEPT !.pc = "fill"] /\ server' = server
         \/ call' = call /\ server' = "down"
      /\ UNCHANGED <<dir, changes, lost, cookie, listed, eof, scan>>
  BY DEF FillNil, client, host
<1>2. Types /\ HostOK /\ CallOK /\ CountOK
  BY DEF IInv
<1>3. /\ call' \in Calls /\ call'.pc \in {"nil", "fill"}
      /\ call'.cookie = call.cookie /\ call'.entries = call.entries
      /\ call'.page = call.page
  BY <1>1, <1>2 DEF Types, Calls
<1>4. Types'
  BY <1>1, <1>2, <1>3 DEF Types
<1>5. HostOK'
  BY <1>1, <1>2 DEF HostOK, All
<1>6. Listed /\ Listed' /\ Positions' = Positions
  BY <1>1, <1>3 DEF Listed, Positions
<1>7. CallOK'
  BY <1>1, <1>2, <1>3, <1>6 DEF CallOK
<1>8. CountOK'
  <2>1. Awaited' = Awaited /\ \A n : Page(n)' = Page(n)
    BY <1>1, <1>3 DEF Awaited, Page
  <2>2. \A n : Missed(n)' = Missed(n) /\ Twice(n)' = Twice(n)
    BY <1>1, <2>1 DEF Missed, Twice, All
  <2>3. QED
    BY <1>1, <1>2, <1>6, <2>1, <2>2 DEF CountOK
<1>9. QED
  BY <1>4, <1>5, <1>7, <1>8 DEF IInv
-----------------------------------------------------------------------------
\* The page arrives: the counts at the position it ends at were made for it.
LEMMA ReturnStep ==
  ASSUME IInv, Return
  PROVE  IInv'
<1> PICK m : m = call.page.next.sent
  OBVIOUS
<1> DEFINE i == cookie.sent
           P == call.page.entries
           L == ToSet(listed)
<1>1. /\ call.pc = "reply" /\ cookie' = call.page.next
      /\ listed' = listed \o P /\ eof' = call.page.eof /\ call' = Idle
      /\ UNCHANGED <<dir, changes, lost, server, scan>>
  BY DEF Return, host
<1>2. Types /\ HostOK /\ CallOK /\ CountOK
  BY DEF IInv
<1>3. /\ m \in Positions /\ (m = i \/ m <= Len(call.entries))
      /\ P = SubSeq(call.entries, i + 1, m)
      /\ call.page.eof => m >= Len(call.entries)
  BY <1>1, <1>2 DEF CallOK
<1>4. /\ IsInjective(call.entries) /\ Len(call.entries) <= MaxEntries
      /\ Positions = i .. MaxEntries
  BY <1>1, <1>2 DEF CallOK, Positions, Listed
<1>5. /\ call.entries \in Seq(AllNames) /\ Len(call.entries) \in Nat
      /\ DOMAIN call.entries = 1 .. Len(call.entries)
      /\ call.page.next \in Cookies /\ call.page.eof \in BOOLEAN
      /\ P \in Seq(AllNames) /\ listed \in Seq(AllNames)
      /\ call.page.next.sent <= call.page.next.count
  BY <1>2 DEF Types, Calls, Pages, Listings
<1>6. i \in Nat /\ m \in Nat /\ i <= m /\ m <= MaxEntries /\ MaxEntries \in Nat
  BY <1>2, <1>3, <1>4, DotsType DEF Types, Cookies
<1>7. /\ Len(P) = m - i
      /\ \A j \in 1 .. m - i : /\ i + j \in 1 .. Len(call.entries)
                               /\ P[j] = call.entries[i + j]
  <2>1. CASE m = i
    <3>1. P = SubSeq(call.entries, i + 1, i)
      BY <1>3, <2>1
    <3>2. Len(P) = 0
      <4>1. \A j \in i + 1 .. i : call.entries[j] \in AllNames
        BY <1>6
      <4>2. Len(SubSeq(call.entries, i + 1, i)) =
              IF i + 1 <= i THEN i - (i + 1) + 1 ELSE 0
        BY <1>5, <1>6, <4>1, SubSeqProperties
      <4>3. QED
        BY <1>6, <3>1, <4>2
    <3>3. QED
      BY <1>6, <2>1, <3>2
  <2>2. CASE m # i
    <3>1. i + 1 \in Nat /\ i + 1 >= 1 /\ m <= Len(call.entries)
          /\ i + 1 <= m + 1
      BY <1>3, <1>6, <2>2
    <3>2. /\ Len(P) = m - (i + 1) + 1
          /\ \A j \in 1 .. m - (i + 1) + 1 :
               P[j] = call.entries[(i + 1) + j - 1]
      <4> DEFINE e == call.entries
                 f == i + 1
      <4> HIDE DEF e, f
      <4>1. e \in Seq(AllNames) /\ f \in Nat /\ m \in Nat
            /\ f >= 1 /\ m <= Len(e) /\ f <= m + 1
        BY <1>5, <1>6, <3>1 DEF e, f
      <4>2. /\ Len(SubSeq(e, f, m)) = m - f + 1
            /\ \A j \in 1 .. m - f + 1 : SubSeq(e, f, m)[j] = e[f + j - 1]
        BY <4>1, PieceAt
      <4>3. P = SubSeq(e, f, m)
        BY <1>3 DEF e, f
      <4>4. QED
        BY <4>2, <4>3 DEF e, f
    <3>3. m - (i + 1) + 1 = m - i
      BY <1>6
    <3>4. ASSUME NEW j \in 1 .. m - i
          PROVE  (i + 1) + j - 1 = i + j /\ i + j \in 1 .. Len(call.entries)
      <4> DEFINE n == Len(call.entries)
      <4>1. n \in Nat /\ m <= n
        BY <1>5, <3>1
      <4> HIDE DEF i, n
      <4>2. (i + 1) + j - 1 = i + j /\ i + j \in 1 .. n
        BY <1>6, <4>1
      <4>3. QED
        BY <4>2 DEF n
    <3>5. QED
      BY <3>2, <3>3, <3>4
  <2>3. QED
    BY <2>1, <2>2
<1> HIDE DEF i, P, L
<1>8. ToSet(P) = Page(m)
  <2>1. DOMAIN P = 1 .. m - i
    BY <1>5, <1>7
  <2>2. ToSet(P) \subseteq Page(m)
    <3> SUFFICES ASSUME NEW j \in 1 .. m - i
                 PROVE  P[j] \in Page(m)
      BY <2>1 DEF ToSet
    <3>1. /\ P[j] = call.entries[i + j] /\ i + j \in DOMAIN call.entries
          /\ i < i + j /\ i + j <= m
      BY <1>5, <1>6, <1>7
    <3>2. QED
      BY <3>1 DEF Page, Between, i
  <2>3. Page(m) \subseteq ToSet(P)
    <3> SUFFICES ASSUME NEW j \in 1 .. Len(call.entries), i < j, j <= m
                 PROVE  call.entries[j] \in ToSet(P)
      BY <1>5 DEF Page, Between, i
    <3>1. j - i \in 1 .. m - i /\ i + (j - i) = j
      BY <1>5, <1>6
    <3>2. P[j - i] = call.entries[j]
      BY <1>7, <3>1
    <3>3. QED
      BY <2>1, <3>1, <3>2 DEF ToSet
  <2>4. QED
    BY <2>2, <2>3
<1>9. IsInjective(P)
  <2> SUFFICES ASSUME NEW j \in 1 .. m - i, NEW k \in 1 .. m - i, P[j] = P[k]
               PROVE  j = k
    <3>1. DOMAIN P = 1 .. m - i
      BY <1>5, <1>7
    <3>2. QED
      BY <3>1 DEF IsInjective
  <2>1. call.entries[i + j] = call.entries[i + k]
        /\ i + j \in DOMAIN call.entries /\ i + k \in DOMAIN call.entries
    BY <1>5, <1>7
  <2>2. i + j = i + k
    BY <1>4, <2>1 DEF IsInjective
  <2>3. QED
    BY <1>6, <2>2
<1>10. /\ IsFiniteSet(Page(m)) /\ Cardinality(Page(m)) = Len(P)
       /\ Len(P) \in Nat
  BY <1>5, <1>8, <1>9, NamesFinite
<1>11. /\ listed' \in Seq(AllNames) /\ Len(listed') = Len(listed) + Len(P)
       /\ ToSet(listed') = L \cup Page(m)
  BY <1>1, <1>5, <1>8, ConcatAt, NamesOfBoth DEF L, P
<1>12. /\ call'.pc = "idle" /\ call'.entries = <<>> /\ call' \in Calls
       /\ call'.cookie = Start /\ call'.page.next = Start
       /\ Start.sent = 0 /\ Start.count = 0
  BY <1>1, IdleType
<1>13. Types'
  <2>1. \A c \in {cookie', call'.cookie, call'.page.next} : c.sent <= c.count
    BY <1>1, <1>5, <1>12
  <2>2. listed' \in Listings /\ cookie' \in Cookies /\ eof' \in BOOLEAN
    BY <1>1, <1>5, <1>11 DEF Listings
  <2>3. QED
    BY <1>1, <1>2, <1>12, <2>1, <2>2 DEF Types
<1>14. HostOK' /\ All' = All /\ Awaited' = Awaited
  BY <1>1, <1>2 DEF HostOK, All, Awaited
<1>15. ~Listed' /\ cookie'.sent = m /\ Positions' = {m}
  BY <1>1, <1>12 DEF Listed, Positions
<1>16. CallOK'
  BY <1>12, <1>15, DotsType DEF CallOK, IsInjective
<1>17. Page(m)' = {}
  BY <1>12, <1>15, NothingBetween DEF Page
<1>18. Missed(m)' = Missed(m)
  <2>1. Missed(m)' = (Awaited' \cap Upto(All', m))
                        \ (ToSet(listed') \cup Page(m)')
    BY DEF Missed
  <2>2. QED
    BY <1>11, <1>14, <1>17, <2>1 DEF Missed, L
<1>19. Twice(m)' = Twice(m)
  <2> DEFINE Q == Page(m)
             B == (L \cup Q) \cap Beyond(All, m)
  <2>1. /\ Len(listed) \in Nat /\ IsFiniteSet(L) /\ Cardinality(L) \in Nat
        /\ IsFiniteSet(L \cap Q) /\ IsFiniteSet(B)
    BY <1>2, CountsFinite DEF L
  <2>2. Cardinality(L \cap Q) \in Nat /\ Cardinality(B) \in Nat
    BY <2>1, FS_CardinalityType
  <2>3. Cardinality(L \cup Q)
          = Cardinality(L) + Cardinality(Q) - Cardinality(L \cap Q)
    BY <1>10, <2>1, FS_Union
  <2>4. Twice(m) = (Len(listed) - Cardinality(L)) + Cardinality(L \cap Q)
                     + Cardinality(B)
    BY DEF Twice, L
  <2>5. Twice(m)' = (Len(listed') - Cardinality(L \cup Q)) + 0
                      + Cardinality(B)
    <3>1. Twice(m)' = (Len(listed') - Cardinality(L \cup Q))
                        + Cardinality((L \cup Q) \cap {})
                        + Cardinality((L \cup Q \cup {}) \cap Beyond(All, m))
      BY <1>11, <1>14, <1>17 DEF Twice
    <3>2. (L \cup Q) \cap {} = {} /\ (L \cup Q \cup {}) = L \cup Q
      OBVIOUS
    <3>3. Cardinality((L \cup Q) \cap {}) = 0
      BY <3>2, FS_EmptySet
    <3>4. QED
      BY <3>1, <3>2, <3>3
  <2>6. Len(listed') = Len(listed) + Cardinality(Q)
        /\ Cardinality(Q) \in Nat
    BY <1>10, <1>11
  <2> HIDE DEF Q, B
  <2>7. QED
    BY <2>1, <2>2, <2>3, <2>4, <2>5, <2>6
<1>20. Cardinality(Missed(m)) <= scan.removed /\ Twice(m) <= scan.added
  BY <1>2, <1>3 DEF CountOK
<1>21. ASSUME eof'
       PROVE  Cardinality(Awaited' \ ToSet(listed')) <= scan'.removed
  <2> DEFINE M == MaxEntries
  <2>1. M \in Positions /\ M \in Nat
    BY <1>4, <1>6 DEF i
  <2>2. Cardinality(Missed(M)) <= scan.removed
    BY <1>2, <2>1 DEF CountOK
  <2>3. Page(M) = Page(m)
    <3>1. m >= Len(call.entries)
      BY <1>1, <1>3, <1>21
    <3>2. \A j \in DOMAIN call.entries : j <= M /\ j <= m
      BY <1>4, <1>5, <1>6, <3>1
    <3>3. QED
      BY <3>2 DEF Page, Between
  <2>4. Upto(All, M) = ToSet(All)
    <3>1. dir \in Seq(Names) /\ IsInjective(dir)
      BY <1>2 DEF Types
    <3>2. All \in Seq(AllNames) /\ Len(All) = Len(dir) + 2
          /\ Len(dir) \in Nat
      BY <3>1, ListType, DotsType DEF All
    <3>3. Len(All) <= M
      <4>1. /\ changes = scan.added + scan.removed /\ changes <= MaxChanges
            /\ Len(dir) + scan.removed = Len(InitDir) + scan.added
        BY <1>2, DirAssumption DEF HostOK, Types
      <4>2. /\ scan.added \in Nat /\ scan.removed \in Nat
            /\ Len(InitDir) \in Nat /\ MaxChanges \in Nat
        BY <1>2, DirAssumption DEF Types, Scans
      <4>3. M = Len(InitDir) + MaxChanges + 2
        BY DotsType DEF MaxEntries
      <4>4. QED
        BY <3>2, <4>1, <4>2, <4>3
    <3>4. \A j \in DOMAIN All : j <= M
      <4>1. DOMAIN All = 1 .. Len(All) /\ Len(All) \in Nat
        BY <3>2
      <4>2. QED
        BY <2>1, <3>3, <4>1
    <3>5. QED
      BY <3>4 DEF Upto, ToSet
  <2>5. Awaited \subseteq ToSet(All)
    BY <1>2 DEF Awaited, HostOK
  <2>6. Missed(M) = Awaited \ ToSet(listed')
    BY <1>11, <2>3, <2>4, <2>5 DEF Missed, L
  <2>7. QED
    BY <1>1, <1>14, <2>2, <2>6
<1>22. CountOK'
  BY <1>1, <1>15, <1>18, <1>19, <1>20, <1>21 DEF CountOK
<1>23. QED
  BY <1>13, <1>14, <1>16, <1>22 DEF IInv

\* The reply is lost: the client is where it was, a position the counts were
\* made for too.
LEMMA LoseStep ==
  ASSUME IInv, Lose
  PROVE  IInv'
<1>1. /\ call.pc = "reply" /\ lost < MaxLost /\ lost' = lost + 1
      /\ call' = Idle
      /\ UNCHANGED <<dir, changes, server, cookie, listed, eof, scan>>
  BY DEF Lose, client, host
<1>2. Types /\ HostOK /\ CallOK /\ CountOK
  BY DEF IInv
<1> DEFINE i == cookie.sent
<1>3. i \in Nat /\ i <= MaxEntries /\ MaxEntries \in Nat /\ ~eof
      /\ call.entries \in Listings
  BY <1>1, <1>2, DotsType DEF Types, Cookies, CallOK, Calls
<1>4. Positions = i .. MaxEntries
  BY <1>1 DEF Positions, Listed
<1>5. i \in Positions
  BY <1>3, <1>4
<1>6. /\ call'.pc = "idle" /\ call'.entries = <<>> /\ call' \in Calls
      /\ call'.cookie = Start /\ call'.page.next = Start
      /\ Start.sent = 0 /\ Start.count = 0
  BY <1>1, IdleType
<1>7. Types'
  <2>1. lost' \in 0 .. MaxLost
    BY <1>1, <1>2, DirAssumption DEF Types
  <2>2. \A c \in {cookie', call'.cookie, call'.page.next} : c.sent <= c.count
    BY <1>1, <1>2, <1>6 DEF Types
  <2>3. QED
    BY <1>1, <1>2, <1>6, <2>1, <2>2 DEF Types
<1>8. HostOK' /\ All' = All /\ Awaited' = Awaited
  BY <1>1, <1>2 DEF HostOK, All, Awaited
<1>9. ~Listed' /\ Positions' = {i}
  BY <1>1, <1>6 DEF Listed, Positions
<1>10. CallOK'
  BY <1>6, <1>9, DotsType DEF CallOK, IsInjective
<1>11. Page(i) = {} /\ Page(i)' = {}
  BY <1>1, <1>3, <1>6, NothingBetween DEF Page
<1>12. Missed(i)' = Missed(i) /\ Twice(i)' = Twice(i)
  BY <1>1, <1>8, <1>11 DEF Missed, Twice
<1>13. CountOK'
  BY <1>1, <1>2, <1>3, <1>5, <1>9, <1>12 DEF CountOK
<1>14. QED
  BY <1>7, <1>8, <1>10, <1>13 DEF IInv

LEMMA NextIInv ==
  ASSUME IInv, [Next]_vars
  PROVE  IInv'
<1>1. CASE ReadDirCall
  BY <1>1, ReadDirCallStep
<1>2. CASE List
  BY <1>2, ListStep
<1>3. CASE Fill
  BY <1>3, FillStep
<1>4. CASE FillNil
  BY <1>4, FillNilStep
<1>5. CASE Return
  BY <1>5, ReturnStep
<1>6. CASE AddEntry
  BY <1>6, AddEntryStep
<1>7. CASE RemoveEntry
  BY <1>7, RemoveEntryStep
<1>8. CASE Lose
  BY <1>8, LoseStep
<1>9. CASE UNCHANGED vars
  <2>1. /\ Listed' = Listed /\ Positions' = Positions /\ All' = All
        /\ Awaited' = Awaited
    BY <1>9 DEF vars, Listed, Positions, All, Awaited
  <2>2. \A n : Page(n)' = Page(n)
    BY <1>9 DEF vars, Page
  <2>3. \A n : Missed(n)' = Missed(n) /\ Twice(n)' = Twice(n)
    BY <1>9, <2>1, <2>2 DEF vars, Missed, Twice
  <2>4. Types' /\ HostOK' /\ CallOK' /\ CountOK'
    BY <1>9, <2>1, <2>3 DEF vars, IInv, Types, HostOK, CallOK, CountOK
  <2>5. QED
    BY <2>4 DEF IInv
<1>10. QED
  BY <1>1, <1>2, <1>3, <1>4, <1>5, <1>6, <1>7, <1>8, <1>9 DEF Next, ReadDir
-----------------------------------------------------------------------------
(* The theorems. *)

\* The counts on both sides of every position hold throughout.
THEOREM Invariance == Spec => []IInv
<1>1. Init => IInv
  BY InitIInv
<1>2. IInv /\ [Next]_vars => IInv'
  BY NextIInv
<1>3. QED
  BY <1>1, <1>2, PTL DEF Spec

\* The variables have their types, and a cookie counts no more entries than the
\* listing it was made from has.
THEOREM TypeCorrect == Spec => []TypeOK
<1>1. IInv => TypeOK
  BY DEF IInv, Types, TypeOK, Calls, Pages, Scans
<1>2. QED
  BY <1>1, Invariance, PTL

\* ReadDir, whose cookies are positions in a list that shifts: a scan that got
\* to the end missed at most one of the entries that were there all the time
\* for each that was removed, and "." and ".." if their Lstat failed.
THEOREM MissedBounded == Spec => []MissedAtMostRemoved
<1>1. ASSUME IInv
      PROVE  MissedAtMostRemoved
  <2> SUFFICES ASSUME eof
               PROVE  Cardinality(scan.there \ ToSet(listed))
                        <= scan.removed
                             + (IF scan.nodots THEN Len(Dots) ELSE 0)
    BY DEF MissedAtMostRemoved
  <2>1. Types /\ HostOK /\ CountOK
    BY <1>1 DEF IInv
  <2> DEFINE R == Awaited \ ToSet(listed)
             S == scan.there \ ToSet(listed)
             D == ToSet(Dots)
  <2>2. Cardinality(R) <= scan.removed
    BY <2>1 DEF CountOK
  <2>3. scan.removed \in Nat
    BY <2>1 DEF Types, Scans
  <2>4. CASE ~scan.nodots
    <3>1. S = R
      BY <2>4 DEF Awaited
    <3>2. IsFiniteSet(S)
      <4>1. S \subseteq ToSet(All) /\ IsFiniteSet(ToSet(All))
        BY <2>1, CountsFinite DEF HostOK
      <4>2. QED
        BY <4>1, NoMore
    <3>3. Cardinality(S) \in Nat
      BY <3>2, FS_CardinalityType
    <3> HIDE DEF R, S
    <3>4. Cardinality(S) <= scan.removed + 0
      BY <2>2, <2>3, <3>1, <3>3
    <3>5. QED
      BY <2>4, <3>4 DEF S
  <2>5. CASE scan.nodots
    <3>1. S \subseteq R \cup D
      BY <2>5 DEF Awaited
    <3>2. IsFiniteSet(R)
      <4>1. R \subseteq ToSet(All) /\ IsFiniteSet(ToSet(All))
        BY <2>1, CountsFinite DEF HostOK, Awaited
      <4>2. QED
        BY <4>1, NoMore
    <3>3. IsFiniteSet(D) /\ Cardinality(D) \in Nat
          /\ Cardinality(D) <= Len(Dots) /\ Len(Dots) \in Nat
      <4>1. Dots \in Seq(AllNames) /\ Len(Dots) \in Nat
        BY DotsType
      <4>2. QED
        BY <4>1, NamesFinite
    <3> HIDE DEF R, S, D
    <3>4. IsFiniteSet(R \cup D)
          /\ Cardinality(R \cup D)
               = Cardinality(R) + Cardinality(D) - Cardinality(R \cap D)
      BY <3>2, <3>3, FS_Union
    <3>5. R \cap D \subseteq R
      OBVIOUS
    <3>6. Cardinality(R) \in Nat /\ Cardinality(R \cap D) \in Nat
      BY <3>2, <3>5, NoMore
    <3>7. Cardinality(S) \in Nat /\ Cardinality(S) <= Cardinality(R \cup D)
      BY <3>1, <3>4, NoMore
    <3>8. Cardinality(S) <= scan.removed + Len(Dots)
      BY <2>2, <2>3, <3>3, <3>4, <3>6, <3>7
    <3>9. QED
      BY <2>5, <3>8 DEF S
  <2>6. QED
    BY <2>4, <2>5
<1>2. QED
  BY <1>1, Invariance, PTL

\* And it was given at most one entry twice for each that was added.
THEOREM TwiceBounded == Spec => []TwiceAtMostAdded
<1>1. ASSUME IInv
      PROVE  TwiceAtMostAdded
  <2>1. Types /\ CountOK
    BY <1>1 DEF IInv
  <2> DEFINE m == cookie.sent
             A == ToSet(listed) \cap Page(m)
             B == (ToSet(listed) \cup Page(m)) \cap Beyond(All, m)
             n == Len(listed) - Cardinality(ToSet(listed))
  <2>2. m \in Positions
    BY <2>1, DotsType DEF Types, Cookies, Positions
  <2>3. n + Cardinality(A) + Cardinality(B) <= scan.added
    BY <2>1, <2>2 DEF CountOK, Twice
  <2>4. /\ IsFiniteSet(A) /\ IsFiniteSet(B) /\ scan.added \in Nat
        /\ Len(listed) \in Nat /\ Cardinality(ToSet(listed)) \in Nat
    BY <2>1, CountsFinite
  <2>5. n \in Int
    BY <2>4
  <2> HIDE DEF A, B, n
  <2>6. Cardinality(A) \in Nat /\ Cardinality(B) \in Nat
    BY <2>4, FS_CardinalityType
  <2>7. n <= scan.added
    BY <2>3, <2>4, <2>5, <2>6
  <2>8. QED
    BY <2>7 DEF TwiceAtMostAdded, n
<1>2. QED
  BY <1>1, Invariance, PTL
=============================================================================
