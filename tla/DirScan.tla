------------------------------ MODULE DirScan -------------------------------
(***************************************************************************)
(* A client that reads a directory with READDIR, page by page, while other *)
(* clients add and remove entries: Backend.ReadDir of src/nfs3/allunix.go. *)
(*                                                                         *)
(* The handler keeps nothing between two calls.  It lists the whole        *)
(* directory, appends "." and "..", skips as many entries as the cookie    *)
(* counts and fills a page with the next.  Handles, errors of the listing  *)
(* and the inode numbers are left out (Backend has the first two).         *)
(***************************************************************************)
EXTENDS Naturals, SequencesExt, FiniteSetsExt

CONSTANTS
  Names,         \* what an entry of the directory may be called
  Dots,          \* the sequence of "." and ".."
  InitDir,       \* the entries at first, in the order the host lists them
  Size,          \* name |-> the bytes its entry takes in a reply
  ResokSize,     \* READDIRRESOKSIZE: what a reply takes without entries
  Counts,        \* the limits a client may ask for
  MaxChanges,    \* how many entries are added or removed
  MaxLost,       \* how many replies are lost
  Faults         \* what of the Lstats of ".." and "." may fail

VARIABLES
  dir,       \* the entries of the directory in the order of the host
  changes,   \* how many were added or removed, and lost
  lost,
  call,      \* the READDIR under way
  server,    \* "up", or "down" after a panic
  cookie,    \* the cookie the client asks with next
  listed,    \* the names it was given so far, in order
  eof,       \* whether it was told the directory ends there
  scan       \* history of the scan: what was there all the time, how many
             \* came and went, a list without "." and ".."

vars == <<dir, changes, lost, call, server, cookie, listed, eof, scan>>
host == <<dir, changes>>
client == <<cookie, listed, eof>>

AllNames == Names \cup ToSet(Dots)
MaxEntries == Len(InitDir) + MaxChanges + Len(Dots)

ASSUME DirAssumption ==
  /\ InitDir \in Seq(Names) /\ IsInjective(InitDir)
  /\ Dots \in Seq(ToSet(Dots)) /\ Len(Dots) = 2 /\ IsInjective(Dots)
  /\ Names \cap ToSet(Dots) = {}
  /\ Size \in [AllNames -> Nat \ {0}]
  /\ ResokSize \in Nat /\ Counts \subseteq Nat
  /\ MaxChanges \in Nat /\ MaxLost \in Nat
  /\ Faults \subseteq {"dotdot", "dot"}

\* The two halves of a cookie: the entries counted, and those sent.
Start == [count |-> 0, sent |-> 0]
NoPage == [entries |-> <<>>, next |-> Start, eof |-> FALSE]
Idle == [pc |-> "idle", cookie |-> Start, limit |-> 0, entries |-> <<>>,
         page |-> NoPage]

-----------------------------------------------------------------------------
(* The directory changes. *)

AddEntry ==
  /\ changes < MaxChanges
  /\ \E name \in Names \ ToSet(dir), k \in 1 .. Len(dir) + 1 :
       dir' = InsertAt(dir, k, name)
  /\ changes' = changes + 1
  /\ scan' = [scan EXCEPT !.added = @ + 1]
  /\ UNCHANGED <<lost, call, server, client>>

RemoveEntry ==
  /\ changes < MaxChanges
  /\ \E k \in 1 .. Len(dir) :
       /\ dir' = RemoveAt(dir, k)
       /\ scan' = [scan EXCEPT !.there = @ \ {dir[k]}, !.removed = @ + 1]
  /\ changes' = changes + 1
  /\ UNCHANGED <<lost, call, server, client>>

-----------------------------------------------------------------------------
(* The handler. *)

ReadDirCall ==
  /\ server = "up" /\ call.pc = "idle" /\ ~eof
  /\ \E limit \in Counts :
       call' = [Idle EXCEPT !.pc = "list", !.cookie = cookie, !.limit = limit]
  /\ UNCHANGED <<host, lost, server, client, scan>>

\* Readdir(-1), then the Lstats of ".." and ".": the error of the first is
\* lost when the second succeeds, and what it did not find is in the list.
List ==
  /\ server = "up" /\ call.pc = "list"
  /\ \E err \in {"none"} \cup Faults :
       /\ call' = [call EXCEPT !.pc = IF err = "dotdot" THEN "nil" ELSE "fill",
                     !.entries = IF err = "dot" THEN dir ELSE dir \o Dots]
       /\ scan' = [scan EXCEPT !.nodots = @ \/ err = "dot"]
  /\ UNCHANGED <<host, lost, server, client>>

\* The bytes of a reply with the entries i + 1 .. m.
PageSize(entries, i, m) ==
  FoldLeft(LAMBDA size, name : size + Size[name], ResokSize,
           SubSeq(entries, i + 1, m))

\* How far the loop over the entries gets.
Fitting(entries, i, limit) ==
  Max({i} \cup {m \in i .. Len(entries) : PageSize(entries, i, m) <= limit})

\* Mutants of NextCookie: the entry itself instead of the one after it; one
\* too many.
CookieOfEntry(count, i) == [count |-> count, sent |-> i - 1]
CookieTooFar(count, i) == [count |-> count, sent |-> i + 1]

\* The cookie of the i-th entry.
NextCookie(count, i) == [count |-> count, sent |-> i]

\* Mutants of IsEof: never reset; never set.
EofAlways(entries, m) == TRUE
EofNever(entries, m) == FALSE

IsEof(entries, m) == m >= Len(entries)

\* The entries after those the cookie counts; a client goes on from the last.
Fill ==
  /\ server = "up" /\ call.pc = "fill"
  /\ LET i == call.cookie.sent
         m == Fitting(call.entries, i, call.limit)
     IN  call' = [call EXCEPT !.pc = "reply",
           !.page = [entries |-> SubSeq(call.entries, i + 1, m),
                     next |-> IF m = i THEN call.cookie
                              ELSE NextCookie(Len(call.entries), m),
                     eof |-> IsEof(call.entries, m)]]
  /\ UNCHANGED <<host, lost, server, client, scan>>

\* The name of a ".." that was not found is asked for once the loop gets there.
FillNil ==
  /\ server = "up" /\ call.pc = "nil"
  /\ LET last == Len(call.entries) IN
     IF Fitting(call.entries, call.cookie.sent, call.limit) + 1 < last
        \/ call.cookie.sent >= last
     THEN call' = [call EXCEPT !.pc = "fill"] /\ UNCHANGED server
     ELSE server' = "down" /\ UNCHANGED call
  /\ UNCHANGED <<host, lost, client, scan>>

-----------------------------------------------------------------------------
(* The client. *)

Return ==
  /\ server = "up" /\ call.pc = "reply"
  /\ cookie' = call.page.next
  /\ listed' = listed \o call.page.entries
  /\ eof' = call.page.eof
  /\ call' = Idle
  /\ UNCHANGED <<host, lost, server, scan>>

\* The reply does not arrive, and the client asks again.
Lose ==
  /\ call.pc = "reply" /\ lost < MaxLost
  /\ lost' = lost + 1
  /\ call' = Idle
  /\ UNCHANGED <<host, server, client, scan>>

Init ==
  /\ dir = InitDir /\ changes = 0 /\ lost = 0
  /\ call = Idle /\ server = "up"
  /\ cookie = Start /\ listed = <<>> /\ eof = FALSE
  /\ scan = [there |-> ToSet(InitDir \o Dots), added |-> 0,
             removed |-> 0, nodots |-> FALSE]

ReadDir == ReadDirCall \/ List \/ Fill \/ FillNil \/ Return
Next == ReadDir \/ AddEntry \/ RemoveEntry \/ Lose

Spec == Init /\ [][Next]_vars

\* The client goes on to the end and the handler runs.
FairSpec == Spec /\ WF_vars(ReadDir)

-----------------------------------------------------------------------------
(* Properties. *)

Cookies == [count : 0 .. MaxEntries, sent : 0 .. MaxEntries]
Listings == Seq(AllNames)

\* Every variable has its type; a cookie counts no entry past those it was
\* made from.
TypeOK ==
  /\ dir \in Seq(Names) /\ IsInjective(dir)
  /\ changes \in 0 .. MaxChanges /\ lost \in 0 .. MaxLost
  /\ server \in {"up", "down"} /\ eof \in BOOLEAN
  /\ listed \in Listings /\ call.entries \in Listings
  /\ call.pc \in {"idle", "list", "fill", "nil", "reply"}
  /\ \A c \in {cookie, call.cookie, call.page.next} :
       c \in Cookies /\ c.sent <= c.count
  /\ scan.there \subseteq AllNames

\* ReadDir, whose cookies are positions in a list that shifts: of the entries
\* that were there all the time the scan misses at most one for each entry
\* removed, and "." and ".." if their Lstat failed, whatever is added, and
\* however the replies are cut and lost.
MissedAtMostRemoved ==
  eof => Cardinality(scan.there \ ToSet(listed))
           <= scan.removed + (IF scan.nodots THEN Len(Dots) ELSE 0)

\* And it gives at most one entry twice for each entry added.
TwiceAtMostAdded ==
  Len(listed) - Cardinality(ToSet(listed)) <= scan.added

\* The loop of the client: if every entry fits the limits it asks with, pages
\* get on and the scan ends, unless the server did.
ScanEnds == <>(eof \/ server = "down")
=============================================================================
