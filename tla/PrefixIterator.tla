--------------------------- MODULE PrefixIterator ---------------------------
(***************************************************************************)
(* iterator.go: walks over the keys of one prefix while others write.  A   *)
(* walk goes over the rows themselves (kind "pk") or over index entries    *)
(* whose value is the primary key of a row (kind "index").  Keys are the   *)
(* positions they have in byte order under the prefix, 0 being no key.     *)
(* The walks: "iterate" is IterationByPkPrefix / IterationByIndexPrefix    *)
(* over PageBy...Raw, "scan" is ScanAllByPKPrefixRaw/ScanByIndexPrefixRaw, *)
(* "first" and "last" are FirstBy...Raw and LastBy...Raw.  Badger is       *)
(* external: each View, hence each page, reads one snapshot.               *)
(***************************************************************************)
EXTENDS Integers, Sequences, FiniteSetsExt, Functions

CONSTANTS
    NumRows,      \* how many primary keys there can be under the pk prefix
    NumEntries,   \* how many keys there can be under the index prefix
    MaxLimit,     \* page sizes go from 0, no limit, to this
    MaxWrites     \* bound: how many times others write during one walk

ASSUME BoundsAssumption ==
    /\ NumRows \in Nat \ {0}
    /\ NumEntries \in Nat \ {0}
    /\ MaxLimit \in Nat
    /\ MaxWrites \in Nat

None  == 0
Row   == 1 .. NumRows
Entry == 1 .. NumEntries

VARIABLES
    rows,     \* the primary keys that have a row
    index,    \* the primary key each index entry holds, None if it is not there
    writes,   \* how many times others have written during this walk
    what,     \* the walk: "iterate", "scan", "first" or "last"
    kind,     \* "pk" or "index"
    phase,    \* where the walk is
    cursor,   \* the key to go on after
    limit,    \* pageSize
    snap,     \* what the View under way reads
    at,       \* the position of Badger's iterator, None once it is not valid
    page,     \* the keys the View has come up with, in order
    seen,     \* the keys handed to the caller since its first call
    stable    \* the keys beyond the starting cursor visible ever since

store == <<rows, index, writes>>
walk  == <<what, kind, limit>>
ivars == <<store, walk, phase, cursor, snap, at, page, seen, stable>>

Now     == [rows |-> rows, index |-> index]
Nothing == [rows |-> {}, index |-> [i \in Entry |-> None]]

-----------------------------------------------------------------------------
(* What a snapshot holds.                                                  *)

Keys == IF kind = "pk" THEN Row ELSE Entry

Present(s, k) == IF kind = "pk" THEN k \in s.rows ELSE s.index[k] # None
RowOf(s, k)   == IF kind = "pk" THEN k ELSE s.index[k]

\* An index entry whose row is gone dangles: no walk shows it.
Dangling(s, k) == RowOf(s, k) \notin s.rows
Visible(s, k)  == Present(s, k) /\ ~Dangling(s, k)

Least(S)    == IF S = {} THEN None ELSE Min(S)
Greatest(S) == IF S = {} THEN None ELSE Max(S)

\* Badger's iterator: the first key from k on, or the last key up to k.
SeekFrom(s, k) == Least({j \in Keys : j >= k /\ Present(s, j)})
SeekBack(s, k) == Greatest({j \in Keys : j <= k /\ Present(s, j)})

\* it.Next() goes left in a reverse iterator.
NextOf(s, k) == IF what = "last" THEN SeekBack(s, k - 1) ELSE SeekFrom(s, k + 1)

Init ==
    /\ rows \in SUBSET Row
    /\ index \in [Entry -> Row \cup {None}]
    /\ writes = 0
    /\ what = "iterate"
    /\ kind = "pk"
    /\ phase = "idle"
    /\ cursor = None
    /\ limit = 0
    /\ snap = Nothing
    /\ at = None
    /\ page = <<>>
    /\ seen = <<>>
    /\ stable = {}

-----------------------------------------------------------------------------
(* The caller starts a walk.                                               *)

VisibleAfter(c) == {k \in Keys : k > c /\ Visible(Now, k)}

Begin(w, kd, c, l) ==
    /\ phase = "idle"
    /\ phase' = "open"
    /\ what' = w
    /\ kind' = kd
    /\ cursor' = c
    /\ limit' = l
    /\ seen' = <<>>
    /\ UNCHANGED <<store, snap, at, page>>
    /\ stable' = VisibleAfter(c)'

\* Only IterationBy...Prefix takes a cursor, from an earlier walk or none.
Walk ==
    \/ \E kd \in {"pk", "index"}, l \in 0 .. MaxLimit :
          \/ \E c \in 0 .. (IF kd = "pk" THEN NumRows ELSE NumEntries) : Begin("iterate", kd, c, l)
          \/ Begin("scan", kd, None, l)
    \/ \E kd \in {"pk", "index"}, w \in {"first", "last"} : Begin(w, kd, None, 1)

\* "To go on later, after new records have appeared" (iterator.go:334-335):
\* the caller iterates again from the cursor it got back.
Resume ==
    /\ phase = "done"
    /\ what = "iterate"
    /\ phase' = "open"
    /\ stable' = VisibleAfter(cursor)
    /\ UNCHANGED <<store, walk, cursor, snap, at, page, seen>>

-----------------------------------------------------------------------------
(* One View.                                                               *)

\* Mutant of Start: the key under the cursor is not stepped over.
StartAtCursor == SeekFrom(Now, IF cursor = None THEN 1 ELSE cursor)

\* Seek(cursor), and one step more if the cursor's key is still there.
Start ==
    LET k == SeekFrom(Now, IF cursor = None THEN 1 ELSE cursor)
    IN  IF what = "last" THEN SeekBack(Now, IF kind = "pk" THEN NumRows ELSE NumEntries)
        ELSE IF k # None /\ k = cursor THEN SeekFrom(Now, k + 1)
        ELSE k

OpenView ==
    /\ phase = "open"
    /\ phase' = "loop"
    /\ snap' = Now
    /\ at' = Start
    /\ page' = <<>>
    /\ UNCHANGED <<store, walk, cursor, seen, stable>>

\* Mutant of SkipDangling: the row is looked up outside the View.
SkipByLiveRows ==
    /\ phase = "loop"
    /\ at # None
    /\ RowOf(snap, at) \notin rows
    /\ at' = NextOf(snap, at)
    /\ UNCHANGED <<store, walk, phase, cursor, snap, page, seen, stable>>

\* Mutant of SkipDangling: break for continue.
StopAtDangling ==
    /\ phase = "loop"
    /\ at # None
    /\ Dangling(snap, at)
    /\ at' = None
    /\ UNCHANGED <<store, walk, phase, cursor, snap, page, seen, stable>>

\* txn.Get(pk) finds no row: continue with the next index entry.
SkipDangling ==
    /\ phase = "loop"
    /\ at # None
    /\ Dangling(snap, at)
    /\ at' = NextOf(snap, at)
    /\ UNCHANGED <<store, walk, phase, cursor, snap, page, seen, stable>>

\* A scan hands each row to onRow at once; the others return when the View does.
Closed == IF what = "iterate" THEN "lanes" ELSE "done"

\* Mutant of Full: the limit is noticed one row too late.
FullLate(p) == limit > 0 /\ Len(p) > limit

Full(p) == limit > 0 /\ Len(p) >= limit

TakeRow ==
    /\ phase = "loop"
    /\ at # None
    /\ ~Dangling(snap, at)
    /\ page' = Append(page, at)
    /\ seen' = IF what = "iterate" THEN seen ELSE Append(seen, at)
    /\ IF Full(page')
       THEN phase' = Closed /\ at' = None
       ELSE phase' = phase /\ at' = NextOf(snap, at)
    /\ UNCHANGED <<store, walk, cursor, snap, stable>>

\* The iterator has left the prefix; for "first" and "last" it is ErrNotFound.
EndView ==
    /\ phase = "loop"
    /\ at = None
    /\ phase' = Closed
    /\ UNCHANGED <<store, walk, cursor, snap, at, page, seen, stable>>

-----------------------------------------------------------------------------
(* IterationBy...Prefix after a page.                                      *)

\* Mutant of LanesDone: the walk goes on after an empty page too.
LanesDoneForever ==
    /\ phase = "lanes"
    /\ seen' = seen \o page
    /\ snap' = Nothing
    /\ page' = <<>>
    /\ phase' = "open"
    /\ cursor' = IF page = <<>> THEN cursor ELSE page[Len(page)]
    /\ UNCHANGED <<store, walk, at, stable>>

\* onLanes has taken the page, the last one, which is empty, included.  The
\* page's cursor is its last key; without one the walk is over, and the
\* caller gets the cursor of the page before.
LanesDone ==
    /\ phase = "lanes"
    /\ seen' = seen \o page
    /\ snap' = Nothing
    /\ page' = <<>>
    /\ IF page = <<>>
       THEN phase' = "done" /\ UNCHANGED cursor
       ELSE phase' = "open" /\ cursor' = page[Len(page)]
    /\ UNCHANGED <<store, walk, at, stable>>

\* onLanes or onRow fails, or Badger fails a read: the error ends the walk,
\* and a page that is not yet with the caller is lost.
Fails ==
    /\ phase \in {"loop", "lanes"}
    /\ phase' = "failed"
    /\ snap' = Nothing
    /\ at' = None
    /\ page' = <<>>
    /\ UNCHANGED <<store, walk, cursor, seen, stable>>

\* The caller is through with this walk.
Rest ==
    /\ phase \in {"done", "failed"}
    /\ phase' = "idle"
    /\ what' = "iterate" /\ kind' = "pk" /\ limit' = 0
    /\ cursor' = None /\ snap' = Nothing
    /\ page' = <<>> /\ seen' = <<>> /\ stable' = {}
    /\ writes' = 0
    /\ UNCHANGED <<rows, index, at>>

-----------------------------------------------------------------------------
(* The others: Engine.Set, SetObject and Delete of a row or an entry, and  *)
(* the transactions of demonstration.go that write both.                   *)

\* Still stable is what the write leaves visible.  Between two walks nobody
\* needs to write, since a walk may begin with any rows and entries.
Others(r, i) ==
    /\ phase # "idle"
    /\ writes < MaxWrites
    /\ writes' = writes + 1
    /\ rows' = r
    /\ index' = i
    /\ UNCHANGED <<walk, phase, cursor, snap, at, page, seen>>
    /\ stable' = {k \in stable : Visible(Now, k)'}

PutRow(p)         == Others(rows \cup {p}, index)
DeleteRow(p)      == Others(rows \ {p}, index)
PutEntry(i, p)    == Others(rows, [index EXCEPT ![i] = p])
DeleteEntry(i)    == Others(rows, [index EXCEPT ![i] = None])
Upsert(p, i, j)   == /\ i # j
                     /\ index[i] = p
                     /\ Others(rows \cup {p}, [index EXCEPT ![i] = None, ![j] = p])

Write ==
    \/ \E p \in Row : PutRow(p) \/ DeleteRow(p)
    \/ \E i \in Entry, p \in Row : PutEntry(i, p)
    \/ \E i \in Entry : DeleteEntry(i)
    \/ \E p \in Row, i, j \in Entry : Upsert(p, i, j)

View == OpenView \/ SkipDangling \/ TakeRow \/ EndView
Next == Walk \/ Resume \/ View \/ LanesDone \/ Fails \/ Rest \/ Write

Spec == Init /\ [][Next]_ivars

\* The walking goroutine is scheduled and onLanes returns.
FairSpec == Spec /\ WF_ivars(View) /\ WF_ivars(LanesDone \/ Fails)

-----------------------------------------------------------------------------
Snapshots == [rows : SUBSET Row, index : [Entry -> Row \cup {None}]]

(* Every variable keeps its type; a walk has a position only inside a View, *)
(* and a page is never longer than its limit.                               *)
ITypeOK ==
    /\ Now \in Snapshots /\ snap \in Snapshots
    /\ writes \in 0 .. MaxWrites
    /\ what \in {"iterate", "scan", "first", "last"}
    /\ kind \in {"pk", "index"}
    /\ phase \in {"idle", "open", "loop", "lanes", "done", "failed"}
    /\ cursor \in Keys \cup {None}
    /\ limit \in Nat
    /\ at \in Keys \cup {None}
    /\ at # None => phase = "loop" /\ Present(snap, at)
    /\ page \in Seq(Keys) /\ seen \in Seq(Keys)
    /\ limit > 0 => Len(page) <= limit
    /\ stable \subseteq Keys

(* A View that returns has come up with exactly what it was asked for, of   *)
(* one snapshot: the least keys beyond the cursor whose row is there, up to *)
(* the limit, or the greatest one.                                          *)
Wanted == {k \in Keys : k > cursor /\ Visible(snap, k)}

Asked == IF what = "last" THEN {k \in Wanted : \A j \in Wanted : j <= k}
         ELSE IF limit = 0 THEN Wanted
         ELSE {k \in Wanted : Cardinality({j \in Wanted : j <= k}) <= limit}

ViewIsExact == phase = "lanes" \/ (phase = "done" /\ what # "iterate") => Range(page) = Asked

(* No key is handed out twice, and all in key order, whatever is written    *)
(* between the pages and also when the walk is resumed from its cursor.     *)
InOrderOnce == \A i, j \in DOMAIN seen : i < j => seen[i] < seen[j]

(* A walk that ends well has handed out every key that was there, with its  *)
(* row, all along: no write to other keys, no dangling entry at the end of  *)
(* a page and no deletion of the cursor's key makes it skip one.            *)
NothingSkipped == phase = "done" /\ what = "iterate" => stable \subseteq Range(seen)

(* Every walk over keys that do not become more and more beyond its cursor  *)
(* ends, though a page that is not empty always has a successor.            *)
WalkEnds == phase \in {"open", "loop", "lanes"} ~> phase \in {"done", "failed"}

=============================================================================
