------------------------ MODULE PrefixIteratorProofs ------------------------
(***************************************************************************)
(* Theorems about PrefixIterator, for any number of rows and entries, any  *)
(* page size and any writes beside a walk: its types, that a walk hands    *)
(* out keys in order and once, that it skips none that stays, and that     *)
(* each View comes up with exactly what it was asked for.                  *)
(***************************************************************************)
EXTENDS PrefixIterator, FiniteSetTheorems, SequenceTheorems, WellFoundedInduction, TLAPS

Increasing(s) == \A i, j \in DOMAIN s : i < j => s[i] < s[j]

(* What the walks other than "iterate" and the page size have to do with   *)
(* where the walk is.                                                      *)
WalkInv ==
    /\ what \in {"first", "last"} => limit = 1
    /\ phase = "lanes" => what = "iterate"
    /\ phase = "idle" => page = <<>>
    /\ phase = "loop" /\ limit > 0 => Len(page) < limit

(* What the caller has is in order, and nothing of it is beyond the cursor.*)
SeenInv ==
    /\ Increasing(seen)
    /\ what = "iterate" => \A i \in DOMAIN seen : seen[i] <= cursor
    /\ what # "iterate" /\ phase = "open" => seen = <<>>
    /\ what # "iterate" /\ phase = "loop" => seen = page

(* A View goes up from the cursor, and has taken or still has before it    *)
(* every key of its snapshot.                                              *)
Upward == what # "last" /\ phase \in {"loop", "lanes"}

Ahead(k) == \/ phase = "loop" /\ at # None /\ k >= at
            \/ phase = "lanes" /\ page # <<>> /\ k > page[Len(page)]

PageInv ==
    /\ Upward => /\ Increasing(page)
                 /\ \A i \in DOMAIN page : page[i] > cursor
                 /\ phase = "loop" /\ at # None =>
                       at > cursor /\ \A i \in DOMAIN page : page[i] < at
    /\ Upward /\ what = "iterate" =>
          \A k \in Keys : k > cursor /\ Visible(snap, k) => k \in Range(page) \/ Ahead(k)

(* The keys that have been visible all along are visible in the snapshot;  *)
(* up to the cursor the caller has them.                                   *)
StableInv ==
    /\ \A k \in stable : k \in Keys /\ Visible(Now, k)
    /\ phase \in {"loop", "lanes"} => \A k \in stable : Visible(snap, k)
    /\ what = "iterate" /\ phase \in {"open", "loop", "lanes", "done"} =>
          \A k \in stable : k <= cursor => k \in Range(seen)
    /\ what = "iterate" /\ phase = "done" => \A k \in stable : k <= cursor

PInv == ITypeOK /\ WalkInv /\ SeenInv /\ PageInv /\ StableInv

-----------------------------------------------------------------------------
(* Badger's iterator.                                                      *)

Below == {ss \in Nat \X Nat : ss[1] < ss[2]}

\* A set of natural numbers that is not empty has a least element.
LEMMA LeastElement ==
  ASSUME NEW S \in SUBSET Nat, S # {}
  PROVE  Min(S) \in S /\ \A y \in S : Min(S) <= y
  <1>1. IsWellFoundedOn(Below, Nat)
    BY NatLessThanWellFounded DEF OpToRel, Below
  <1>2. \E x \in S : \A y \in S : <<y, x>> \notin Below
    BY <1>1, WFMin
  <1>3. \A x, y \in Nat : <<y, x>> \in Below <=> y < x
    BY DEF Below
  <1>4. \E x \in S : \A y \in S : x <= y
    <2>1. PICK x \in S : \A y \in S : <<y, x>> \notin Below
      BY <1>2
    <2>2. ASSUME NEW y \in S PROVE x <= y
      <3>1. ~(y < x) /\ x \in Nat /\ y \in Nat
        BY <1>3, <2>1
      <3> QED BY <3>1
    <2> QED BY <2>2
  <1> QED BY <1>4 DEF Min

\* ... and a greatest one if it has a bound.
LEMMA GreatestElement ==
  ASSUME NEW n \in Nat, NEW S \in SUBSET (0 .. n), S # {}
  PROVE  Max(S) \in S /\ \A y \in S : Max(S) >= y
  <1> DEFINE T == {n - x : x \in S}
  <1>1. T \in SUBSET Nat /\ T # {}
    <2>1. \A x \in S : n - x \in Nat
      OBVIOUS
    <2> QED BY <2>1
  <1>2. Min(T) \in T /\ \A y \in T : Min(T) <= y
    BY <1>1, LeastElement
  <1>3. PICK x \in S : Min(T) = n - x
    BY <1>2
  <1>4. \A y \in S : n - y \in T
    OBVIOUS
  <1>5. \A y \in S : x >= y
    BY <1>2, <1>3, <1>4
  <1> QED BY <1>5 DEF Max

KeysType == kind \in {"pk", "index"}

\* Where a seek forward ends: at the first key from k on, or nowhere.
LEMMA SeekForward ==
  ASSUME KeysType, NEW s, NEW k \in Int
  PROVE  \/ SeekFrom(s, k) = None /\ \A j \in Keys : j >= k => ~Present(s, j)
         \/ /\ SeekFrom(s, k) \in Keys /\ SeekFrom(s, k) >= k /\ Present(s, SeekFrom(s, k))
            /\ \A j \in Keys : j >= k /\ Present(s, j) => SeekFrom(s, k) <= j
  <1> DEFINE S == {j \in Keys : j >= k /\ Present(s, j)}
  <1>1. S \in SUBSET Nat
    BY BoundsAssumption DEF Keys, Row, Entry, KeysType
  <1>2. S # {} => Min(S) \in S /\ \A y \in S : Min(S) <= y
    BY <1>1, LeastElement
  <1>3. SeekFrom(s, k) = IF S = {} THEN None ELSE Min(S)
    BY DEF SeekFrom, Least
  <1> QED BY <1>2, <1>3

\* A seek backward ends at the last key up to k, or nowhere.
LEMMA SeekBackward ==
  ASSUME KeysType, NEW s, NEW k \in Int
  PROVE  \/ SeekBack(s, k) = None /\ \A j \in Keys : j <= k => ~Present(s, j)
         \/ /\ SeekBack(s, k) \in Keys /\ SeekBack(s, k) <= k /\ Present(s, SeekBack(s, k))
            /\ \A j \in Keys : j <= k /\ Present(s, j) => SeekBack(s, k) >= j
  <1> DEFINE S == {j \in Keys : j <= k /\ Present(s, j)}
             n == IF kind = "pk" THEN NumRows ELSE NumEntries
  <1>1. n \in Nat /\ S \in SUBSET (0 .. n)
    BY BoundsAssumption DEF Keys, Row, Entry, KeysType
  <1> HIDE DEF n
  <1>2. S # {} => Max(S) \in S /\ \A y \in S : Max(S) >= y
    BY <1>1, GreatestElement
  <1>3. SeekBack(s, k) = IF S = {} THEN None ELSE Max(S)
    BY DEF SeekBack, Greatest
  <1> QED BY <1>2, <1>3

-----------------------------------------------------------------------------
(* Sequences of keys.                                                      *)

\* The last of an increasing sequence is the greatest.
LEMMA LastIsGreatest ==
  ASSUME NEW S \in SUBSET Nat, NEW s \in Seq(S), Increasing(s), s # <<>>
  PROVE  s[Len(s)] \in S /\ s[Len(s)] \in Range(s) /\ \A i \in DOMAIN s : s[i] <= s[Len(s)]
  <1>1. Len(s) \in Nat \ {0} /\ DOMAIN s = 1 .. Len(s) /\ \A i \in DOMAIN s : s[i] \in S
    BY EmptySeq, LenProperties
  <1>2. Len(s) \in DOMAIN s
    BY <1>1
  <1>3. ASSUME NEW i \in DOMAIN s PROVE s[i] <= s[Len(s)]
    <2>1. i = Len(s) \/ i < Len(s)
      BY <1>1
    <2>2. s[i] \in Nat /\ s[Len(s)] \in Nat
      BY <1>1, <1>2
    <2>3. i < Len(s) => s[i] < s[Len(s)]
      BY <1>2 DEF Increasing
    <2> QED BY <2>1, <2>2, <2>3
  <1> QED BY <1>1, <1>2, <1>3 DEF Range

\* One key more, greater than all before it.
LEMMA AppendUp ==
  ASSUME NEW S \in SUBSET Nat, NEW s \in Seq(S), NEW e \in S
  PROVE  /\ Append(s, e) \in Seq(S) /\ Len(Append(s, e)) = Len(s) + 1
         /\ Append(s, e) # <<>> /\ Append(s, e)[Len(s) + 1] = e
         /\ Range(Append(s, e)) = Range(s) \cup {e}
         /\ \A i \in DOMAIN Append(s, e) : Append(s, e)[i] = e \/ \E j \in DOMAIN s : Append(s, e)[i] = s[j]
         /\ Increasing(s) /\ (\A i \in DOMAIN s : s[i] < e) => Increasing(Append(s, e))
  <1> DEFINE t == Append(s, e)
             n == Len(s)
  <1>1. /\ n \in Nat /\ DOMAIN s = 1 .. n /\ DOMAIN t = 1 .. (n + 1) /\ t \in Seq(S) /\ Len(t) = n + 1
        /\ t # <<>> /\ t[n + 1] = e /\ \A i \in 1 .. n : t[i] = s[i]
    BY AppendProperties, LenProperties
  <1> HIDE DEF t, n
  <1>2. \A i \in 1 .. (n + 1) : i = n + 1 \/ i \in 1 .. n
    BY <1>1
  <1>3. \A i \in DOMAIN t : t[i] = e \/ \E j \in DOMAIN s : t[i] = s[j]
    BY <1>1, <1>2
  <1>4. Range(t) = Range(s) \cup {e}
    <2>1. n + 1 \in DOMAIN t /\ \A j \in DOMAIN s : j \in DOMAIN t /\ t[j] = s[j]
      BY <1>1
    <2> QED BY <1>1, <1>3, <2>1 DEF Range
  <1>5. ASSUME Increasing(s), \A i \in DOMAIN s : s[i] < e, NEW i \in DOMAIN t, NEW j \in DOMAIN t, i < j
        PROVE  t[i] < t[j]
    <2>1. i \in DOMAIN s /\ t[i] = s[i]
      BY <1>1, <1>5
    <2>2. CASE j = n + 1
      BY <1>1, <1>5, <2>1, <2>2
    <2>3. CASE j \in 1 .. n
      BY <1>1, <1>5, <2>1, <2>3 DEF Increasing
    <2> QED BY <1>1, <1>2, <2>2, <2>3
  <1> QED BY <1>1, <1>3, <1>4, <1>5 DEF Increasing, t, n

\* One page after what the caller has.
LEMMA ConcatUp ==
  ASSUME NEW S \in SUBSET Nat, NEW s \in Seq(S), NEW t \in Seq(S),
         NEW r, DOMAIN r = 1 .. (Len(s) + Len(t)),
         \A i \in 1 .. (Len(s) + Len(t)) : r[i] = IF i <= Len(s) THEN s[i] ELSE t[i - Len(s)]
  PROVE  /\ Range(r) = Range(s) \cup Range(t)
         /\ \A i \in DOMAIN r :
               (\E j \in DOMAIN s : r[i] = s[j]) \/ (\E j \in DOMAIN t : r[i] = t[j])
         /\ /\ Increasing(s) /\ Increasing(t)
            /\ \A i \in DOMAIN s, j \in DOMAIN t : s[i] < t[j]
            => Increasing(r)
  <1> DEFINE m == Len(s)
             n == Len(t)
  <1>1. /\ m \in Nat /\ n \in Nat /\ DOMAIN s = 1 .. m /\ DOMAIN t = 1 .. n
        /\ DOMAIN r = 1 .. (m + n)
        /\ \A i \in 1 .. (m + n) : r[i] = IF i <= m THEN s[i] ELSE t[i - m]
    BY LenProperties
  <1> HIDE DEF m, n
  <1>2. /\ \A i \in 1 .. (m + n) : i > m => i - m \in 1 .. n
        /\ \A i \in 1 .. (m + n) : ~(i > m) => i \in 1 .. m /\ i <= m
        /\ \A i \in 1 .. (m + n) : i > m => ~(i <= m)
        /\ \A i \in 1 .. m : i \in 1 .. (m + n) /\ i <= m
        /\ \A i \in 1 .. n : i + m \in 1 .. (m + n) /\ ~(i + m <= m) /\ (i + m) - m = i
    BY <1>1
  <1>3. \A i \in DOMAIN r : (\E j \in DOMAIN s : r[i] = s[j]) \/ (\E j \in DOMAIN t : r[i] = t[j])
    BY <1>1, <1>2
  <1>4. Range(r) = Range(s) \cup Range(t)
    <2>1. \A j \in DOMAIN s : j \in DOMAIN r /\ r[j] = s[j]
      BY <1>1, <1>2
    <2>2. \A j \in DOMAIN t : j + m \in DOMAIN r /\ r[j + m] = t[j]
      BY <1>1, <1>2
    <2> QED BY <1>3, <2>1, <2>2 DEF Range
  <1>5. ASSUME Increasing(s), Increasing(t), \A i \in DOMAIN s, j \in DOMAIN t : s[i] < t[j],
               NEW i \in DOMAIN r, NEW j \in DOMAIN r, i < j
        PROVE  r[i] < r[j]
    <2>1. i \in 1 .. (m + n) /\ j \in 1 .. (m + n)
      BY <1>1
    <2>2. CASE i > m
      <3>1. j > m /\ i - m < j - m
        BY <1>1, <1>5, <2>1, <2>2
      <3>2. r[i] = t[i - m] /\ r[j] = t[j - m] /\ i - m \in DOMAIN t /\ j - m \in DOMAIN t
        BY <1>1, <1>2, <2>1, <2>2, <3>1
      <3> QED BY <1>5, <3>1, <3>2 DEF Increasing
    <2>3. CASE ~(i > m) /\ j > m
      BY <1>1, <1>2, <1>5, <2>1, <2>3
    <2>4. CASE ~(i > m) /\ ~(j > m)
      <3>1. r[i] = s[i] /\ r[j] = s[j] /\ i \in DOMAIN s /\ j \in DOMAIN s
        BY <1>1, <1>2, <2>1, <2>4
      <3> QED BY <1>5, <3>1 DEF Increasing
    <2> QED BY <2>2, <2>3, <2>4
  <1> QED BY <1>1, <1>3, <1>4, <1>5 DEF Increasing, m, n

-----------------------------------------------------------------------------
(* One lemma per action.                                                   *)

\* What is a key in this walk, whatever the walk is over.
LEMMA KeysFacts ==
  ASSUME ITypeOK
  PROVE  /\ KeysType /\ Keys \in SUBSET Nat /\ None \notin Keys /\ cursor \in Nat
         /\ page \in Seq(Keys) /\ seen \in Seq(Keys)
         /\ <<>> \in Seq(Keys) /\ Len(page) \in Nat
         /\ DOMAIN page = 1 .. Len(page) /\ DOMAIN seen = 1 .. Len(seen)
         /\ \A i \in DOMAIN page : page[i] \in Keys
         /\ \A i \in DOMAIN seen : seen[i] \in Keys
  <1>1. KeysType /\ Keys \in SUBSET Nat /\ None \notin Keys
    BY BoundsAssumption DEF ITypeOK, KeysType, Keys, Row, Entry, None
  <1>2. page \in Seq(Keys) /\ seen \in Seq(Keys)
    BY DEF ITypeOK
  <1>3. cursor \in Nat
    BY <1>1 DEF ITypeOK, None
  <1> QED BY <1>1, <1>2, <1>3, EmptySeq, LenProperties

\* A walk begins with nothing to show and nothing behind it.
LEMMA BeginInv ==
  ASSUME PInv, NEW w \in {"iterate", "scan", "first", "last"}, NEW kd \in {"pk", "index"},
         NEW c, NEW l \in Nat, Begin(w, kd, c, l),
         c = None \/ c \in (IF kd = "pk" THEN Row ELSE Entry),
         w \in {"first", "last"} => l = 1
  PROVE  PInv'
  <1>1. /\ phase' = "open" /\ what' = w /\ kind' = kd /\ cursor' = c /\ limit' = l /\ seen' = <<>>
        /\ UNCHANGED <<rows, index, writes, snap, at, page>> /\ stable' = VisibleAfter(c)'
        /\ phase = "idle" /\ at = None /\ Now' = Now
    BY DEF Begin, store, PInv, ITypeOK, Now
  <1>2. page = <<>>
    BY <1>1 DEF PInv, WalkInv
  <1>3. ITypeOK'
    BY <1>1, <1>2, EmptySeq, BoundsAssumption DEF PInv, ITypeOK, Keys, VisibleAfter
  <1>4. c \in Nat
    BY BoundsAssumption DEF Row, Entry, None
  <1>5. WalkInv' /\ SeenInv' /\ PageInv'
    BY <1>1, <1>2 DEF WalkInv, SeenInv, PageInv, Increasing, Upward
  <1>6. StableInv'
    <2>1. \A k \in stable' : k \in Keys' /\ k > c /\ Visible(Now, k)'
      BY <1>1 DEF VisibleAfter
    <2>2. \A k \in Keys' : k \in Nat
      BY <1>1, BoundsAssumption DEF Keys, Row, Entry
    <2>3. \A k \in stable' : ~(k <= c)
      BY <1>4, <2>1, <2>2
    <2> QED BY <1>1, <2>1, <2>3 DEF StableInv
  <1> QED BY <1>3, <1>5, <1>6 DEF PInv

\* The caller goes on from the cursor it has.
LEMMA ResumeInv ==
  ASSUME PInv, Resume
  PROVE  PInv'
  <1>1. /\ phase = "done" /\ what = "iterate" /\ phase' = "open" /\ stable' = VisibleAfter(cursor)
        /\ UNCHANGED <<rows, index, writes, what, kind, limit, cursor, snap, at, page, seen>>
        /\ Keys' = Keys /\ Now' = Now
    BY DEF Resume, store, walk, Keys, Now
  <1>2. at = None
    BY <1>1 DEF PInv, ITypeOK
  <1>3. ITypeOK'
    BY <1>1, <1>2 DEF PInv, ITypeOK, VisibleAfter
  <1>4. WalkInv' /\ SeenInv' /\ PageInv'
    BY <1>1 DEF PInv, WalkInv, SeenInv, PageInv, Upward, Increasing
  <1>5. StableInv'
    <2>1. \A k \in stable' : k \in Keys /\ k > cursor /\ Visible(Now, k)
      BY <1>1 DEF VisibleAfter
    <2>2. \A k \in stable' : ~(k <= cursor)
      BY <2>1, KeysFacts DEF PInv
    <2>3. \A k \in stable' : Visible(Now, k)'
      BY <1>1, <2>1 DEF Visible, Present, Dangling, RowOf
    <2> QED BY <1>1, <2>1, <2>2, <2>3 DEF StableInv
  <1> QED BY <1>3, <1>4, <1>5 DEF PInv

\* Where a View that goes up starts: at the first key beyond the cursor.
LEMMA StartUp ==
  ASSUME ITypeOK, what # "last"
  PROVE  \/ Start = None /\ \A j \in Keys : j > cursor => ~Present(Now, j)
         \/ /\ Start \in Keys /\ Start > cursor /\ Present(Now, Start)
            /\ \A j \in Keys : j > cursor /\ Present(Now, j) => Start <= j
  <1>0. KeysType /\ Keys \in SUBSET Nat /\ None \notin Keys /\ cursor \in Nat
    BY KeysFacts
  <1> DEFINE from == IF cursor = None THEN 1 ELSE cursor
             k == SeekFrom(Now, from)
  <1>1. from \in Nat /\ from >= cursor /\ \A j \in Keys : j > cursor => j >= from
    BY <1>0 DEF None
  <1>2. Start = IF k # None /\ k = cursor THEN SeekFrom(Now, k + 1) ELSE k
    BY DEF Start
  <1>3. \/ k = None /\ \A j \in Keys : j >= from => ~Present(Now, j)
        \/ /\ k \in Keys /\ k >= from /\ Present(Now, k)
           /\ \A j \in Keys : j >= from /\ Present(Now, j) => k <= j
    BY <1>0, <1>1, SeekForward
  <1> HIDE DEF from, k
  <1>4. \/ Start = None /\ \A j \in Keys : j > cursor => ~Present(Now, j)
        \/ /\ Start \in Keys /\ Start > cursor /\ Present(Now, Start)
           /\ \A j \in Keys : j > cursor /\ Present(Now, j) => Start <= j
    <2>1. CASE k = cursor /\ k # None
      <3>1. Start = SeekFrom(Now, cursor + 1) /\ cursor + 1 \in Int
        BY <1>0, <1>2, <2>1
      <3>2. \/ Start = None /\ \A j \in Keys : j >= cursor + 1 => ~Present(Now, j)
            \/ /\ Start \in Keys /\ Start >= cursor + 1 /\ Present(Now, Start)
               /\ \A j \in Keys : j >= cursor + 1 /\ Present(Now, j) => Start <= j
        BY <1>0, <3>1, SeekForward
      <3>3. \A j \in Keys : j > cursor <=> j >= cursor + 1
        BY <1>0
      <3> QED BY <3>2, <3>3
    <2>2. CASE ~(k = cursor /\ k # None)
      <3>1. Start = k
        BY <1>2, <2>2
      <3>2. k \in Keys /\ k >= from => k > cursor
        BY <1>0, <1>1, <2>2
      <3> QED BY <1>1, <1>3, <3>1, <3>2
    <2> QED BY <2>1, <2>2
  <1> QED BY <1>4

\* A View opens on the first key beyond the cursor.
LEMMA OpenViewInv ==
  ASSUME PInv, OpenView
  PROVE  PInv'
  <1>1. /\ phase = "open" /\ phase' = "loop" /\ snap' = Now /\ at' = Start /\ page' = <<>>
        /\ UNCHANGED <<rows, index, writes, what, kind, limit, cursor, seen, stable>>
        /\ Keys' = Keys /\ Now' = Now
    BY DEF OpenView, store, walk, Keys, Now
  <1>2. KeysType /\ Keys \in SUBSET Nat /\ None \notin Keys /\ cursor \in Nat /\ <<>> \in Seq(Keys)
    BY KeysFacts DEF PInv
  <1>3. \A k : Visible(snap, k)' = Visible(Now, k) /\ Visible(Now, k)' = Visible(Now, k)
               /\ Present(snap, k)' = Present(Now, k)
    BY <1>1 DEF Visible, Present, Dangling, RowOf
  <1>4. CASE what = "last"
    <2>1. Start = None \/ (Start \in Keys /\ Present(Now, Start))
      <3>1. Start = SeekBack(Now, IF kind = "pk" THEN NumRows ELSE NumEntries)
        BY <1>4 DEF Start
      <3>2. (IF kind = "pk" THEN NumRows ELSE NumEntries) \in Int
        BY BoundsAssumption
      <3> QED BY <1>2, <3>1, <3>2, SeekBackward
    <2>2. ITypeOK'
      BY <1>1, <1>2, <1>3, <2>1, EmptySeq DEF PInv, ITypeOK
    <2>3. WalkInv' /\ SeenInv' /\ PageInv'
      BY <1>1, <1>4, EmptySeq DEF PInv, WalkInv, SeenInv, PageInv, Upward, Increasing
    <2>4. StableInv'
      BY <1>1, <1>3, <1>4 DEF PInv, StableInv
    <2> QED BY <2>2, <2>3, <2>4 DEF PInv
  <1>5. CASE what # "last"
    <2>4. \/ Start = None /\ \A j \in Keys : j > cursor => ~Present(Now, j)
          \/ /\ Start \in Keys /\ Start > cursor /\ Present(Now, Start)
             /\ \A j \in Keys : j > cursor /\ Present(Now, j) => Start <= j
      BY <1>5, StartUp DEF PInv
    <2>5. ITypeOK'
      BY <1>1, <1>2, <1>3, <2>4, EmptySeq DEF PInv, ITypeOK
    <2>6. WalkInv' /\ SeenInv'
      BY <1>1, EmptySeq DEF PInv, WalkInv, SeenInv, Increasing
    <2>7. PageInv'
      <3>1. ASSUME NEW j \in Keys, j > cursor, Visible(Now, j) PROVE at' # None /\ j >= at'
        <4>1. Present(Now, j)
          BY <3>1 DEF Visible
        <4>2. Start \in Keys /\ Start <= j
          BY <2>4, <3>1, <4>1
        <4> QED BY <1>1, <1>2, <3>1, <4>2
      <3>2. at' # None => at' > cursor
        BY <1>1, <2>4
      <3> QED BY <1>1, <1>3, <3>1, <3>2 DEF PageInv, Upward, Increasing, Ahead
    <2>8. StableInv'
      BY <1>1, <1>3 DEF PInv, StableInv
    <2> QED BY <2>5, <2>6, <2>7, <2>8 DEF PInv
  <1> QED BY <1>4, <1>5

\* Where it.Next() goes in a walk that goes up: nothing lies between.
LEMMA NextUp ==
  ASSUME PInv, what # "last", phase = "loop", at # None
  PROVE  \/ NextOf(snap, at) = None /\ \A j \in Keys : j > at => ~Present(snap, j)
         \/ /\ NextOf(snap, at) \in Keys /\ NextOf(snap, at) > at /\ Present(snap, NextOf(snap, at))
            /\ \A j \in Keys : j > at /\ Present(snap, j) => NextOf(snap, at) <= j
  <1>1. KeysType /\ Keys \in SUBSET Nat /\ at \in Keys
    BY KeysFacts DEF PInv, ITypeOK
  <1>2. PICK n : n = NextOf(snap, at)
    OBVIOUS
  <1>3. n = SeekFrom(snap, at + 1) /\ at + 1 \in Int
    BY <1>1, <1>2 DEF NextOf
  <1>4. \/ n = None /\ \A j \in Keys : j >= at + 1 => ~Present(snap, j)
        \/ /\ n \in Keys /\ n >= at + 1 /\ Present(snap, n)
           /\ \A j \in Keys : j >= at + 1 /\ Present(snap, j) => n <= j
    BY <1>1, <1>3, SeekForward
  <1>5. \A j \in Keys : j > at <=> j >= at + 1
    BY <1>1
  <1> QED BY <1>2, <1>4, <1>5

\* And in one that goes down.
LEMMA NextDown ==
  ASSUME PInv, what = "last", phase = "loop", at # None, NEW k \in Keys, k < at, Present(snap, k)
  PROVE  NextOf(snap, at) # None /\ NextOf(snap, at) >= k
  <1>1. KeysType /\ Keys \in SUBSET Nat /\ None \notin Keys /\ at \in Keys
    BY KeysFacts DEF PInv, ITypeOK
  <1>2. PICK n : n = NextOf(snap, at)
    OBVIOUS
  <1>3. n = SeekBack(snap, at - 1) /\ at - 1 \in Int /\ k <= at - 1
    BY <1>1, <1>2 DEF NextOf
  <1>4. n \in Keys /\ n >= k
    BY <1>1, <1>3, SeekBackward
  <1> QED BY <1>1, <1>2, <1>4

\* Going down it ends at a key that is there, or nowhere.
LEMMA NextType ==
  ASSUME PInv, phase = "loop", at # None
  PROVE  NextOf(snap, at) = None \/ (NextOf(snap, at) \in Keys /\ Present(snap, NextOf(snap, at)))
  <1>1. KeysType /\ Keys \in SUBSET Nat /\ at \in Keys
    BY KeysFacts DEF PInv, ITypeOK
  <1>2. at - 1 \in Int
    BY <1>1
  <1> QED BY <1>1, <1>2, NextUp, SeekBackward DEF NextOf

\* The walk leaves a dangling entry out.
LEMMA SkipInv ==
  ASSUME PInv, SkipDangling
  PROVE  PInv'
  <1>1. /\ phase = "loop" /\ at # None /\ Dangling(snap, at) /\ at' = NextOf(snap, at)
        /\ UNCHANGED <<rows, index, writes, what, kind, limit, phase, cursor, snap, page, seen, stable>>
        /\ Keys' = Keys /\ Now' = Now
    BY DEF SkipDangling, store, walk, Keys, Now
  <1>2. KeysType /\ Keys \in SUBSET Nat /\ None \notin Keys /\ at \in Keys /\ cursor \in Nat
        /\ \A i \in DOMAIN page : page[i] \in Keys
    BY <1>1, KeysFacts DEF PInv, ITypeOK
  <1>3. \A k : Visible(snap, k)' = Visible(snap, k) /\ Visible(Now, k)' = Visible(Now, k)
               /\ Present(snap, k)' = Present(snap, k)
    BY <1>1 DEF Visible, Present, Dangling, RowOf
  <1>4. ITypeOK'
    BY <1>1, <1>3, NextType DEF PInv, ITypeOK
  <1>5. WalkInv' /\ SeenInv'
    BY <1>1 DEF PInv, WalkInv, SeenInv, Increasing
  <1>6. PageInv'
    <2> SUFFICES ASSUME what # "last" PROVE PageInv'
      BY <1>1 DEF PageInv, Upward
    <2>1. \/ at' = None /\ \A j \in Keys : j > at => ~Present(snap, j)
          \/ /\ at' \in Keys /\ at' > at
             /\ \A j \in Keys : j > at /\ Present(snap, j) => at' <= j
      BY <1>1, NextUp
    <2>2. at > cursor /\ \A i \in DOMAIN page : page[i] < at
      BY <1>1 DEF PInv, PageInv, Upward
    <2>3. ASSUME at' # None PROVE at' > cursor /\ \A i \in DOMAIN page : page[i] < at'
      <3>1. at' \in Nat /\ at \in Nat /\ at' > at /\ cursor \in Nat
        BY <1>2, <2>1, <2>3
      <3>2. at' > cursor
        BY <2>2, <3>1
      <3>3. ASSUME NEW i \in DOMAIN page PROVE page[i] < at'
        <4>1. page[i] \in Nat /\ page[i] < at
          BY <1>2, <2>2, <3>3
        <4> QED BY <3>1, <4>1
      <3> QED BY <3>2, <3>3
    <2>4. ASSUME NEW j \in Keys, Visible(snap, j), j >= at PROVE at' # None /\ j >= at'
      <3>1. j # at /\ Present(snap, j)
        BY <1>1, <2>4 DEF Visible
      <3>2. j > at
        BY <1>2, <2>4, <3>1
      <3> QED BY <1>2, <2>1, <3>1, <3>2
    <2>5. ASSUME what = "iterate", NEW j \in Keys, j > cursor, Visible(snap, j)
          PROVE  j \in Range(page) \/ (at' # None /\ j >= at')
      BY <1>1, <2>4, <2>5 DEF PInv, PageInv, Upward, Ahead
    <2> QED BY <1>1, <1>3, <2>3, <2>5 DEF PInv, PageInv, Upward, Ahead, Increasing
  <1>7. StableInv'
    BY <1>1, <1>3 DEF PInv, StableInv
  <1> QED BY <1>4, <1>5, <1>6, <1>7 DEF PInv

\* The iterator has left the prefix.
LEMMA EndViewInv ==
  ASSUME PInv, EndView
  PROVE  PInv'
  <1>1. /\ phase = "loop" /\ at = None /\ phase' = Closed
        /\ UNCHANGED <<rows, index, writes, what, kind, limit, cursor, snap, at, page, seen, stable>>
        /\ Keys' = Keys /\ Now' = Now
        /\ phase' = IF what = "iterate" THEN "lanes" ELSE "done"
    BY DEF EndView, store, walk, Keys, Now, Closed
  <1>2. \A k : Visible(snap, k)' = Visible(snap, k) /\ Visible(Now, k)' = Visible(Now, k)
    BY <1>1 DEF Visible, Present, Dangling, RowOf
  <1>3. ITypeOK'
    BY <1>1 DEF PInv, ITypeOK
  <1>4. WalkInv' /\ SeenInv'
    BY <1>1 DEF PInv, WalkInv, SeenInv, Increasing
  <1>5. PageInv'
    BY <1>1, <1>2 DEF PInv, PageInv, Upward, Ahead, Increasing
  <1>6. StableInv'
    BY <1>1, <1>2 DEF PInv, StableInv
  <1> QED BY <1>3, <1>4, <1>5, <1>6 DEF PInv

\* The View comes up with one more row.
LEMMA TakeRowInv ==
  ASSUME PInv, TakeRow
  PROVE  PInv'
  <1>1. /\ phase = "loop" /\ at # None /\ ~Dangling(snap, at) /\ page' = Append(page, at)
        /\ seen' = IF what = "iterate" THEN seen ELSE Append(seen, at)
        /\ UNCHANGED <<rows, index, writes, what, kind, limit, cursor, snap, stable>>
        /\ Keys' = Keys /\ Now' = Now
    BY DEF TakeRow, store, walk, Keys, Now
  <1>2. \/ limit > 0 /\ Len(page') >= limit /\ at' = None
           /\ phase' = IF what = "iterate" THEN "lanes" ELSE "done"
        \/ ~(limit > 0 /\ Len(page') >= limit) /\ phase' = "loop" /\ at' = NextOf(snap, at)
    BY <1>1 DEF TakeRow, Full, Closed
  <1>3. /\ KeysType /\ Keys \in SUBSET Nat /\ None \notin Keys /\ at \in Keys /\ cursor \in Nat
        /\ page \in Seq(Keys) /\ seen \in Seq(Keys) /\ Len(page) \in Nat /\ limit \in Nat
        /\ Present(snap, at)
        /\ \A i \in DOMAIN page : page[i] \in Keys
    BY <1>1, KeysFacts DEF PInv, ITypeOK
  <1>4. /\ page' \in Seq(Keys) /\ Len(page') = Len(page) + 1
        /\ page' # <<>> /\ page'[Len(page')] = at
        /\ Range(page') = Range(page) \cup {at}
        /\ \A i \in DOMAIN page' : page'[i] = at \/ \E j \in DOMAIN page : page'[i] = page[j]
        /\ Increasing(page) /\ (\A i \in DOMAIN page : page[i] < at) => Increasing(page')
    BY <1>1, <1>3, AppendUp
  <1>5. seen' \in Seq(Keys)
    BY <1>1, <1>3, AppendProperties
  <1>6. \A k : Visible(snap, k)' = Visible(snap, k) /\ Visible(Now, k)' = Visible(Now, k)
               /\ Present(snap, k)' = Present(snap, k)
    BY <1>1 DEF Visible, Present, Dangling, RowOf
  <1>7. limit > 0 => Len(page) < limit
    BY <1>1 DEF PInv, WalkInv
  <1>8. limit > 0 => Len(page') <= limit
    BY <1>3, <1>4, <1>7
  <1>9. ITypeOK'
    <2>1. at' = None \/ (phase' = "loop" /\ at' \in Keys /\ Present(snap, at'))
      BY <1>1, <1>2, NextType
    <2>2. phase' \in {"loop", "lanes", "done"}
      BY <1>2
    <2> QED BY <1>1, <1>4, <1>5, <1>6, <1>8, <2>1, <2>2 DEF PInv, ITypeOK
  <1>10. WalkInv'
    <2>1. phase' = "loop" /\ limit > 0 => Len(page') < limit
      <3>1. phase' = "loop" /\ limit > 0 => ~(Len(page') >= limit)
        BY <1>2
      <3> QED BY <1>3, <1>4, <3>1
    <2> QED BY <1>1, <1>2, <2>1 DEF PInv, WalkInv
  <1>11. Increasing(page')
    <2>1. CASE what = "last"
      <3>1. limit = 1 /\ Len(page) = 0
        BY <1>3, <1>7, <2>1 DEF PInv, WalkInv
      <3>2. page = <<>>
        BY <1>3, <3>1, EmptySeq
      <3> QED BY <1>4, <3>2 DEF Increasing
    <2>2. CASE what # "last"
      BY <1>1, <1>4, <2>2 DEF PInv, PageInv, Upward
    <2> QED BY <2>1, <2>2
  <1>12. SeenInv'
    <2>1. CASE what = "iterate"
      BY <1>1, <2>1 DEF PInv, SeenInv, Increasing
    <2>2. CASE what # "iterate"
      <3>1. seen' = page'
        BY <1>1, <2>2 DEF PInv, SeenInv
      <3>2. phase' # "open"
        BY <1>2
      <3> QED BY <1>1, <1>11, <2>2, <3>1, <3>2 DEF SeenInv, Increasing
    <2> QED BY <2>1, <2>2
  <1>13. PageInv'
    <2> SUFFICES ASSUME what # "last" PROVE PageInv'
      BY <1>1 DEF PageInv, Upward
    <2>1. at > cursor /\ \A i \in DOMAIN page : page[i] < at /\ page[i] > cursor
      BY <1>1 DEF PInv, PageInv, Upward
    <2>2. \A i \in DOMAIN page' : page'[i] > cursor
      BY <1>4, <2>1
    <2>3. \/ NextOf(snap, at) = None /\ \A j \in Keys : j > at => ~Present(snap, j)
          \/ /\ NextOf(snap, at) \in Keys /\ NextOf(snap, at) > at
             /\ \A j \in Keys : j > at /\ Present(snap, j) => NextOf(snap, at) <= j
      BY <1>1, NextUp
    <2>4. ASSUME phase' = "loop", at' # None
          PROVE  at' > cursor /\ \A i \in DOMAIN page' : page'[i] < at'
      <3>1. at' \in Nat /\ at \in Nat /\ at' > at /\ cursor \in Nat
        BY <1>2, <1>3, <2>3, <2>4
      <3>2. at' > cursor
        BY <2>1, <3>1
      <3>3. ASSUME NEW i \in DOMAIN page' PROVE page'[i] < at'
        <4>1. PICK x \in Nat : x = page'[i]
          BY <1>3, <1>4
        <4>2. x = at \/ x < at
          BY <1>4, <2>1, <4>1
        <4> QED BY <3>1, <4>1, <4>2
      <3> QED BY <3>2, <3>3
    <2>5. ASSUME what = "iterate", NEW k \in Keys, k > cursor, Visible(snap, k)
          PROVE  \/ k \in Range(page')
                 \/ phase' = "loop" /\ at' # None /\ k >= at'
                 \/ phase' = "lanes" /\ page' # <<>> /\ k > page'[Len(page')]
      <3>1. k \in Range(page) \/ k >= at
        BY <1>1, <2>5 DEF PInv, PageInv, Upward, Ahead
      <3>2. CASE k \in Range(page) \/ k = at
        BY <1>4, <3>2
      <3>3. CASE k > at
        <4>1. Present(snap, k)
          BY <2>5 DEF Visible
        <4>2. NextOf(snap, at) # None /\ NextOf(snap, at) <= k /\ NextOf(snap, at) \in Nat /\ k \in Nat
          BY <1>3, <2>3, <3>3, <4>1
        <4>3. CASE phase' = "loop"
          BY <1>2, <4>2, <4>3
        <4>4. CASE phase' # "loop"
          BY <1>2, <1>4, <2>5, <3>3, <4>4
        <4> QED BY <4>3, <4>4
      <3> QED BY <1>3, <3>1, <3>2, <3>3
    <2> QED BY <1>1, <1>6, <1>11, <2>2, <2>4, <2>5 DEF PageInv, Upward, Ahead
  <1>14. StableInv'
    BY <1>1, <1>2, <1>6 DEF PInv, StableInv
  <1> QED BY <1>9, <1>10, <1>12, <1>13, <1>14 DEF PInv

\* The caller has taken the page.
LEMMA LanesDoneInv ==
  ASSUME PInv, LanesDone
  PROVE  PInv'
  <1>1. /\ phase = "lanes" /\ seen' = seen \o page /\ snap' = Nothing /\ page' = <<>>
        /\ UNCHANGED <<rows, index, writes, what, kind, limit, at, stable>>
        /\ Keys' = Keys /\ Now' = Now
        /\ \/ page = <<>> /\ phase' = "done" /\ cursor' = cursor
           \/ page # <<>> /\ phase' = "open" /\ cursor' = page[Len(page)]
    BY DEF LanesDone, store, walk, Keys, Now
  <1>2. what = "iterate" /\ at = None
    BY <1>1 DEF PInv, WalkInv, ITypeOK
  <1>3. /\ Keys \in SUBSET Nat /\ None \notin Keys /\ cursor \in Nat /\ <<>> \in Seq(Keys)
        /\ page \in Seq(Keys) /\ seen \in Seq(Keys) /\ Len(page) \in Nat
        /\ \A i \in DOMAIN page : page[i] \in Keys
        /\ \A i \in DOMAIN seen : seen[i] \in Keys
    BY KeysFacts DEF PInv
  <1>4. Increasing(page) /\ Increasing(seen) /\ (\A i \in DOMAIN page : page[i] > cursor)
        /\ \A i \in DOMAIN seen : seen[i] <= cursor
    BY <1>1, <1>2 DEF PInv, PageInv, SeenInv, Upward
  <1>5. /\ seen' \in Seq(Keys) /\ Range(seen') = Range(seen) \cup Range(page)
        /\ \A i \in DOMAIN seen' :
              (\E j \in DOMAIN seen : seen'[i] = seen[j]) \/ (\E j \in DOMAIN page : seen'[i] = page[j])
        /\ /\ Increasing(seen) /\ Increasing(page)
           /\ \A i \in DOMAIN seen, j \in DOMAIN page : seen[i] < page[j]
           => Increasing(seen')
    <2>1. /\ seen' \in Seq(Keys) /\ Len(seen') = Len(seen) + Len(page)
          /\ \A i \in 1 .. (Len(seen) + Len(page)) :
                seen'[i] = IF i <= Len(seen) THEN seen[i] ELSE page[i - Len(seen)]
      BY <1>1, <1>3, ConcatProperties
    <2>2. DOMAIN seen' = 1 .. (Len(seen) + Len(page))
      BY <2>1, LenProperties
    <2>3. PICK r : r = seen'
      OBVIOUS
    <2>4. /\ DOMAIN r = 1 .. (Len(seen) + Len(page))
          /\ \A i \in 1 .. (Len(seen) + Len(page)) :
                r[i] = IF i <= Len(seen) THEN seen[i] ELSE page[i - Len(seen)]
      BY <2>1, <2>2, <2>3
    <2>5. /\ Range(r) = Range(seen) \cup Range(page)
          /\ \A i \in DOMAIN r : (\E j \in DOMAIN seen : r[i] = seen[j]) \/ (\E j \in DOMAIN page : r[i] = page[j])
          /\ /\ Increasing(seen) /\ Increasing(page)
             /\ \A i \in DOMAIN seen, j \in DOMAIN page : seen[i] < page[j]
             => Increasing(r)
      BY <1>3, <2>4, ConcatUp
    <2> QED BY <2>1, <2>3, <2>5
  <1>6. Increasing(seen')
    <2>1. ASSUME NEW i \in DOMAIN seen, NEW j \in DOMAIN page PROVE seen[i] < page[j]
      <3>1. seen[i] \in Nat /\ page[j] \in Nat
        BY <1>3, <2>1
      <3>2. seen[i] <= cursor /\ page[j] > cursor
        BY <1>4, <2>1
      <3> QED BY <1>3, <3>1, <3>2
    <2> QED BY <1>4, <1>5, <2>1
  <1>7. page # <<>> => /\ page[Len(page)] \in Keys
                       /\ page[Len(page)] > cursor
                       /\ \A i \in DOMAIN page : page[i] <= page[Len(page)]
    <2> SUFFICES ASSUME page # <<>> PROVE /\ page[Len(page)] \in Keys
                                          /\ page[Len(page)] > cursor
                                          /\ \A i \in DOMAIN page : page[i] <= page[Len(page)]
      OBVIOUS
    <2>1. /\ page[Len(page)] \in Keys /\ page[Len(page)] \in Range(page)
          /\ \A i \in DOMAIN page : page[i] <= page[Len(page)]
      BY <1>3, <1>4, LastIsGreatest
    <2> QED BY <1>4, <2>1 DEF Range
  <1>8. ITypeOK'
    <2>1. Nothing \in Snapshots
      BY DEF Nothing, Snapshots
    <2>2. cursor' \in Keys \cup {None} /\ phase' \in {"done", "open"}
      BY <1>1, <1>7 DEF PInv, ITypeOK
    <2>3. limit \in Nat /\ Len(<<>>) = 0
      BY EmptySeq DEF PInv, ITypeOK
    <2>4. Keys' = Keys /\ stable' \in SUBSET Keys /\ Now' \in Snapshots
      BY <1>1 DEF PInv, ITypeOK
    <2>5. limit' > 0 => Len(page') <= limit'
      BY <1>1, <2>3
    <2>6. snap' \in Snapshots /\ page' \in Seq(Keys) /\ at' = None
      BY <1>1, <1>2, <1>3, <2>1
    <2>7. /\ writes' \in 0 .. MaxWrites /\ limit' \in Nat
          /\ what' \in {"iterate", "scan", "first", "last"} /\ kind' \in {"pk", "index"}
      BY <1>1 DEF PInv, ITypeOK
    <2>8. Snapshots' = Snapshots
      BY DEF Snapshots
    <2> QED BY <1>5, <2>2, <2>4, <2>5, <2>6, <2>7, <2>8 DEF ITypeOK
  <1>9. WalkInv'
    BY <1>1 DEF PInv, WalkInv
  <1>10. SeenInv'
    <2>1. ASSUME NEW i \in DOMAIN seen' PROVE seen'[i] <= cursor'
      <3>1. PICK x \in Nat : x = seen'[i] /\ (x <= cursor \/ \E j \in DOMAIN page : x = page[j])
        BY <1>3, <1>4, <1>5
      <3>2. CASE page = <<>>
        <4>1. x <= cursor /\ cursor' = cursor
          BY <1>1, <3>1, <3>2
        <4> QED BY <3>1, <4>1
      <3>3. CASE page # <<>>
        <4>1. PICK c \in Nat : c = page[Len(page)] /\ c > cursor /\ \A j \in DOMAIN page : page[j] <= c
          BY <1>3, <1>7, <3>3
        <4>2. x <= c
          BY <1>3, <3>1, <4>1
        <4> QED BY <1>1, <3>1, <3>3, <4>1, <4>2
      <3> QED BY <3>2, <3>3
    <2> QED BY <1>1, <1>2, <1>6, <2>1 DEF SeenInv
  <1>11. PageInv'
    BY <1>1 DEF PageInv, Upward
  <1>12. StableInv'
    <2>1. \A k : Visible(Now, k)' = Visible(Now, k)
      BY <1>1 DEF Visible, Present, Dangling, RowOf
    <2>2. ASSUME NEW k \in stable
          PROVE  /\ k <= cursor' => k \in Range(seen')
                 /\ page = <<>> => k <= cursor
      <3>1. /\ k \in Keys /\ Visible(snap, k) /\ (k <= cursor => k \in Range(seen)) /\ k \in Nat
        BY <1>1, <1>2, <1>3 DEF PInv, StableInv
      <3>2. CASE k <= cursor
        BY <1>5, <3>1, <3>2
      <3>3. CASE ~(k <= cursor)
        <4>1. k > cursor
          BY <1>3, <3>1, <3>3
        <4>2. k \in Range(page) \/ (page # <<>> /\ k > page[Len(page)])
          BY <1>1, <1>2, <3>1, <4>1 DEF PInv, PageInv, Upward, Ahead
        <4>3. CASE k \in Range(page)
          <5>1. page # <<>>
            BY <4>3, EmptySeq DEF Range
          <5> QED BY <1>5, <4>3, <5>1
        <4>4. CASE page # <<>> /\ k > page[Len(page)]
          <5>1. PICK c \in Nat : c = page[Len(page)]
            BY <1>3, <1>7, <4>4
          <5>2. ~(k <= c)
            BY <3>1, <4>4, <5>1
          <5> QED BY <1>1, <4>4, <5>1, <5>2
        <4> QED BY <4>2, <4>3, <4>4
      <3> QED BY <3>2, <3>3
    <2>3. \A k \in stable : k \in Keys /\ Visible(Now, k)
      BY DEF PInv, StableInv
    <2> QED BY <1>1, <2>1, <2>2, <2>3 DEF StableInv
  <1> QED BY <1>8, <1>9, <1>10, <1>11, <1>12 DEF PInv

\* An error ends the walk.
LEMMA FailsInv ==
  ASSUME PInv, Fails
  PROVE  PInv'
  <1>1. /\ phase' = "failed" /\ snap' = Nothing /\ at' = None /\ page' = <<>>
        /\ UNCHANGED <<rows, index, writes, what, kind, limit, cursor, seen, stable>>
        /\ Keys' = Keys /\ Now' = Now
    BY DEF Fails, store, walk, Keys, Now
  <1>2. \A k : Visible(Now, k)' = Visible(Now, k)
    BY <1>1 DEF Visible, Present, Dangling, RowOf
  <1>3. ITypeOK'
    <2>1. Nothing \in Snapshots
      BY DEF Nothing, Snapshots
    <2>2. limit > 0 => Len(<<>>) <= limit
      BY EmptySeq DEF PInv, ITypeOK
    <2> QED BY <1>1, <2>1, <2>2, EmptySeq DEF PInv, ITypeOK, Snapshots
  <1>4. WalkInv' /\ SeenInv' /\ PageInv'
    BY <1>1 DEF PInv, WalkInv, SeenInv, PageInv, Upward, Increasing
  <1>5. StableInv'
    BY <1>1, <1>2 DEF PInv, StableInv
  <1> QED BY <1>3, <1>4, <1>5 DEF PInv

\* Between two walks everything but the store is as in the beginning.
LEMMA RestInv ==
  ASSUME PInv, Rest
  PROVE  PInv'
  <1>1. /\ phase' = "idle" /\ what' = "iterate" /\ kind' = "pk" /\ limit' = 0
        /\ cursor' = None /\ snap' = Nothing /\ page' = <<>> /\ seen' = <<>> /\ stable' = {}
        /\ writes' = 0 /\ UNCHANGED <<rows, index, at>> /\ at = None /\ Now' = Now
        /\ Keys' = Row
    BY DEF Rest, PInv, ITypeOK, Now, Keys
  <1>2. ITypeOK'
    <2>1. Nothing \in Snapshots /\ 0 \in 0 .. MaxWrites
      BY BoundsAssumption DEF Nothing, Snapshots
    <2> QED BY <1>1, <2>1, EmptySeq DEF PInv, ITypeOK, Snapshots
  <1>3. WalkInv' /\ SeenInv' /\ PageInv'
    BY <1>1, EmptySeq DEF WalkInv, SeenInv, PageInv, Upward, Increasing
  <1>4. StableInv'
    BY <1>1 DEF StableInv
  <1> QED BY <1>2, <1>3, <1>4 DEF PInv

\* The others write: what they leave visible is still stable.
LEMMA OthersInv ==
  ASSUME PInv, NEW r \in SUBSET Row, NEW i \in [Entry -> Row \cup {None}], Others(r, i)
  PROVE  PInv'
  <1>1. /\ writes < MaxWrites /\ writes' = writes + 1 /\ rows' = r /\ index' = i /\ phase # "idle"
        /\ UNCHANGED <<what, kind, limit, phase, cursor, snap, at, page, seen>>
        /\ stable' = {k \in stable : Visible(Now, k)'} /\ Keys' = Keys
    BY DEF Others, walk, Keys
  <1>2. \A k : Visible(snap, k)' = Visible(snap, k) /\ Present(snap, k)' = Present(snap, k)
    BY <1>1 DEF Visible, Present, Dangling, RowOf
  <1>3. ITypeOK'
    <2>1. Now' \in Snapshots
      BY <1>1 DEF Now, Snapshots
    <2>2. writes' \in 0 .. MaxWrites
      BY <1>1, BoundsAssumption DEF PInv, ITypeOK
    <2> QED BY <1>1, <1>2, <2>1, <2>2 DEF PInv, ITypeOK, Snapshots
  <1>4. WalkInv' /\ SeenInv'
    BY <1>1 DEF PInv, WalkInv, SeenInv, Increasing
  <1>5. PageInv'
    BY <1>1, <1>2 DEF PInv, PageInv, Upward, Ahead, Increasing
  <1>6. StableInv'
    BY <1>1, <1>2 DEF PInv, StableInv
  <1> QED BY <1>3, <1>4, <1>5, <1>6 DEF PInv

\* Every write of the others is one of rows and entries.
LEMMA WriteInv ==
  ASSUME PInv, Write
  PROVE  PInv'
  <1>1. rows \in SUBSET Row /\ index \in [Entry -> Row \cup {None}]
    BY DEF PInv, ITypeOK, Now, Snapshots
  <1>2. ASSUME NEW p \in Row, PutRow(p) \/ DeleteRow(p) PROVE PInv'
    BY <1>1, <1>2, OthersInv DEF PutRow, DeleteRow
  <1>3. ASSUME NEW i \in Entry, NEW p \in Row, PutEntry(i, p) PROVE PInv'
    BY <1>1, <1>3, OthersInv DEF PutEntry
  <1>4. ASSUME NEW i \in Entry, DeleteEntry(i) PROVE PInv'
    BY <1>1, <1>4, OthersInv DEF DeleteEntry
  <1>5. ASSUME NEW p \in Row, NEW i \in Entry, NEW j \in Entry, Upsert(p, i, j) PROVE PInv'
    BY <1>1, <1>5, OthersInv DEF Upsert
  <1> QED BY <1>2, <1>3, <1>4, <1>5 DEF Write

-----------------------------------------------------------------------------
(* The theorems.                                                           *)

\* The iterator starts at rest, whatever is stored.
LEMMA PInitInv ==
  ASSUME Init
  PROVE  PInv
  <1>1. Nothing \in Snapshots /\ Now \in Snapshots /\ 0 \in 0 .. MaxWrites
    BY BoundsAssumption DEF Init, Nothing, Now, Snapshots
  <1>2. ITypeOK
    BY <1>1, EmptySeq DEF Init, ITypeOK
  <1>3. WalkInv /\ SeenInv /\ PageInv /\ StableInv
    BY EmptySeq DEF Init, WalkInv, SeenInv, PageInv, StableInv, Upward, Increasing
  <1> QED BY <1>2, <1>3 DEF PInv

\* Every walk begins as one of the four.
LEMMA WalkStep ==
  ASSUME PInv, Walk
  PROVE  PInv'
  <1>2. ASSUME NEW kd \in {"pk", "index"}, NEW l \in 0 .. MaxLimit,
               NEW c \in 0 .. (IF kd = "pk" THEN NumRows ELSE NumEntries), Begin("iterate", kd, c, l)
        PROVE  PInv'
    <2>1. l \in Nat
      BY BoundsAssumption
    <2>2. c = None \/ c \in (IF kd = "pk" THEN Row ELSE Entry)
      BY BoundsAssumption DEF Row, Entry, None
    <2> QED BY <1>2, <2>1, <2>2, BeginInv
  <1>3. ASSUME NEW kd \in {"pk", "index"}, NEW l \in 0 .. MaxLimit, Begin("scan", kd, None, l)
        PROVE  PInv'
    <2>1. l \in Nat
      BY BoundsAssumption
    <2> QED BY <1>3, <2>1, BeginInv
  <1>4. ASSUME NEW kd \in {"pk", "index"}, NEW w \in {"first", "last"}, Begin(w, kd, None, 1)
        PROVE  PInv'
    BY <1>4, BeginInv
  <1> QED BY <1>2, <1>3, <1>4 DEF Walk

\* Every step keeps the invariant.
LEMMA PNextInv ==
  ASSUME PInv, [Next]_ivars
  PROVE  PInv'
  <1>1. CASE UNCHANGED ivars
    BY <1>1 DEF PInv, ITypeOK, WalkInv, SeenInv, PageInv, StableInv, ivars, store, walk, Now, Keys,
                Snapshots, Present, Visible, Dangling, RowOf, Upward, Ahead, Increasing
  <1>2. CASE View
    BY <1>2, OpenViewInv, SkipInv, TakeRowInv, EndViewInv DEF View
  <1> QED BY <1>1, <1>2, WalkStep, ResumeInv, LanesDoneInv, FailsInv, RestInv, WriteInv DEF Next

\* The invariant of the walks.
THEOREM PInvariance == Spec => []PInv
  <1>1. Init => PInv
    BY PInitInv
  <1>2. PInv /\ [Next]_ivars => PInv'
    BY PNextInv
  <1> QED BY <1>1, <1>2, PTL DEF Spec

\* Every variable keeps its type; no page is longer than its limit, and a
\* walk that rests has no position.
THEOREM WalksTypeCorrect == Spec => []ITypeOK
  <1>1. PInv => ITypeOK
    BY DEF PInv
  <1> QED BY <1>1, PInvariance, PTL

\* No key is handed out twice, and all in key order, over pages, resumed
\* walks and writes between them.
THEOREM KeysComeOnce == Spec => []InOrderOnce
  <1>1. PInv => InOrderOnce
    BY DEF PInv, SeenInv, Increasing, InOrderOnce
  <1> QED BY <1>1, PInvariance, PTL

\* A walk that ends well has handed out every key visible all along.
THEOREM WalksSkipNothing == Spec => []NothingSkipped
  <1>1. PInv => NothingSkipped
    BY DEF PInv, StableInv, NothingSkipped
  <1> QED BY <1>1, PInvariance, PTL

-----------------------------------------------------------------------------
(* What one View comes up with.                                            *)

\* A View has been opened for the keys it now holds in page.
Viewed == phase \in {"loop", "lanes"} \/ (phase = "done" /\ what # "iterate")

(* A walk up has on its page, without a gap, the keys up to where it is;   *)
(* it closes early only with a full page.                                  *)
UpInv ==
    Viewed /\ what # "last" =>
       /\ Increasing(page)
       /\ phase = "loop" => \A k \in Wanted : k \in Range(page) \/ (at # None /\ k >= at)
       /\ phase # "loop" => \A k \in Wanted : \/ k \in Range(page)
                                              \/ limit > 0 /\ Len(page) = limit /\ k > page[Len(page)]

(* A walk down has nothing it wants behind it, and takes the first.        *)
DownInv ==
    Viewed /\ what = "last" =>
       /\ phase = "loop" => \A k \in Wanted : at # None /\ k <= at
       /\ phase # "loop" => \A k \in Wanted : page # <<>> /\ k <= page[1]

ViewInv ==
    /\ what # "iterate" => cursor = None
    /\ Viewed => Range(page) \subseteq Wanted
    /\ UpInv
    /\ DownInv

\* An increasing page holds as many keys as it is long.
LEMMA PageSize ==
  ASSUME NEW S \in SUBSET Nat, NEW s \in Seq(S), Increasing(s)
  PROVE  IsFiniteSet(Range(s)) /\ Cardinality(Range(s)) = Len(s)
  <1>1. Len(s) \in Nat /\ DOMAIN s = 1 .. Len(s) /\ s \in [1 .. Len(s) -> S]
    BY LenProperties
  <1>2. s \in [1 .. Len(s) -> Range(s)]
    BY <1>1 DEF Range
  <1>3. ASSUME NEW i \in 1 .. Len(s), NEW j \in 1 .. Len(s), s[i] = s[j] PROVE i = j
    <2>1. s[i] \in Nat /\ s[j] \in Nat
      BY <1>1
    <2>2. ~(i < j) /\ ~(j < i)
      BY <1>1, <1>3, <2>1 DEF Increasing
    <2> QED BY <1>1, <2>2
  <1>4. \A x \in Range(s) : \E i \in 1 .. Len(s) : s[i] = x
    BY <1>1 DEF Range
  <1>5. s \in Bijection(1 .. Len(s), Range(s))
    BY <1>2, <1>3, <1>4 DEF Bijection, Injection, Surjection, IsInjective
  <1>6. IsFiniteSet(1 .. Len(s)) /\ Cardinality(1 .. Len(s)) = Len(s)
    <2>1. PICK n \in Nat : n = Len(s)
      BY <1>1
    <2>2. IsFiniteSet(1 .. n) /\ Cardinality(1 .. n) = IF 1 > n THEN 0 ELSE n - 1 + 1
      BY FS_Interval
    <2>3. (IF 1 > n THEN 0 ELSE n - 1 + 1) = n
      OBVIOUS
    <2> QED BY <2>1, <2>2, <2>3
  <1>7. ExistsBijection(1 .. Len(s), Range(s))
    BY <1>5, Zenon DEF ExistsBijection
  <1> QED BY <1>6, <1>7, FS_Bijection, Zenon

UpTo(A, k) == {j \in A : j <= k}

\* A page without a gap, full or with nothing beyond, holds what has at most
\* limit wanted keys up to it.
LEMMA FirstOnes ==
  ASSUME NEW A \in SUBSET Nat, IsFiniteSet(A), NEW p \in Seq(A), Increasing(p),
         NEW l \in Nat, l > 0, Len(p) <= l,
         \A k \in A : k \in Range(p) \/ (Len(p) = l /\ k > p[Len(p)])
  PROVE  \A k \in A : k \in Range(p) <=> Cardinality(UpTo(A, k)) <= l
  <1>1. Len(p) \in Nat /\ DOMAIN p = 1 .. Len(p) /\ \A i \in DOMAIN p : p[i] \in A
    BY LenProperties
  <1>2. IsFiniteSet(Range(p)) /\ Cardinality(Range(p)) = Len(p)
    BY PageSize
  <1>3. \A k \in A : IsFiniteSet(UpTo(A, k)) /\ Cardinality(UpTo(A, k)) \in Nat
    <2>1. \A k \in A : UpTo(A, k) \in SUBSET A
      BY DEF UpTo
    <2> QED BY <2>1, FS_Subset, FS_CardinalityType
  <1>4. \A i \in DOMAIN p : p # <<>> /\ p[Len(p)] \in A /\ p[i] <= p[Len(p)]
    <2>1. p = <<>> => DOMAIN p = {}
      BY <1>1, EmptySeq
    <2>2. p # <<>> => p[Len(p)] \in A /\ \A i \in DOMAIN p : p[i] <= p[Len(p)]
      BY LastIsGreatest
    <2> QED BY <2>1, <2>2
  <1>5. ASSUME NEW k \in Range(p) PROVE k \in A /\ Cardinality(UpTo(A, k)) <= l
    <2>1. PICK i \in DOMAIN p : k = p[i]
      BY DEF Range
    <2>2. k \in A /\ k <= p[Len(p)] /\ p[Len(p)] \in A
      BY <1>1, <1>4, <2>1
    <2>3. ASSUME NEW j \in A, j <= k PROVE ~(j > p[Len(p)])
      <3>1. PICK x \in Nat : x = p[Len(p)]
        BY <2>2
      <3> QED BY <2>2, <2>3, <3>1
    <2>4. UpTo(A, k) \in SUBSET Range(p)
      BY <2>3 DEF UpTo
    <2>5. Cardinality(UpTo(A, k)) <= Cardinality(Range(p))
      BY <1>2, <2>4, FS_Subset
    <2>6. PICK c \in Nat : c = Cardinality(UpTo(A, k))
      BY <1>3, <2>2
    <2>7. c <= l
      <3>1. PICK n \in Nat : n = Len(p) /\ n <= l
        BY <1>1
      <3>2. c <= n
        BY <1>2, <2>5, <2>6, <3>1
      <3> QED BY <3>1, <3>2
    <2> QED BY <2>2, <2>6, <2>7
  <1>6. ASSUME NEW k \in A, k \notin Range(p) PROVE ~(Cardinality(UpTo(A, k)) <= l)
    <2>1. Len(p) = l /\ k > p[Len(p)]
      BY <1>6
    <2>2. \A j \in Range(p) : j \in A /\ j <= k
      <3>1. Len(p) \in DOMAIN p
        BY <1>1, <2>1
      <3>2. p[Len(p)] \in Nat /\ k \in Nat
        BY <1>1, <3>1
      <3>3. ASSUME NEW i \in DOMAIN p PROVE p[i] \in A /\ p[i] <= k
        <4>1. p[i] \in Nat /\ p[i] <= p[Len(p)]
          BY <1>1, <1>4, <3>3
        <4> QED BY <1>1, <2>1, <3>2, <4>1
      <3> QED BY <3>3 DEF Range
    <2>3. Range(p) \cup {k} \in SUBSET UpTo(A, k)
      <3>1. k <= k
        OBVIOUS
      <3> QED BY <2>2, <3>1 DEF UpTo
    <2>4. Cardinality(Range(p) \cup {k}) = l + 1
      BY <1>2, <1>6, <2>1, FS_AddElement
    <2>5. Cardinality(Range(p) \cup {k}) <= Cardinality(UpTo(A, k))
      BY <1>3, <2>3, FS_Subset
    <2>6. PICK c \in Nat : c = Cardinality(UpTo(A, k))
      BY <1>3
    <2> QED BY <2>4, <2>5, <2>6
  <1> QED BY <1>5, <1>6

\* A View that has returned has exactly what it was asked for.
LEMMA ViewedIsAsked ==
  ASSUME PInv, ViewInv
  PROVE  ViewIsExact
  <1> SUFFICES ASSUME phase = "lanes" \/ (phase = "done" /\ what # "iterate")
               PROVE  Range(page) = Asked
    BY DEF ViewIsExact
  <1>1. Viewed /\ phase # "loop" /\ Range(page) \subseteq Wanted
    BY DEF Viewed, ViewInv
  <1>2. /\ Keys \in SUBSET Nat /\ page \in Seq(Keys) /\ Len(page) \in Nat /\ limit \in Nat
        /\ DOMAIN page = 1 .. Len(page)
        /\ limit > 0 => Len(page) <= limit
    BY KeysFacts DEF PInv, ITypeOK
  <1>3. Wanted \in SUBSET Nat /\ page \in Seq(Wanted)
    <2>1. page \in [1 .. Len(page) -> Keys]
      BY <1>2, LenProperties
    <2>2. \A i \in 1 .. Len(page) : page[i] \in Wanted
      BY <1>1, <1>2 DEF Range
    <2>3. page \in [1 .. Len(page) -> Wanted]
      BY <2>1, <2>2
    <2>4. Wanted \in SUBSET Nat
      BY <1>2 DEF Wanted
    <2> QED BY <1>2, <2>3, <2>4, SeqDef
  <1>4. CASE what = "last"
    <2>1. limit = 1 /\ Len(page) <= 1
      BY <1>2, <1>4 DEF PInv, WalkInv
    <2>2. Asked = {k \in Wanted : \A j \in Wanted : j <= k}
      BY <1>4 DEF Asked
    <2>3. \A k \in Wanted : page # <<>> /\ k <= page[1]
      BY <1>1, <1>4 DEF ViewInv, DownInv
    <2>4. CASE page = <<>>
      BY <2>2, <2>3, <2>4, EmptySeq DEF Range
    <2>5. CASE page # <<>>
      <3>1. Len(page) = 1
        BY <1>2, <2>1, <2>5, EmptySeq
      <3>2. Range(page) = {page[1]} /\ page[1] \in Wanted
        BY <1>1, <1>2, <3>1 DEF Range
      <3>3. ASSUME NEW k \in Wanted, \A j \in Wanted : j <= k PROVE k = page[1]
        <4>1. k \in Nat /\ page[1] \in Nat
          BY <1>3, <3>2
        <4>2. k <= page[1] /\ page[1] <= k
          BY <2>3, <3>2, <3>3
        <4> QED BY <4>1, <4>2
      <3> QED BY <2>2, <2>3, <3>2, <3>3
    <2> QED BY <2>4, <2>5
  <1>5. CASE what # "last" /\ limit = 0
    <2>1. Asked = Wanted
      BY <1>5 DEF Asked
    <2>2. \A k \in Wanted : k \in Range(page)
      BY <1>1, <1>5 DEF ViewInv, UpInv
    <2> QED BY <1>1, <2>1, <2>2
  <1>6. CASE what # "last" /\ limit # 0
    <2>1. Asked = {k \in Wanted : Cardinality({j \in Wanted : j <= k}) <= limit}
      BY <1>6 DEF Asked
    <2>2. /\ Increasing(page)
          /\ \A k \in Wanted : k \in Range(page) \/ (Len(page) = limit /\ k > page[Len(page)])
      BY <1>1, <1>6 DEF ViewInv, UpInv
    <2>3. IsFiniteSet(Wanted)
      <3>1. IsFiniteSet(Keys)
        BY FS_Interval, BoundsAssumption DEF Keys, Row, Entry
      <3> QED BY <3>1, FS_Subset DEF Wanted
    <2>4. limit > 0 /\ Len(page) <= limit
      BY <1>2, <1>6
    <2>5. Range(page) = {k \in Wanted : Cardinality({j \in Wanted : j <= k}) <= limit}
      <3>1. Wanted \in SUBSET Nat /\ page \in Seq(Wanted) /\ limit \in Nat
        BY <1>2, <1>3
      <3>2. Increasing(page)
        BY <2>2
      <3>3. \A k \in Wanted : k \in Range(page) \/ (Len(page) = limit /\ k > page[Len(page)])
        BY <2>2
      <3>4. \A k \in Wanted : k \in Range(page) <=> Cardinality(UpTo(Wanted, k)) <= limit
        BY <2>3, <2>4, <3>1, <3>2, <3>3, FirstOnes
      <3> QED BY <1>1, <3>4 DEF UpTo
    <2> QED BY <2>1, <2>5, Zenon
  <1> QED BY <1>4, <1>5, <1>6

\* A View that opens wants all it has before it.
LEMMA OpenViewed ==
  ASSUME PInv, ViewInv, OpenView
  PROVE  ViewInv'
  <1>1. /\ phase = "open" /\ phase' = "loop" /\ snap' = Now /\ at' = Start /\ page' = <<>>
        /\ UNCHANGED <<rows, index, what, kind, limit, cursor>> /\ Keys' = Keys
    BY DEF OpenView, store, walk, Keys
  <1>2. KeysType /\ Keys \in SUBSET Nat /\ cursor \in Nat
    BY KeysFacts DEF PInv
  <1>3. \A k \in Wanted' : k \in Keys /\ k > cursor /\ Present(Now, k)
    BY <1>1 DEF Wanted, Visible, Present
  <1>4. Range(page') = {} /\ Increasing(page')
    BY <1>1, EmptySeq DEF Range, Increasing
  <1>5. CASE what = "last"
    <2> DEFINE n == IF kind = "pk" THEN NumRows ELSE NumEntries
    <2>1. Start = SeekBack(Now, n)
      BY <1>5 DEF Start
    <2>2. n \in Int /\ \A j \in Keys : j <= n
      BY BoundsAssumption DEF Keys, Row, Entry
    <2> HIDE DEF n
    <2>3. \/ Start = None /\ \A j \in Keys : j <= n => ~Present(Now, j)
          \/ Start \in Keys /\ \A j \in Keys : j <= n /\ Present(Now, j) => Start >= j
      BY <1>2, <2>1, <2>2, SeekBackward
    <2>4. ASSUME NEW k \in Wanted' PROVE at' # None /\ k <= at'
      <3>1. k \in Keys /\ k <= n /\ Present(Now, k)
        BY <1>3, <2>2
      <3>2. Start \in Keys /\ Start >= k
        BY <2>3, <3>1
      <3>3. Start \in Nat /\ k \in Nat /\ None \notin Keys
        BY <1>2, <3>1, <3>2, KeysFacts DEF PInv
      <3> QED BY <1>1, <3>2, <3>3
    <2> QED BY <1>1, <1>4, <1>5, <2>4 DEF ViewInv, UpInv, DownInv, Viewed
  <1>6. CASE what # "last"
    <2>1. ASSUME NEW k \in Wanted' PROVE at' # None /\ k >= at'
      <3>1. Start \in Keys /\ Start <= k
        BY <1>3, <1>6, <2>1, StartUp DEF PInv
      <3>2. Start \in Nat /\ k \in Nat /\ None \notin Keys
        BY <1>2, <1>3, <2>1, <3>1, KeysFacts DEF PInv
      <3> QED BY <1>1, <3>1, <3>2
    <2> QED BY <1>1, <1>4, <1>6, <2>1 DEF ViewInv, UpInv, DownInv, Viewed
  <1> QED BY <1>5, <1>6

\* A dangling entry was not wanted.
LEMMA SkipViewed ==
  ASSUME PInv, ViewInv, SkipDangling
  PROVE  ViewInv'
  <1>1. /\ phase = "loop" /\ at # None /\ Dangling(snap, at) /\ at' = NextOf(snap, at)
        /\ UNCHANGED <<what, kind, limit, phase, cursor, snap, page>>
        /\ Keys' = Keys
    BY DEF SkipDangling, store, walk, Keys
  <1>2. Wanted' = Wanted
    BY <1>1 DEF Wanted, Visible, Present, Dangling, RowOf, Keys
  <1>3. Keys \in SUBSET Nat /\ None \notin Keys /\ at \in Keys
    BY <1>1, KeysFacts DEF PInv, ITypeOK
  <1>4. \A k \in Wanted : k \in Keys /\ k # at /\ Present(snap, k) /\ k \in Nat
    BY <1>1, <1>3 DEF Wanted, Visible
  <1>5. CASE what = "last"
    <2>1. ASSUME NEW k \in Wanted PROVE at' # None /\ k <= at'
      <3>1. k <= at
        BY <1>1, <1>5 DEF ViewInv, DownInv, Viewed
      <3>2. k < at /\ k \in Keys /\ Present(snap, k)
        BY <1>3, <1>4, <3>1
      <3>3. NextOf(snap, at) # None /\ NextOf(snap, at) >= k
        BY <1>1, <1>5, <3>2, NextDown
      <3>4. NextOf(snap, at) \in Nat
        BY <1>1, <1>3, <3>3, NextType
      <3> QED BY <1>1, <1>4, <3>3, <3>4
    <2> QED BY <1>1, <1>2, <1>5, <2>1 DEF ViewInv, UpInv, DownInv, Viewed
  <1>6. CASE what # "last"
    <2>1. ASSUME NEW k \in Wanted, k \notin Range(page) PROVE at' # None /\ k >= at'
      <3>1. k >= at
        BY <1>1, <1>6, <2>1 DEF ViewInv, UpInv, Viewed
      <3>2. k > at
        BY <1>3, <1>4, <3>1
      <3>3. NextOf(snap, at) # None /\ NextOf(snap, at) <= k /\ NextOf(snap, at) \in Nat
        BY <1>1, <1>3, <1>4, <1>6, <3>2, NextUp
      <3> QED BY <1>1, <1>4, <3>3
    <2> QED BY <1>1, <1>2, <1>6, <2>1 DEF ViewInv, UpInv, DownInv, Viewed, Increasing
  <1> QED BY <1>5, <1>6

\* The row taken was wanted, and nothing before it was left.
LEMMA TakeViewed ==
  ASSUME PInv, ViewInv, TakeRow
  PROVE  ViewInv'
  <1>1. /\ phase = "loop" /\ at # None /\ ~Dangling(snap, at) /\ page' = Append(page, at)
        /\ UNCHANGED <<what, kind, limit, cursor, snap>> /\ Keys' = Keys
    BY DEF TakeRow, store, walk, Keys
  <1>2. \/ limit > 0 /\ Len(page') >= limit /\ phase' \in {"lanes", "done"}
        \/ ~(limit > 0 /\ Len(page') >= limit) /\ phase' = "loop" /\ at' = NextOf(snap, at)
    BY <1>1 DEF TakeRow, Full, Closed
  <1>3. Wanted' = Wanted
    BY <1>1 DEF Wanted, Visible, Present, Dangling, RowOf, Keys
  <1>4. /\ Keys \in SUBSET Nat /\ None \notin Keys /\ at \in Keys /\ Present(snap, at)
        /\ page \in Seq(Keys) /\ Len(page) \in Nat /\ limit \in Nat /\ cursor \in Nat
        /\ limit > 0 => Len(page) < limit
    BY <1>1, KeysFacts DEF PInv, ITypeOK, WalkInv
  <1>5. /\ page' # <<>> /\ Len(page') = Len(page) + 1 /\ page'[Len(page) + 1] = at
        /\ Range(page') = Range(page) \cup {at}
        /\ Increasing(page) /\ (\A i \in DOMAIN page : page[i] < at) => Increasing(page')
    BY <1>1, <1>4, AppendUp
  <1>6. at > cursor
    <2>1. CASE what = "last"
      <3>1. cursor = 0
        BY <2>1 DEF ViewInv, None
      <3>2. at \in Nat /\ at # 0
        BY <1>1, <1>4 DEF None
      <3> QED BY <3>1, <3>2
    <2>2. CASE what # "last"
      BY <1>1, <2>2 DEF PInv, PageInv, Upward
    <2> QED BY <2>1, <2>2
  <1>7. Range(page') \subseteq Wanted
    <2>1. at \in Wanted
      BY <1>1, <1>4, <1>6 DEF Wanted, Visible
    <2> QED BY <1>1, <1>5, <2>1 DEF ViewInv, Viewed
  <1>8. CASE what = "last"
    <2>1. limit = 1 /\ Len(page) = 0
      BY <1>4, <1>8 DEF PInv, WalkInv
    <2>2. phase' # "loop" /\ page'[1] = at
      BY <1>2, <1>5, <2>1
    <2>3. \A k \in Wanted : k <= at
      BY <1>1, <1>8 DEF ViewInv, DownInv, Viewed
    <2> QED BY <1>1, <1>3, <1>5, <1>7, <1>8, <2>2, <2>3 DEF ViewInv, UpInv, DownInv, Viewed
  <1>9. CASE what # "last"
    <2>1. Increasing(page')
      BY <1>1, <1>5, <1>9 DEF PInv, PageInv, Upward
    <2>2. ASSUME NEW k \in Wanted, k \notin Range(page')
          PROVE  k \in Keys /\ k \in Nat /\ Present(snap, k) /\ k > at
      <3>1. k >= at /\ k # at
        BY <1>1, <1>5, <1>9, <2>2 DEF ViewInv, UpInv, Viewed
      <3>2. k \in Keys /\ Present(snap, k)
        BY DEF Wanted, Visible
      <3> QED BY <1>4, <3>1, <3>2
    <2>3. ASSUME NEW k \in Wanted, k \notin Range(page'), phase' = "loop"
          PROVE  at' # None /\ k >= at'
      <3>1. NextOf(snap, at) # None /\ NextOf(snap, at) <= k /\ NextOf(snap, at) \in Nat
        BY <1>1, <1>4, <1>9, <2>2, <2>3, NextUp
      <3> QED BY <1>2, <2>2, <2>3, <3>1
    <2>4. ASSUME NEW k \in Wanted, k \notin Range(page'), phase' # "loop"
          PROVE  limit > 0 /\ Len(page') = limit /\ k > page'[Len(page')]
      <3>1. limit > 0 /\ Len(page') = limit
        BY <1>2, <1>4, <1>5, <2>4
      <3> QED BY <1>5, <2>2, <2>4, <3>1
    <2> QED BY <1>1, <1>3, <1>7, <1>9, <2>1, <2>3, <2>4 DEF ViewInv, UpInv, DownInv, Viewed
  <1> QED BY <1>8, <1>9

\* The iterator has left the prefix: what was wanted is on the page.
LEMMA EndViewed ==
  ASSUME PInv, ViewInv, EndView
  PROVE  ViewInv'
  <1>1. /\ phase = "loop" /\ at = None /\ phase' \in {"lanes", "done"}
        /\ UNCHANGED <<what, kind, limit, cursor, snap, at, page>> /\ Keys' = Keys
    BY DEF EndView, store, walk, Keys, Closed
  <1>2. Wanted' = Wanted
    BY <1>1 DEF Wanted, Visible, Present, Dangling, RowOf, Keys
  <1> QED BY <1>1, <1>2 DEF ViewInv, UpInv, DownInv, Viewed, Increasing

\* What others write is not what the View reads.
LEMMA WriteViewed ==
  ASSUME ViewInv, Write
  PROVE  ViewInv'
  <1>1. UNCHANGED <<what, kind, limit, phase, cursor, snap, at, page>>
    <2>1. \E r, i : Others(r, i)
      BY DEF Write, PutRow, DeleteRow, PutEntry, DeleteEntry, Upsert
    <2> QED BY <2>1 DEF Others, walk
  <1>2. Wanted' = Wanted
    BY <1>1 DEF Wanted, Visible, Present, Dangling, RowOf, Keys
  <1> QED BY <1>1, <1>2 DEF ViewInv, UpInv, DownInv, Viewed, Increasing

\* Between two Views nothing is claimed but that only "iterate" has a cursor.
LEMMA BetweenViews ==
  ASSUME PInv, ViewInv, Walk \/ Resume \/ LanesDone \/ Fails \/ Rest
  PROVE  ViewInv'
  <1>1. CASE Walk
    <2>1. PICK w, kd, c, l : Begin(w, kd, c, l) /\ (w # "iterate" => c = None)
      BY <1>1, Zenon DEF Walk
    <2>2. phase' = "open" /\ (what' # "iterate" => cursor' = None)
      BY <2>1 DEF Begin
    <2> QED BY <2>2 DEF ViewInv, UpInv, DownInv, Viewed
  <1>2. CASE Resume
    BY <1>2 DEF Resume, walk, ViewInv, UpInv, DownInv, Viewed
  <1>3. CASE LanesDone
    <2>1. what = "iterate" /\ what' = what /\ phase' \in {"done", "open"}
      BY <1>3 DEF LanesDone, walk, PInv, WalkInv
    <2> QED BY <2>1 DEF ViewInv, UpInv, DownInv, Viewed
  <1>4. CASE Fails
    BY <1>4 DEF Fails, walk, ViewInv, UpInv, DownInv, Viewed
  <1>5. CASE Rest
    BY <1>5 DEF Rest, ViewInv, UpInv, DownInv, Viewed
  <1> QED BY <1>1, <1>2, <1>3, <1>4, <1>5

\* Every View that returns has come up with exactly what it was asked for: no
\* key more or less of its snapshot, for each walk and page size.
THEOREM ViewsAreExact == Spec => []ViewIsExact
  <1>1. Init => ViewInv
    BY DEF Init, ViewInv, UpInv, DownInv, Viewed
  <1>2. PInv /\ ViewInv /\ [Next]_ivars => ViewInv'
    <2> SUFFICES ASSUME PInv, ViewInv, [Next]_ivars PROVE ViewInv'
      OBVIOUS
    <2>1. CASE UNCHANGED ivars
      <3>1. UNCHANGED <<what, kind, limit, phase, cursor, snap, at, page>>
        BY <2>1 DEF ivars, walk
      <3>2. Wanted' = Wanted
        BY <3>1 DEF Wanted, Visible, Present, Dangling, RowOf, Keys
      <3> QED BY <3>1, <3>2 DEF ViewInv, UpInv, DownInv, Viewed, Increasing
    <2>2. CASE View
      BY <2>2, OpenViewed, SkipViewed, TakeViewed, EndViewed DEF View
    <2> QED BY <2>1, <2>2, BetweenViews, WriteViewed DEF Next
  <1>3. PInv /\ ViewInv => ViewIsExact
    BY ViewedIsAsked
  <1> QED BY <1>1, <1>2, <1>3, PInvariance, PTL DEF Spec

=============================================================================
