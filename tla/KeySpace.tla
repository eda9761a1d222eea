------------------------------ MODULE KeySpace ------------------------------
(***************************************************************************)
(* index.go, lock.go's lockKeyForPK and AuditKeyspace of demonstration.go: *)
(* the keys that the builders make of names, values and ids, what their    *)
(* prefixes match, and the audit that reads keys back.  A text is the      *)
(* sequence of its bytes, since collisions, prefixes and the order of keys *)
(* are matters of bytes; texts are ASCII.                                  *)
(***************************************************************************)
EXTENDS Integers, SequencesExt, Bags

CONSTANTS
    Name,      \* <<dataBase, version, table>>
    Parts,     \* lists of IndexParts that prefixes are made of
    Number,    \* numbers made ids by padding them to Width
    Width,
    Things,    \* what keys are made for
    MaxKeys    \* bound: keys in the store

VARIABLES
    store,     \* the entries of the database
    audit,     \* where AuditKeyspace is
    view,      \* the entries its View began with
    left,      \* those of them it has not come to
    report     \* the AuditReport

kvars == <<store, audit, view, left, report>>

-----------------------------------------------------------------------------
(* The builders.                                                           *)

Colon  == 58
Equals == 61
d_ == <<100, Colon>>
x_ == <<120, Colon>>
u_ == <<117, Colon>>
lock_ == <<108, 111, 99, 107, Colon>>
i_ == <<105, Equals>>

Digit(c) == c \in 48 .. 57
Upper(c) == c \in 65 .. 90
Lower(c) == c \in 97 .. 122
Blank(c) == c \in 9 .. 13 \cup {32}

\* n without its last k decimal digits.
Cut(n, k) ==
    LET but[i \in 0 .. k] == IF i = 0 THEN n ELSE but[i - 1] \div 10
    IN  but[k]
Digits(n, len) == [j \in 1 .. len |-> 48 + (Cut(n, len - j) % 10)]

\* How many digits a uint64 has.
Length(n) == CHOOSE k \in 1 .. 20 : Cut(n, k) = 0 /\ (k = 1 \/ Cut(n, k - 1) # 0)

\* Mutant of Uint64ToFixedWidthBytes: no padding.
Unpadded(n, width) == Digits(n, Length(n))

\* fmt's "%0*d": width digits, but more if the number has more.
Uint64ToFixedWidthBytes(n, width) ==
    Digits(n, IF width > 0 /\ Cut(n, width) = 0 THEN width ELSE Length(n))

\* Blanks cut off both ends, and small letters.
normalize(s) ==
    LET solid == {j \in DOMAIN s : ~Blank(s[j])}
        cut   == IF solid = {} THEN <<>> ELSE SubSeq(s, Min(solid), Max(solid))
    IN  [j \in DOMAIN cut |-> IF Upper(cut[j]) THEN cut[j] + 32 ELSE cut[j]]

\* url.QueryEscape: letters, digits and -_.~ stay, a space becomes "+", any
\* other byte "%" and two hexadecimal digits.
hex(h)  == IF h < 10 THEN 48 + h ELSE 55 + h
byte(c) == IF Digit(c) \/ Upper(c) \/ Lower(c) \/ c \in {45, 95, 46, 126} THEN <<c>>
           ELSE IF c = 32 THEN <<43>>
           ELSE <<37, hex(c \div 16), hex(c % 16)>>
esc(s)  == FlattenSeq([j \in DOMAIN s |-> byte(s[j])])

\* "<db>:<ver>:<table>:", and "<field>=<value>" with a colon in between.
Space(n) == FlattenSeq([j \in 1 .. 3 |-> Append(esc(normalize(n[j])), Colon)])
Fields(parts) ==
    FlattenSeq([j \in DOMAIN parts |->
        (IF j > 1 THEN <<Colon>> ELSE <<>>)
            \o esc(normalize(parts[j].Field)) \o <<Equals>> \o esc(normalize(parts[j].Value))])

\* Mutant of BuildPKPrefix: it ends with the table.
BuildPKPrefixOpen(n) == LET s == d_ \o Space(n) IN SubSeq(s, 1, Len(s) - 1)

\* Mutant of BuildPKKey: the id is normalized like the names.
BuildPKKeyNormalized(n, id) == d_ \o Space(n) \o i_ \o esc(normalize(id))

BuildPKPrefix(n) == d_ \o Space(n) \o i_
BuildPKKey(n, id) == d_ \o Space(n) \o i_ \o esc(id)
BuildCompositeIndexPrefix(n, parts) == x_ \o Space(n) \o Fields(parts)
BuildCompositeIndexKey(n, parts, id) == x_ \o Space(n) \o Fields(parts) \o <<35>> \o i_ \o esc(id)
BuildCompositeUniqueIndexKey(n, parts) == u_ \o Space(n) \o Fields(parts)
lockKeyForPK(pk) == lock_ \o pk

-----------------------------------------------------------------------------
(* The store.  A thing is what a caller makes a key for: a row ("d"), a    *)
(* lock on it, a composite ("x") or a unique ("u") entry that refers to it.*)

Text    == Seq(0 .. 127)
IsThing(t) ==
    /\ t \in [kind : {"d", "x", "u", "lock"}, name : Text \X Text \X Text,
              parts : Seq([Field : Text, Value : Text]), id : Text]
    /\ t.kind \in {"d", "lock"} => t.parts = <<>>

ASSUME KeySpaceAssumption ==
    /\ \A t \in Things : IsThing(t)
    /\ Name \subseteq Text \X Text \X Text
    /\ Parts \subseteq Seq([Field : Text, Value : Text])
    /\ Number \subseteq Nat /\ Width \in Nat /\ MaxKeys \in Nat

KeyFor(t) ==
    CASE t.kind = "d"    -> BuildPKKey(t.name, t.id)
      [] t.kind = "lock" -> lockKeyForPK(BuildPKKey(t.name, t.id))
      [] t.kind = "x"    -> BuildCompositeIndexKey(t.name, t.parts, t.id)
      [] t.kind = "u"    -> BuildCompositeUniqueIndexKey(t.name, t.parts)

\* What the builders take for one and the same thing: names and values count
\* as normalized, ids as they are.
NormalName(n)  == [j \in 1 .. 3 |-> normalize(n[j])]
NormalParts(p) == [j \in DOMAIN p |-> [Field |-> normalize(p[j].Field), Value |-> normalize(p[j].Value)]]
Normal(t)      == [t EXCEPT !.name = NormalName(@), !.parts = NormalParts(@)]

\* An index entry holds the key of its row; what the others hold is all one.
EntryFor(t) ==
    [of |-> Normal(t), key |-> KeyFor(t),
     value |-> IF t.kind \in {"x", "u"} THEN BuildPKKey(t.name, t.id) ELSE <<>>]

Entry == {EntryFor(t) : t \in Things}

NoReport == [Total |-> 0, Data |-> 0, Idx |-> 0, Uniq |-> 0, Lock |-> 0, Unknown |-> 0,
             DanglingIdx |-> 0, DanglingUniq |-> 0, BySpace |-> EmptyBag]

KInit ==
    /\ store = {}
    /\ audit = "idle" /\ view = {} /\ left = {}
    /\ report = NoReport

\* A write replaces what is under its key.
Put(new) ==
    LET others == {e \in store : e.key # new.key}
    IN  /\ Cardinality(others) < MaxKeys
        /\ store' = others \cup {new}
        /\ UNCHANGED <<audit, view, left, report>>

-----------------------------------------------------------------------------
(* AuditKeyspace.                                                          *)

Before(s, t) ==
    \/ IsStrictPrefix(s, t)
    \/ \E j \in DOMAIN s \cap DOMAIN t :
          s[j] < t[j] /\ \A k \in 1 .. j - 1 : s[k] = t[k]

\* The second segment of a key: all that is left if no colon follows, and
\* nothing if the first has none behind it.
spaceFromKey(k) ==
    LET first  == SelectInSeq(k, LAMBDA c : c = Colon)
        rest   == SubSeq(k, first + 1, Len(k))
        second == SelectInSeq(rest, LAMBDA c : c = Colon)
    IN  IF first = 0 THEN <<>> ELSE IF second = 0 THEN rest ELSE SubSeq(rest, 1, second - 1)

Columns == {"Data", "Idx", "Uniq", "Lock"}

\* Mutant of Column: the unique entries are not known to the audit.
ColumnWithoutUniq(k) ==
    CASE IsPrefix(d_, k) -> "Data" [] IsPrefix(x_, k) -> "Idx"
      [] IsPrefix(lock_, k) -> "Lock" [] OTHER -> "Unknown"

Column(k) ==
    CASE IsPrefix(d_, k) -> "Data" [] IsPrefix(x_, k) -> "Idx" [] IsPrefix(u_, k) -> "Uniq"
      [] IsPrefix(lock_, k) -> "Lock" [] OTHER -> "Unknown"

\* Mutant of AuditBegins: it goes on counting in the last report.
AuditBeginsOn ==
    /\ audit = "idle"
    /\ audit' = "walk"
    /\ view' = store /\ left' = store
    /\ UNCHANGED <<store, report>>

AuditBegins ==
    /\ audit = "idle"
    /\ audit' = "walk"
    /\ view' = store /\ left' = store
    /\ report' = NoReport
    /\ UNCHANGED store

\* One key: counted in total, in its column and, if that is known, in its
\* space; a reference to a row that the View does not show is dangling.
AuditKey ==
    \E e \in left :
        LET col   == Column(e.key)
            none  == col \in {"Idx", "Uniq"} /\ \A r \in view : r.key # e.value
            space == SetToBag({<<spaceFromKey(e.key), col>>})
        IN  /\ audit = "walk"
            /\ \A f \in left \ {e} : Before(e.key, f.key)
            /\ left' = left \ {e}
            /\ report' = [report EXCEPT
                 !.Total = @ + 1,
                 ![col] = @ + 1,
                 !.DanglingIdx = IF none /\ col = "Idx" THEN @ + 1 ELSE @,
                 !.DanglingUniq = IF none /\ col = "Uniq" THEN @ + 1 ELSE @,
                 !.BySpace = IF col \in Columns THEN @ (+) space ELSE @]
            /\ UNCHANGED <<store, audit, view>>

\* The report is returned whatever it says; the error beside it says only
\* that Unknown or a dangling count is not zero (demonstration.go:332-337).
AuditEnds ==
    /\ audit = "walk"
    /\ left = {}
    /\ audit' = "idle"
    /\ UNCHANGED <<store, view, left, report>>

\* The value of an index entry, or the row it leads to, cannot be read: no
\* report is returned.
AuditFails ==
    /\ audit = "walk"
    /\ \E e \in left :
          /\ Column(e.key) \in {"Idx", "Uniq"}
          /\ \A f \in left \ {e} : Before(e.key, f.key)
    /\ audit' = "idle"
    /\ view' = {} /\ left' = {}
    /\ report' = NoReport
    /\ UNCHANGED store

KNext == AuditBegins \/ AuditKey \/ AuditEnds \/ AuditFails \/ \E e \in Entry : Put(e)

KSpec == KInit /\ [][KNext]_kvars

-----------------------------------------------------------------------------
(* Every variable keeps its type, and the audit's walk loses no key.       *)
KTypeOK ==
    /\ store \subseteq Entry /\ view \subseteq Entry
    /\ left \subseteq view
    /\ audit \in {"idle", "walk"}
    /\ audit = "walk" => report.Total = Cardinality(view \ left)

\* A unique entry has no id in its key.
Same(s, t) == t = IF s.kind = "u" /\ t.kind = "u" THEN [s EXCEPT !.id = t.id] ELSE s

(* Keys name things: a write replaces an entry if and only if it is for the *)
(* same thing, whatever separators, cases and blanks its texts contain.    *)
KeysNameThings ==
    [][\A new \in store' \ store, old \in store :
          Same(new.of, old.of) <=> old \notin store']_kvars

\* What a composite prefix reaches: entries whose leading parts are the given
\* ones, but for the last value, which need only begin as given.
Reaches(n, q, t) ==
    /\ t.kind = "x" /\ t.name = n
    /\ Len(q) <= Len(t.parts)
    /\ \A j \in DOMAIN q :
          /\ q[j].Field = t.parts[j].Field
          /\ IF j < Len(q) THEN q[j].Value = t.parts[j].Value
             ELSE IsPrefix(q[j].Value, t.parts[j].Value)

PKPrefixes    == {[name |-> NormalName(n), text |-> BuildPKPrefix(n)] : n \in Name}
IndexPrefixes == {[name |-> NormalName(n), parts |-> NormalParts(q),
                   text |-> BuildCompositeIndexPrefix(n, q)] : n \in Name, q \in Parts}

(* Prefixes reach what they should and nothing else: BuildPKPrefix the rows *)
(* of its table, and a composite prefix its entries; but office=50 reaches *)
(* those of office=507 too (index.go:94).                                  *)
PrefixesReach ==
    \A e \in store :
        /\ \A p \in PKPrefixes : IsPrefix(p.text, e.key) <=> e.of.kind = "d" /\ e.of.name = p.name
        /\ \A p \in IndexPrefixes : IsPrefix(p.text, e.key) <=> Reaches(p.name, p.parts, e.of)

Padded == {[number |-> n, text |-> Uint64ToFixedWidthBytes(n, Width)] :
               n \in {k \in Number : Cut(k, Width) = 0}}

(* Rows of one table, and entries of one list of parts, lie in the order of *)
(* their numbers, as long as the numbers fit the width they are padded to. *)
PaddedInOrder ==
    \A e, f \in store, p, q \in Padded :
        /\ e.of.kind \in {"d", "x"}
        /\ e.of.id = p.text /\ f.of = [e.of EXCEPT !.id = q.text]
        => (Before(e.key, f.key) <=> p.number < q.number)

\* What an audit should count.
Of(kind) == {e \in view : e.of.kind = kind}
Rowless(e) == \A r \in Of("d") : ~Same(r.of, [e.of EXCEPT !.kind = "d", !.parts = <<>>])
SpaceOf(e) == IF e.of.kind = "lock" THEN <<100>> ELSE esc(e.of.name[1])

(* The audit counts the keys of one moment: every key once, in the column  *)
(* of its kind, none as unknown, the entries without a row as dangling, and *)
(* each under its database; but locks under "d", since the second segment  *)
(* of lock:d:<db>:... is not the database (demonstration.go:341).          *)
AuditIsExact ==
    audit = "walk" /\ left = {} =>
        /\ report.Unknown = 0
        /\ report.Data = Cardinality(Of("d")) /\ report.Idx = Cardinality(Of("x"))
        /\ report.Uniq = Cardinality(Of("u")) /\ report.Lock = Cardinality(Of("lock"))
        /\ report.DanglingIdx = Cardinality({e \in Of("x") : Rowless(e)})
        /\ report.DanglingUniq = Cardinality({e \in Of("u") : Rowless(e)})
        /\ \A e \in view :
              /\ BagIn(<<SpaceOf(e), Column(e.key)>>, report.BySpace)
              /\ report.BySpace[<<SpaceOf(e), Column(e.key)>>]
                    = Cardinality({f \in Of(e.of.kind) : SpaceOf(f) = SpaceOf(e)})

=============================================================================
