----------------------------- MODULE UserIndex -----------------------------
(***************************************************************************)
(* How demonstration.go keeps rows and their index entries together: the   *)
(* upsert inside a read-write transaction of the manager, the blind        *)
(* transactional insert, and the insert by SetObject and Set without a     *)
(* transaction.  A user has an id, a type and an office; its row is stored *)
(* under the primary key, and index entries hold the primary key.  The     *)
(* transactions take the steps of TxnManager, with the closure's reads and *)
(* writes, which only its own transaction sees, made in one step.          *)
(***************************************************************************)
EXTENDS TxnManager, Sequences

CONSTANTS
    UpsertId,      \* ids written by upserts, with any type and office
    InsertId,      \* ids inserted without a look at the row
    User,          \* the users tried: each has a type, perhaps "", and an office
    Blank,         \* what a row holds whose Marshal failed: no user
    Norm(_),       \* what normalize makes of a type and an office
    Inserted       \* the type and office every InsertId is inserted with

Id == UpsertId \cup InsertId

\* BuildPKKey, BuildCompositeIndexKey, BuildCompositeUniqueIndexKey: keys
\* of three spaces.  The index keys spell a user's fields normalized, so
\* users that differ only in case have the same ones.
PKKey(i)        == <<"d", i>>
IndexKey(u, i)  == <<"x", Norm(u), i>>
UniqueKey(u, i) == <<"u", Norm(u), i>>

UserKeys == {PKKey(i) : i \in Id} \cup {IndexKey(u, i) : u \in User, i \in Id}
                                  \cup {UniqueKey(u, i) : u \in User, i \in UpsertId}

\* What an index entry holds: the primary key of its row.
Ref(i)     == [pk |-> PKKey(i)]
UserValues == User \cup {Blank} \cup {Ref(i) : i \in Id}

ASSUME UserIndexAssumption ==
    /\ \A u \in User : DOMAIN u = {"type", "office"}
    /\ Key = UserKeys
    /\ UserValues \subseteq Value
    /\ Blank \notin User \cup {Ref(i) : i \in Id}
    /\ Inserted \in User
    /\ UpsertId \cap InsertId = {}

VARIABLES
    want,     \* the id and user each client's call writes
    step,     \* which of its two writes an insert without transaction is at
    rowless   \* the ids whose SetObject failed in such an insert

uvars == <<vars, want, step, rowless>>

Nothing == [id |-> Absent, user |-> Absent]

UInit ==
    /\ Init
    /\ want = [c \in Client |-> Nothing]
    /\ step = [i \in InsertId |-> 1]
    /\ rowless = {}

-----------------------------------------------------------------------------
Start(c, i, u) ==
    /\ Call(c, "rw")
    /\ want' = [want EXCEPT ![c] = [id |-> i, user |-> u]]
    /\ UNCHANGED <<step, rowless>>

Closes(c, w, reads) ==
    /\ Move(c, "run", "check")
    /\ tx' = [tx EXCEPT ![c].reads = reads,
                        ![c].pending = [k \in Key |-> IF k \in DOMAIN w THEN w[k] ELSE Untouched]]
    /\ UNCHANGED <<store, mode, attempt, cancelled, result, want, step, rowless>>

\* A row that is absent or blank is read as a user without a type.
Typed(x) == x \in User /\ x.type # ""

\* Mutant of Writes: the old entry is deleted last.
DeletesLast(old, u, i) ==
    LET set  == {PKKey(i)} \cup (IF Typed(u) THEN {IndexKey(u, i), UniqueKey(u, i)} ELSE {})
        gone == IF Typed(old) /\ old.type # u.type THEN {IndexKey(old, i)} ELSE {}
    IN  [k \in set \cup gone |->
            IF k \in gone THEN Absent ELSE IF k = PKKey(i) THEN u ELSE Ref(i)]

\* What the upsert leaves pending: the old composite entry deleted if the
\* type changed, and then the row set and, for a user with a type, its two
\* index entries.
Writes(old, u, i) ==
    LET set  == {PKKey(i)} \cup (IF Typed(u) THEN {IndexKey(u, i), UniqueKey(u, i)} ELSE {})
        gone == IF Typed(old) /\ old.type # u.type THEN {IndexKey(old, i)} ELSE {}
    IN  [k \in set \cup gone |->
            IF k = PKKey(i) THEN u ELSE IF k \in set THEN Ref(i) ELSE Absent]

\* Mutant of Upsert: the old row is read outside the transaction.
UpsertReadsOutside(c) ==
    LET i == want[c].id
        u == want[c].user
    IN  i \in UpsertId /\ Closes(c, Writes(db[PKKey(i)], u, i), {})

\* The closure of demonstration.go:76-151.  Its last read, of the unique
\* entry, finds what it has just written and so is no read of the store.
Upsert(c) ==
    LET i == want[c].id
        u == want[c].user
    IN  i \in UpsertId /\ Closes(c, Writes(View(c, PKKey(i)), u, i), {PKKey(i)})

\* Mutant of Insert: the row and the entry get each other's values.
InsertSwapped(c) ==
    LET i == want[c].id
        u == want[c].user
    IN  /\ i \in InsertId
        /\ Closes(c, [k \in {PKKey(i), IndexKey(u, i)} |-> IF k = PKKey(i) THEN Ref(i) ELSE u], {})

\* The closures of demonstration.go:156-176: a row and its composite entry.
\* Marshal's error is dropped, and the row is then set to what it left.
Insert(c) ==
    LET i == want[c].id
        u == want[c].user
    IN  /\ i \in InsertId
        /\ \E r \in {u, Blank} :
              Closes(c, [k \in {PKKey(i), IndexKey(u, i)} |-> IF k = PKKey(i) THEN r ELSE Ref(i)], {})

\* A read or a write fails or, in the upsert, an Unmarshal or the Marshal.
Breaks(c) == ClosureFails(c) /\ want' = [want EXCEPT ![c] = Nothing] /\ UNCHANGED <<step, rowless>>

\* The calls use context.Background: nobody cancels them.
UManage(c) ==
    /\ Manage(c)
    /\ want' = IF pc'[c] = "idle" THEN [want EXCEPT ![c] = Nothing] ELSE want
    /\ UNCHANGED <<step, rowless>>

-----------------------------------------------------------------------------
(* The insert without a transaction, demonstration.go:178-190.             *)

\* Mutant of Puts: the index entry first.
PutsIndexFirst(i) == <<[key |-> IndexKey(Inserted, i), value |-> Ref(i)],
                       [key |-> PKKey(i), value |-> Inserted]>>

\* SetObject of the row, then Set of the composite entry.
Puts(i) == <<[key |-> PKKey(i), value |-> Inserted],
             [key |-> IndexKey(Inserted, i), value |-> Ref(i)]>>

Advance(i) == step' = [step EXCEPT ![i] = 3 - @]

DirectPut(i) ==
    /\ DirectWrite(Puts(i)[step[i]].key, Puts(i)[step[i]].value)
    /\ Advance(i)
    /\ UNCHANGED <<want, rowless>>

\* The write reports an error, having taken effect or not; the error is
\* printed and the insert goes on.
DirectPutFails(i) ==
    /\ \/ UNCHANGED vars
       \/ DirectWrite(Puts(i)[step[i]].key, Puts(i)[step[i]].value)
    /\ Advance(i)
    /\ rowless' = IF step[i] = 1 THEN rowless \cup {i} ELSE rowless
    /\ UNCHANGED want

UNext ==
    \/ \E c \in Client :
          \/ \E i \in UpsertId, u \in User : Start(c, i, u)
          \/ \E i \in InsertId : Start(c, i, Inserted)
          \/ Upsert(c) \/ Insert(c) \/ Breaks(c) \/ UManage(c)
    \/ \E i \in InsertId : DirectPut(i) \/ DirectPutFails(i)

USpec == UInit /\ [][UNext]_uvars

-----------------------------------------------------------------------------
(* Every variable keeps its type: a call under way has a user to write; an *)
(* upserted row never holds anything but a user; an inserted one may be     *)
(* blank, but holds no reference and no user that is another's.             *)
UTypeOK ==
    /\ TypeOK
    /\ want \in [Client -> [id : Id \cup {Absent}, user : User \cup {Absent}]]
    /\ \A c \in Client : pc[c] # "idle" <=> want[c] # Nothing
    /\ step \in [InsertId -> {1, 2}]
    /\ rowless \subseteq InsertId
    /\ \A i \in UpsertId : db[PKKey(i)] \in User \cup {Absent}
    /\ \A i \in InsertId : db[PKKey(i)] \in {Inserted, Blank, Absent}

(* Upserts of one user take effect one after the other, each on the row     *)
(* the one before it left: the later one finds that row, or conflicts and   *)
(* runs again (engine.go:53-62, "protected, with retries").  The only       *)
(* entries of a user that go are those of the row an upsert replaces, so    *)
(* with one office nobody is left under a type that is no longer his.       *)
Spelled == {Norm(u) : u \in User}
Entries(s, i) == {n \in Spelled : <<s, n, i>> \in Key /\ db[<<s, n, i>>] # Absent}
Rows == INSTANCE RowIndex WITH
            NoUser <- Absent,
            row <- [i \in Id |-> db[PKKey(i)]],
            composite <- [i \in Id |-> Entries("x", i)],
            unique <- [i \in Id |-> Entries("u", i)]
RowsSpec == Rows!Spec

(* Every row with a type that an upsert has written is found through both  *)
(* of its entries, after any sequence of upserts, conflicts and lost        *)
(* commits.  A row without a type has none.                                 *)
RowsAreIndexed ==
    \A i \in UpsertId : Typed(db[PKKey(i)]) =>
        /\ db[IndexKey(db[PKKey(i)], i)] = Ref(i)
        /\ db[UniqueKey(db[PKKey(i)], i)] = Ref(i)

\* What AuditKeyspace counts: entries whose primary key has no row.
Dangling == {k \in Key : k[1] \in {"x", "u"} /\ db[k] # Absent /\ db[db[k].pk] = Absent}

(* An audit taken at any moment, in the middle of an insert too, finds a    *)
(* dangling entry only of a row whose SetObject failed.                     *)
DanglingOnlyAfterFailure == \A k \in Dangling : k[3] \in rowless

(* "On insert all indexes that a changed field may affect are to be made    *)
(* anew and the old indexes deleted" (README.md:43, engine.go:48).          *)
OldEntriesDeleted ==
    \A i \in UpsertId, u \in User :
        db[IndexKey(u, i)] # Absent \/ db[UniqueKey(u, i)] # Absent =>
            db[PKKey(i)] \in {v \in User : Norm(v) = Norm(u)}

=============================================================================
