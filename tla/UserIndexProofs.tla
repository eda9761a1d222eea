--------------------------- MODULE UserIndexProofs --------------------------
(***************************************************************************)
(* Theorems about UserIndex, for any clients, ids, users and normalization:*)
(* a row is found through its entries, an entry dangles only after a write *)
(* that failed, and the upserts of a user take effect one after the other. *)
(***************************************************************************)
EXTENDS UserIndex, TxnManagerProofs

Old(c)  == tx[c].snap[PKKey(want[c].id)]     \* the row the transaction began with

\* The row and the entries a closure sets: the insert one whatever its user,
\* the upsert both of a user with a type.
Places(c) == want[c].id \in InsertId \/ Typed(want[c].user)
Sets(c) == LET i == want[c].id
               u == want[c].user
           IN  {PKKey(i)} \cup (IF Places(c) THEN {IndexKey(u, i)} ELSE {})
                          \cup (IF i \in UpsertId /\ Typed(u) THEN {UniqueKey(u, i)} ELSE {})

\* What a primary key may hold.
RowOf(i) == IF i \in UpsertId THEN User \cup {Absent} ELSE {Inserted, Blank, Absent}

\* The entry of a row whose type changes, unless it is set anew.
Replaced(c) == want[c].id \in UpsertId /\ Typed(Old(c)) /\ Old(c).type # want[c].user.type
Drops(c)    == (IF Replaced(c) THEN {IndexKey(Old(c), want[c].id)} ELSE {}) \ Sets(c)

(* What a closure that has run leaves pending, and what it has read.       *)
Pending(c) ==
    /\ Dirty(c) = Sets(c) \cup Drops(c)
    /\ \A k \in Sets(c) \ {PKKey(want[c].id)} : tx[c].pending[k] = Ref(want[c].id)
    /\ \/ tx[c].pending[PKKey(want[c].id)] = want[c].user
       \/ want[c].id \in InsertId /\ tx[c].pending[PKKey(want[c].id)] = Blank
    /\ \A k \in Drops(c) : tx[c].pending[k] = Absent
    /\ want[c].id \in UpsertId => PKKey(want[c].id) \in tx[c].reads

WantInv(c) ==
    IF pc[c] = "idle" THEN want[c] = Nothing
    ELSE /\ want[c].user \in User /\ want[c].id \in Id
         /\ want[c].id \in InsertId => want[c].user = Inserted

UCallInv(c) ==
    /\ WantInv(c)
    /\ Open(c) => \A i \in Id : tx[c].snap[PKKey(i)] \in RowOf(i)
    /\ pc[c] = "run" => Dirty(c) = {}
    /\ pc[c] \in {"check", "commit"} => Pending(c)

(* The entries of an id name it, and it has a row unless SetObject failed. *)
RowThere(i) == db[PKKey(i)] # Absent \/ i \in rowless
Entry(k, i) == db[k] = Absent \/ (db[k] = Ref(i) /\ RowThere(i))

EntriesName ==
    /\ \A i \in Id, u \in User : Entry(IndexKey(u, i), i)
    /\ \A i \in UpsertId, u \in User : Entry(UniqueKey(u, i), i)
    /\ \A i \in InsertId : step[i] = 2 => RowThere(i)

UTypes ==
    /\ want \in [Client -> [id : Id \cup {Absent}, user : User \cup {Absent}]]
    /\ step \in [InsertId -> {1, 2}]
    /\ rowless \subseteq InsertId
    /\ \A i \in Id : db[PKKey(i)] \in RowOf(i)

UInv == IInv /\ UTypes /\ EntriesName /\ RowsAreIndexed /\ \A c \in Client : UCallInv(c)

\* Every key belongs to one space and one id.
LEMMA UserKeyFacts ==
  /\ \A i \in Id : PKKey(i) \in Key
  /\ \A i \in Id, u \in User : IndexKey(u, i) \in Key
  /\ \A i \in UpsertId, u \in User : UniqueKey(u, i) \in Key
  /\ \A i, j : PKKey(i) = PKKey(j) => i = j
  /\ \A i, j, u, v : IndexKey(u, i) = IndexKey(v, j) <=> i = j /\ Norm(u) = Norm(v)
  /\ \A i, j, u, v : UniqueKey(u, i) = UniqueKey(v, j) <=> i = j /\ Norm(u) = Norm(v)
  /\ \A i, j, u : PKKey(i) # IndexKey(u, j) /\ PKKey(i) # UniqueKey(u, j)
  /\ \A i, j, u, v : IndexKey(u, i) # UniqueKey(v, j)
  <1>1. /\ \A i \in Id : PKKey(i) \in Key
        /\ \A i \in Id, u \in User : IndexKey(u, i) \in Key
        /\ \A i \in UpsertId, u \in User : UniqueKey(u, i) \in Key
    BY UserIndexAssumption DEF UserKeys
  <1>2. \A i, j : PKKey(i) = PKKey(j) => i = j
    BY DEF PKKey
  <1>3. /\ \A i, j, u, v : IndexKey(u, i) = IndexKey(v, j) <=> i = j /\ Norm(u) = Norm(v)
        /\ \A i, j, u, v : UniqueKey(u, i) = UniqueKey(v, j) <=> i = j /\ Norm(u) = Norm(v)
    BY DEF IndexKey, UniqueKey
  <1>4. \A i, j, u : PKKey(i) # IndexKey(u, j) /\ PKKey(i) # UniqueKey(u, j)
    BY DEF PKKey, IndexKey, UniqueKey
  <1>5. \A i, j, u, v : IndexKey(u, i) # UniqueKey(v, j)
    BY DEF IndexKey, UniqueKey
  <1> QED BY <1>1, <1>2, <1>3, <1>4, <1>5

\* A user and a reference are contents of the store and none of the markers.
LEMMA UserFacts ==
  /\ User \subseteq Content /\ \A i \in Id : Ref(i) \in Content
  /\ Absent \notin User /\ Untouched \notin User /\ Untouched # Absent /\ Absent \in Content
  /\ \A i \in Id : Ref(i) # Absent /\ Ref(i) # Untouched
  /\ \A i \in Id, u \in User : [id |-> i, user |-> u] # Nothing
  /\ Id = UpsertId \cup InsertId /\ UpsertId \cap InsertId = {} /\ Inserted \in User
  /\ Blank \in Content /\ Blank \notin User /\ Blank # Absent /\ Blank # Untouched
  <1>1. /\ User \subseteq Value /\ \A i \in Id : Ref(i) \in Value
        /\ UpsertId \cap InsertId = {} /\ Inserted \in User /\ Blank \in Value /\ Blank \notin User
    BY UserIndexAssumption DEF UserValues
  <1>2. Absent \notin Value /\ Untouched \notin Value /\ Untouched # Absent
    BY MarkersAssumption DEF Content
  <1> QED BY <1>1, <1>2 DEF Content, Nothing, Id

\* The store holds for every key what the type invariant says.
LEMMA StoredRow ==
  ASSUME UInv, NEW c \in Client, Open(c)
  PROVE  /\ want[c].id \in Id /\ want[c].user \in User
         /\ want[c].id \in InsertId => want[c].user = Inserted
         /\ want[c].id \in UpsertId => Old(c) \in User \cup {Absent}
         /\ Sets(c) \subseteq Key /\ Drops(c) \subseteq Key
  <1>1. /\ want[c].id \in Id /\ want[c].user \in User
        /\ want[c].id \in InsertId => want[c].user = Inserted
        /\ want[c].id \in UpsertId => Old(c) \in User \cup {Absent}
    BY DEF UInv, UCallInv, WantInv, Open, Old, RowOf
  <1>2. Sets(c) \subseteq Key
    BY <1>1, UserKeyFacts DEF Sets
  <1>3. Drops(c) \subseteq Key
    <2>1. Replaced(c) => Old(c) \in User
      BY DEF Replaced, Typed
    <2> QED BY <1>1, <2>1, UserKeyFacts DEF Drops
  <1> QED BY <1>1, <1>2, <1>3

-----------------------------------------------------------------------------
(* The closures.                                                           *)

\* A closure that has run keeps the manager's invariant.
LEMMA ClosesInv ==
  ASSUME IInv, NEW c \in Client, NEW w, NEW reads \in SUBSET Key, Closes(c, w, reads),
         \A k \in Key : k \in DOMAIN w => w[k] \in Content
  PROVE  IInv'
  <1> DEFINE pend == [k \in Key |-> IF k \in DOMAIN w THEN w[k] ELSE Untouched]
  <1>1. /\ pend \in [Key -> Content \cup {Untouched}]
        /\ tx' = [tx EXCEPT ![c].reads = reads, ![c].pending = pend]
        /\ pc[c] = "run" /\ pc' = [pc EXCEPT ![c] = "check"]
        /\ UNCHANGED <<store, mode, attempt, cancelled, result>>
    BY DEF Closes, Move
  <1> HIDE DEF pend
  <1>2. /\ tx' \in [Client -> TxType]
        /\ \A d \in Client : tx'[d].snap = tx[d].snap /\ tx'[d].readTs = tx[d].readTs
    <2>1. tx \in [Client -> TxType]
      BY DEF IInv, TypeOK
    <2>2. /\ tx' = [tx EXCEPT ![c] = tx'[c]]
          /\ tx'[c] = [tx[c] EXCEPT !.reads = reads, !.pending = pend]
      BY <1>1, <2>1
    <2>3. tx'[c] \in TxType /\ tx'[c].snap = tx[c].snap /\ tx'[c].readTs = tx[c].readTs
      BY <1>1, <2>1, <2>2 DEF TxType
    <2> QED BY <2>1, <2>2, <2>3
  <1>3. TypeOK'
    BY <1>1, <1>2 DEF IInv, TypeOK, store
  <1>4. \A d \in Client : Open(d)' = Open(d)
    BY <1>1 DEF Open, IInv, TypeOK
  <1>5. TimestampsInv'
    BY <1>1, <1>2, <1>4 DEF IInv, TimestampsInv, store
  <1>6. RetryInv'
    BY <1>1 DEF IInv, RetryInv, TypeOK
  <1>7. SnapshotCurrent'
    BY <1>1, <1>2, <1>4 DEF IInv, SnapshotCurrent, store, Open
  <1> QED BY <1>3, <1>5, <1>6, <1>7 DEF IInv

\* What the closure writes is pending afterwards, and nothing else.
LEMMA ClosesPending ==
  ASSUME UInv, NEW c \in Client, NEW w, NEW reads, Closes(c, w, reads),
         want[c].id \in UpsertId => reads = {PKKey(want[c].id)},
         DOMAIN w = Sets(c) \cup Drops(c),
         \A k \in Sets(c) \ {PKKey(want[c].id)} : w[k] = Ref(want[c].id),
         \/ w[PKKey(want[c].id)] = want[c].user
         \/ want[c].id \in InsertId /\ w[PKKey(want[c].id)] = Blank,
         \A k \in Drops(c) : w[k] = Absent
  PROVE  Pending(c)'
  <1>1. /\ tx'[c].snap = tx[c].snap /\ tx'[c].reads = reads
        /\ tx'[c].pending = [k \in Key |-> IF k \in DOMAIN w THEN w[k] ELSE Untouched]
        /\ want' = want /\ pc[c] = "run"
    BY DEF Closes, Move, UInv, IInv, TypeOK, TxType
  <1>2. /\ Sets(c)' = Sets(c) /\ Drops(c)' = Drops(c)
    BY <1>1 DEF Sets, Places, Drops, Replaced, Old
  <1>3. /\ want[c].id \in Id /\ want[c].user \in User
        /\ Sets(c) \subseteq Key /\ Drops(c) \subseteq Key
    BY <1>1, StoredRow DEF Open
  <1>4. \A k \in DOMAIN w : k \in Key /\ w[k] # Untouched
    BY <1>3, UserFacts
  <1>5. Dirty(c)' = DOMAIN w
    BY <1>1, <1>4 DEF Dirty
  <1>6. /\ \A k \in Sets(c) : tx'[c].pending[k] = w[k]
        /\ \A k \in Drops(c) : tx'[c].pending[k] = w[k]
    BY <1>1, <1>3
  <1>7. want[c].id \in UpsertId => PKKey(want[c].id) \in tx'[c].reads
    BY <1>1
  <1>8. PKKey(want[c].id) \in Sets(c)
    BY DEF Sets
  <1> QED BY <1>1, <1>2, <1>5, <1>6, <1>7, <1>8 DEF Pending

\* Upsert and Insert are such closures.
LEMMA ClosureRuns ==
  ASSUME UInv, NEW c \in Client, Upsert(c) \/ Insert(c)
  PROVE  IInv' /\ Pending(c)' /\ pc[c] = "run" /\ \E w, reads : Closes(c, w, reads)
  <1> DEFINE i == want[c].id
             u == want[c].user
  <1>1. pc[c] = "run"
    BY DEF Upsert, Insert, Closes, Move
  <1>2. /\ i \in Id /\ u \in User /\ Dirty(c) = {}
        /\ Sets(c) \subseteq Key /\ Drops(c) \subseteq Key
    BY <1>1, StoredRow DEF Open, UInv, UCallInv
  <1>3. CASE Upsert(c)
    <2> DEFINE w == Writes(Old(c), u, i)
    <2>1. i \in UpsertId /\ Closes(c, w, {PKKey(i)})
      BY <1>2, <1>3 DEF Upsert, View, Old
    <2>2. DOMAIN w = Sets(c) \cup Drops(c)
      BY <2>1, UserFacts DEF Writes, Sets, Places, Drops, Replaced
    <2>3. /\ \A k \in Sets(c) \ {PKKey(i)} : w[k] = Ref(i)
          /\ w[PKKey(i)] = u /\ PKKey(i) \in Sets(c)
          /\ \A k \in Drops(c) : w[k] = Absent
      BY <2>1, UserFacts DEF Writes, Sets, Places, Drops, Replaced
    <2> HIDE DEF w
    <2>4. \A k \in Key : k \in DOMAIN w => w[k] \in Content
      BY <1>2, <2>2, <2>3, UserFacts
    <2>5. PKKey(i) \in Key
      BY <1>2, UserKeyFacts
    <2>6. IInv'
      BY <2>1, <2>4, <2>5, ClosesInv DEF UInv
    <2>7. Pending(c)'
      BY <2>1, <2>2, <2>3, ClosesPending
    <2> QED BY <1>1, <2>1, <2>6, <2>7
  <1>4. CASE Insert(c)
    <2>1. i \in InsertId /\ i \notin UpsertId
      BY <1>4, UserFacts DEF Insert
    <2>2. PICK r \in {u, Blank} :
             Closes(c, [k \in {PKKey(i), IndexKey(u, i)} |-> IF k = PKKey(i) THEN r ELSE Ref(i)], {})
      BY <1>4 DEF Insert
    <2> DEFINE w == [k \in {PKKey(i), IndexKey(u, i)} |-> IF k = PKKey(i) THEN r ELSE Ref(i)]
    <2>3. DOMAIN w = Sets(c) \cup Drops(c) /\ Drops(c) = {}
      BY <2>1 DEF Sets, Places, Drops, Replaced
    <2>4. /\ \A k \in Sets(c) \ {PKKey(i)} : w[k] = Ref(i)
          /\ w[PKKey(i)] = r /\ PKKey(i) \in Sets(c)
      BY <2>1 DEF Sets, Places
    <2>5. Closes(c, w, {})
      BY <2>2
    <2> HIDE DEF w
    <2>6. \A k \in Key : k \in DOMAIN w => w[k] \in Content
      BY <1>2, <2>2, <2>3, <2>4, UserFacts
    <2>7. IInv'
      BY <2>5, <2>6, ClosesInv DEF UInv
    <2>8. Pending(c)'
      BY <2>1, <2>2, <2>3, <2>4, <2>5, ClosesPending
    <2> QED BY <1>1, <2>5, <2>7, <2>8
  <1> QED BY <1>3, <1>4

-----------------------------------------------------------------------------
(* What the steps that write do to the rows and the entries.               *)

\* A commit writes one row and its entries, and drops the replaced entry.
LEMMA UserCommit ==
  ASSUME UInv, NEW c \in Client, pc[c] = "commit", Install(tx[c].pending, Dirty(c)),
         NEW i, i = want[c].id, NEW u, u = want[c].user, NEW r, r = tx[c].pending[PKKey(i)]
  PROVE  /\ i \in Id /\ u \in User /\ (i \in InsertId => u = Inserted)
         /\ r = u \/ (i \in InsertId /\ r = Blank)
         /\ \A j \in Id : db'[PKKey(j)] = IF j = i THEN r ELSE db[PKKey(j)]
         /\ \A j \in Id, v \in User :
               db'[IndexKey(v, j)] =
                  IF j = i /\ Places(c) /\ Norm(v) = Norm(u) THEN Ref(i)
                  ELSE IF j = i /\ Replaced(c) /\ Norm(v) = Norm(Old(c)) THEN Absent
                  ELSE db[IndexKey(v, j)]
         /\ \A j \in UpsertId, v \in User :
               db'[UniqueKey(v, j)] =
                  IF j = i /\ Typed(u) /\ Norm(v) = Norm(u) THEN Ref(i) ELSE db[UniqueKey(v, j)]
  <1>1. /\ i \in Id /\ u \in User /\ (i \in InsertId => u = Inserted) /\ Pending(c)
        /\ Sets(c) \subseteq Key /\ Drops(c) \subseteq Key
    BY StoredRow DEF Open, UInv, UCallInv
  <1>2. \A k \in Key :
           db'[k] = IF k \in Sets(c) THEN IF k = PKKey(i) THEN r ELSE Ref(i)
                    ELSE IF k \in Drops(c) THEN Absent ELSE db[k]
    BY <1>1 DEF Install, Pending
  <1>3. ASSUME NEW j \in Id PROVE db'[PKKey(j)] = IF j = i THEN r ELSE db[PKKey(j)]
    <2>1. PKKey(j) \in Sets(c) <=> j = i
      BY <1>1, UserKeyFacts DEF Sets
    <2>2. PKKey(j) \notin Drops(c)
      BY UserKeyFacts DEF Drops
    <2> QED BY <1>2, <2>1, <2>2, UserKeyFacts
  <1>4. ASSUME NEW j \in Id, NEW v \in User
        PROVE  db'[IndexKey(v, j)] =
                  IF j = i /\ Places(c) /\ Norm(v) = Norm(u) THEN Ref(i)
                  ELSE IF j = i /\ Replaced(c) /\ Norm(v) = Norm(Old(c)) THEN Absent
                  ELSE db[IndexKey(v, j)]
    <2>1. IndexKey(v, j) \in Sets(c) <=> j = i /\ Places(c) /\ Norm(v) = Norm(u)
      BY UserKeyFacts DEF Sets
    <2>2. IndexKey(v, j) \notin Sets(c) =>
             (IndexKey(v, j) \in Drops(c) <=> j = i /\ Replaced(c) /\ Norm(v) = Norm(Old(c)))
      BY UserKeyFacts DEF Drops
    <2>3. IndexKey(v, j) \in Key /\ IndexKey(v, j) # PKKey(i)
      BY UserKeyFacts
    <2> QED BY <1>2, <2>1, <2>2, <2>3
  <1>5. ASSUME NEW j \in UpsertId, NEW v \in User
        PROVE  db'[UniqueKey(v, j)] =
                  IF j = i /\ Typed(u) /\ Norm(v) = Norm(u) THEN Ref(i) ELSE db[UniqueKey(v, j)]
    <2>1. UniqueKey(v, j) \in Sets(c) <=> j = i /\ Typed(u) /\ Norm(v) = Norm(u)
      BY UserKeyFacts DEF Sets
    <2>2. UniqueKey(v, j) \notin Drops(c)
      BY UserKeyFacts DEF Drops
    <2>3. UniqueKey(v, j) \in Key /\ UniqueKey(v, j) # PKKey(i)
      BY UserKeyFacts
    <2> QED BY <1>2, <2>1, <2>2, <2>3
  <1>6. r = u \/ (i \in InsertId /\ r = Blank)
    BY <1>1 DEF Pending
  <1> QED BY <1>1, <1>3, <1>4, <1>5, <1>6

\* An insert without a transaction writes the row, or its entry.
LEMMA DirectEffect ==
  ASSUME UInv, NEW i \in InsertId, DirectWrite(Puts(i)[step[i]].key, Puts(i)[step[i]].value)
  PROVE  /\ IInv' /\ UNCHANGED <<pc, tx>>
         /\ \A j \in Id : db'[PKKey(j)] = IF step[i] = 1 /\ j = i THEN Inserted ELSE db[PKKey(j)]
         /\ \A j \in Id, v \in User :
               db'[IndexKey(v, j)] = IF step[i] = 2 /\ j = i /\ Norm(v) = Norm(Inserted) THEN Ref(i)
                                     ELSE db[IndexKey(v, j)]
         /\ \A j \in UpsertId, v \in User : db'[UniqueKey(v, j)] = db[UniqueKey(v, j)]
  <1> DEFINE k == Puts(i)[step[i]].key
             x == Puts(i)[step[i]].value
  <1>1. i \in Id /\ step[i] \in {1, 2}
    BY UserFacts DEF UInv, UTypes
  <1>2. /\ step[i] = 1 => k = PKKey(i) /\ x = Inserted
        /\ step[i] = 2 => k = IndexKey(Inserted, i) /\ x = Ref(i)
    BY DEF Puts
  <1>3. k \in Key /\ x \in Content
    BY <1>1, <1>2, UserKeyFacts, UserFacts
  <1>4. DirectWrite(k, x)
    OBVIOUS
  <1> HIDE DEF k, x
  <1>5. IInv'
    BY <1>3, <1>4, NextInv DEF Next, UInv
  <1>6. UNCHANGED <<pc, tx>> /\ \A j \in Key : db'[j] = IF j = k THEN x ELSE db[j]
    BY <1>3, <1>4 DEF DirectWrite, Install
  <1>7. CASE step[i] = 1
    BY <1>1, <1>2, <1>5, <1>6, <1>7, UserKeyFacts
  <1>8. CASE step[i] = 2
    BY <1>1, <1>2, <1>5, <1>6, <1>8, UserKeyFacts, UserFacts
  <1> QED BY <1>1, <1>7, <1>8

StoreInv == /\ \A i \in Id : db[PKKey(i)] \in RowOf(i)
            /\ EntriesName /\ RowsAreIndexed

\* A commit leaves the row it writes with its entries, and loses no row.
LEMMA CommitKeepsStore ==
  ASSUME UInv, NEW c \in Client, pc[c] = "commit", Install(tx[c].pending, Dirty(c)),
         UNCHANGED <<step, rowless>>
  PROVE  StoreInv'
  <1>0. PICK i, u, r : i = want[c].id /\ u = want[c].user /\ r = tx[c].pending[PKKey(i)]
    OBVIOUS
  <1>1. /\ i \in Id /\ u \in User /\ (i \in InsertId => u = Inserted)
        /\ r = u \/ (i \in InsertId /\ r = Blank)
        /\ \A j \in Id : db'[PKKey(j)] = IF j = i THEN r ELSE db[PKKey(j)]
        /\ \A j \in Id, v \in User :
               db'[IndexKey(v, j)] =
                  IF j = i /\ Places(c) /\ Norm(v) = Norm(u) THEN Ref(i)
                  ELSE IF j = i /\ Replaced(c) /\ Norm(v) = Norm(Old(c)) THEN Absent
                  ELSE db[IndexKey(v, j)]
        /\ \A j \in UpsertId, v \in User :
               db'[UniqueKey(v, j)] =
                  IF j = i /\ Typed(u) /\ Norm(v) = Norm(u) THEN Ref(i) ELSE db[UniqueKey(v, j)]
    BY <1>0, UserCommit
  <1>2. \A j \in Id : db'[PKKey(j)] \in RowOf(j) /\ (RowThere(j) => RowThere(j)')
    BY <1>1, UserFacts DEF UInv, UTypes, RowThere, RowOf
  <1>3. RowThere(i)'
    BY <1>1, UserFacts DEF RowThere
  <1>4. EntriesName'
    <2>1. \A j \in Id, v \in User : Entry(IndexKey(v, j), j)'
      BY <1>1, <1>2, <1>3 DEF UInv, EntriesName, Entry
    <2>2. \A j \in UpsertId, v \in User : Entry(UniqueKey(v, j), j)'
      BY <1>1, <1>2, <1>3, UserFacts DEF UInv, EntriesName, Entry
    <2>3. \A j \in InsertId : step'[j] = 2 => RowThere(j)'
      BY <1>2, UserFacts DEF UInv, EntriesName
    <2> QED BY <2>1, <2>2, <2>3 DEF EntriesName
  <1>5. RowsAreIndexed'
    <2> SUFFICES ASSUME NEW j \in UpsertId, Typed(db'[PKKey(j)])
                 PROVE  /\ db'[IndexKey(db'[PKKey(j)], j)] = Ref(j)
                        /\ db'[UniqueKey(db'[PKKey(j)], j)] = Ref(j)
      BY DEF RowsAreIndexed
    <2>1. j \in Id
      BY UserFacts
    <2>2. CASE j = i
      <3>1. db'[PKKey(j)] = u /\ Typed(u) /\ Places(c)
        BY <1>0, <1>1, <2>1, <2>2, UserFacts DEF Places
      <3> QED BY <1>1, <2>1, <2>2, <3>1
    <2>3. CASE j # i
      <3>1. db'[PKKey(j)] = db[PKKey(j)] /\ db[PKKey(j)] \in User
        BY <1>1, <2>1, <2>3 DEF Typed
      <3> QED BY <1>1, <2>1, <2>3, <3>1 DEF UInv, RowsAreIndexed
    <2> QED BY <2>2, <2>3
  <1> QED BY <1>2, <1>4, <1>5 DEF StoreInv

\* So does an insert: its entry comes after its row, or its row has failed.
LEMMA InsertKeepsStore ==
  ASSUME UInv, NEW i \in InsertId, Advance(i),
         \/ DirectWrite(Puts(i)[step[i]].key, Puts(i)[step[i]].value)
         \/ UNCHANGED vars /\ (step[i] = 1 => i \in rowless'),
         rowless' = rowless \/ rowless' = rowless \cup {i}
  PROVE  StoreInv' /\ step' \in [InsertId -> {1, 2}] /\ rowless' \subseteq InsertId
  <1>1. i \in Id /\ i \notin UpsertId /\ step[i] \in {1, 2}
    BY UserFacts DEF UInv, UTypes
  <1>2. step' = [step EXCEPT ![i] = IF step[i] = 1 THEN 2 ELSE 1]
    <2>1. 3 - step[i] = IF step[i] = 1 THEN 2 ELSE 1
      BY <1>1
    <2> QED BY <2>1 DEF Advance
  <1>3. step' \in [InsertId -> {1, 2}] /\ rowless' \subseteq InsertId
    BY <1>2 DEF UInv, UTypes
  <1>4. /\ \A j \in Id : db'[PKKey(j)] \in {db[PKKey(j)], Inserted}
        /\ \A j \in UpsertId : db'[PKKey(j)] = db[PKKey(j)]
        /\ \A j \in Id, v \in User :
              \/ db'[IndexKey(v, j)] = db[IndexKey(v, j)]
              \/ db'[IndexKey(v, j)] = Ref(j) /\ j = i /\ step[i] = 2
        /\ \A j \in UpsertId, v \in User : db'[UniqueKey(v, j)] = db[UniqueKey(v, j)]
    <2>1. CASE DirectWrite(Puts(i)[step[i]].key, Puts(i)[step[i]].value)
      <3>1. /\ \A j \in Id : db'[PKKey(j)] = IF step[i] = 1 /\ j = i THEN Inserted ELSE db[PKKey(j)]
            /\ \A j \in Id, v \in User :
                  db'[IndexKey(v, j)] = IF step[i] = 2 /\ j = i /\ Norm(v) = Norm(Inserted) THEN Ref(i)
                                        ELSE db[IndexKey(v, j)]
            /\ \A j \in UpsertId, v \in User : db'[UniqueKey(v, j)] = db[UniqueKey(v, j)]
        BY <2>1, DirectEffect
      <3>2. \A j \in UpsertId : j # i /\ j \in Id
        BY <1>1, UserFacts
      <3> QED BY <3>1, <3>2
    <2>2. CASE UNCHANGED vars
      <3>1. db' = db
        BY <2>2 DEF vars, store
      <3> QED BY <3>1
    <2> QED BY <2>1, <2>2
  <1>5. \A j \in Id : db'[PKKey(j)] \in RowOf(j) /\ (RowThere(j) => RowThere(j)')
    BY <1>4, UserFacts DEF UInv, UTypes, RowThere, RowOf
  <1>6. step[i] = 1 => RowThere(i)'
    <2>1. CASE DirectWrite(Puts(i)[step[i]].key, Puts(i)[step[i]].value)
      BY <1>1, <2>1, DirectEffect, UserFacts DEF RowThere
    <2> QED BY <2>1 DEF RowThere
  <1>7. EntriesName'
    <2>1. ASSUME NEW j \in Id, NEW v \in User PROVE Entry(IndexKey(v, j), j)'
      BY <1>4, <1>5 DEF UInv, EntriesName, Entry
    <2>2. ASSUME NEW j \in UpsertId, NEW v \in User PROVE Entry(UniqueKey(v, j), j)'
      BY <1>4, <1>5, UserFacts DEF UInv, EntriesName, Entry
    <2>3. ASSUME NEW j \in InsertId, step'[j] = 2 PROVE RowThere(j)'
      <3>1. j \in Id /\ (j = i => step[i] = 1) /\ (j # i => step[j] = 2)
        BY <1>2, <2>3, UserFacts DEF UInv, UTypes
      <3> QED BY <1>5, <1>6, <3>1 DEF UInv, EntriesName
    <2> QED BY <2>1, <2>2, <2>3 DEF EntriesName
  <1>8. RowsAreIndexed'
    <2> SUFFICES ASSUME NEW j \in UpsertId, Typed(db'[PKKey(j)])
                 PROVE  /\ db'[IndexKey(db'[PKKey(j)], j)] = Ref(j)
                        /\ db'[UniqueKey(db'[PKKey(j)], j)] = Ref(j)
      BY DEF RowsAreIndexed
    <2>1. j \in Id /\ db'[PKKey(j)] = db[PKKey(j)] /\ db[PKKey(j)] \in User
      BY <1>4, UserFacts DEF Typed
    <2> QED BY <1>1, <1>4, <2>1 DEF UInv, RowsAreIndexed
  <1> QED BY <1>3, <1>5, <1>7, <1>8 DEF StoreInv

-----------------------------------------------------------------------------
(* Every step keeps the invariant.                                         *)

\* The step leaves this client's call alone.
USame(c) == pc'[c] = pc[c] /\ tx'[c] = tx[c] /\ want'[c] = want[c]

\* What a client's call has to do with the store is in its transaction.
LEMMA UOthersInv ==
  ASSUME NEW c \in Client, UCallInv(c), USame(c)
  PROVE  UCallInv(c)'
  <1>1. /\ Sets(c)' = Sets(c) /\ Drops(c)' = Drops(c) /\ Dirty(c)' = Dirty(c)
        /\ Open(c)' = Open(c)
    BY DEF USame, Sets, Places, Drops, Replaced, Old, Dirty, Open
  <1>2. Pending(c) => Pending(c)'
    BY <1>1 DEF Pending, USame
  <1> QED BY <1>1, <1>2 DEF UCallInv, WantInv, USame

\* A step of one client that keeps its call's invariant and the store's.
LEMMA UKept ==
  ASSUME UInv, IInv', StoreInv', step' \in [InsertId -> {1, 2}], rowless' \subseteq InsertId,
         NEW c \in Client, UCallInv(c)', want'[c] \in [id : Id \cup {Absent}, user : User \cup {Absent}],
         want' = [want EXCEPT ![c] = want'[c]],
         \A d \in Client \ {c} : pc'[d] = pc[d] /\ tx'[d] = tx[d]
  PROVE  UInv'
  <1>1. want' \in [Client -> [id : Id \cup {Absent}, user : User \cup {Absent}]]
    BY DEF UInv, UTypes
  <1>2. ASSUME NEW d \in Client \ {c} PROVE UCallInv(d)'
    <2>1. USame(d)
      BY <1>2 DEF USame, UInv, UTypes
    <2> QED BY <2>1, UOthersInv DEF UInv
  <1> QED BY <1>1, <1>2 DEF UInv, UTypes, StoreInv

\* A step that leaves rows, entries and inserts alone.
LEMMA StoreLeft ==
  ASSUME UInv, UNCHANGED <<db, step, rowless>>
  PROVE  StoreInv' /\ step' \in [InsertId -> {1, 2}] /\ rowless' \subseteq InsertId
  <1>1. \A k, i : Entry(k, i)' = Entry(k, i) /\ RowThere(i)' = RowThere(i)
    BY DEF Entry, RowThere
  <1>2. EntriesName'
    BY <1>1 DEF UInv, EntriesName
  <1> QED BY <1>2 DEF UInv, UTypes, StoreInv, RowsAreIndexed

\* The steps of the manager inside a call.
LEMMA UManageSteps ==
  ASSUME UInv, NEW c \in Client, Manage(c)
  PROVE  /\ pc[c] # "idle" /\ IInv'
         /\ \A d \in Client \ {c} : pc'[d] = pc[d] /\ tx'[d] = tx[d]
         /\ db' = db \/ (pc[c] = "commit" /\ Install(tx[c].pending, Dirty(c)))
         /\ \/ pc'[c] \in {"idle", "begin", "sleep"}
            \/ pc'[c] = "run" /\ tx'[c].snap = db /\ tx'[c].pending = [k \in Key |-> Untouched]
            \/ pc'[c] = "commit" /\ pc[c] = "check" /\ tx'[c] = tx[c]
  <1>1. IInv'
    BY NextInv DEF Next, UInv
  <1>2. TypeOK /\ (Install(db, Dirty(c)) => db' = db)
    BY DEF UInv, IInv, TypeOK, Install
  <1>3. CASE BeginAttempt(c)
    <2>1. /\ tx' = [tx EXCEPT ![c] = tx'[c]] /\ pc' = [pc EXCEPT ![c] = "run"] /\ db' = db
          /\ tx'[c] = [Discarded EXCEPT !.readTs = commitTs, !.snap = db] /\ pc[c] = "begin"
      BY <1>2, <1>3 DEF BeginAttempt, Move, store, TypeOK
    <2>2. tx'[c].snap = db /\ tx'[c].pending = [k \in Key |-> Untouched]
      BY <2>1 DEF Discarded
    <2> QED BY <1>1, <1>2, <2>1, <2>2 DEF TypeOK
  <1>5. CASE BeginCancelled(c) \/ Check(c) \/ Backoff(c)
    BY <1>1, <1>2, <1>5 DEF BeginCancelled, Check, ReadDone, WriteCheck,
       WriteCancelled, Backoff, BackoffElapses, BackoffCancelled, Return, Move, store, TypeOK
  <1>4. CASE Commit(c)
    BY <1>1, <1>2, <1>4 DEF Commit, CommitEmpty, CommitWrites, CommitRetry, CommitGivesUp,
       CommitRefused, CommitLost, Return, Move, store, TypeOK
  <1> QED BY <1>3, <1>4, <1>5 DEF Manage, Attempt

\* A call that has come back wants nothing any more.
LEMMA IdleInv ==
  ASSUME NEW c \in Client, pc'[c] = "idle", want'[c] = Nothing
  PROVE  UCallInv(c)' /\ want'[c] \in [id : Id \cup {Absent}, user : User \cup {Absent}]
  BY DEF UCallInv, WantInv, Open, Nothing

\* An empty store agrees with everything.
LEMMA UInitInv == UInit => UInv
  <1> SUFFICES ASSUME UInit PROVE UInv
    OBVIOUS
  <1>1. IInv
    BY InitInv DEF UInit
  <1>2. \A k \in Key : db[k] = Absent
    BY DEF UInit, Init
  <1>3. UTypes
    BY <1>2, UserKeyFacts DEF UInit, UTypes, Nothing, RowOf
  <1>4. EntriesName /\ RowsAreIndexed
    <2>1. EntriesName
      BY <1>2, UserKeyFacts, UserFacts DEF UInit, EntriesName, Entry
    <2>2. ASSUME NEW i \in UpsertId PROVE ~Typed(db[PKKey(i)])
      <3>1. db[PKKey(i)] = Absent
        BY <1>2, UserKeyFacts, UserFacts
      <3> QED BY <3>1, UserFacts DEF Typed
    <2> QED BY <2>1, <2>2 DEF RowsAreIndexed
  <1>5. \A c \in Client : UCallInv(c)
    BY DEF UInit, Init, UCallInv, WantInv, Open
  <1> QED BY <1>1, <1>3, <1>4, <1>5 DEF UInv

\* Every step keeps the invariant.
LEMMA UNextInv == UInv /\ [UNext]_uvars => UInv'
  <1> SUFFICES ASSUME UInv, [UNext]_uvars PROVE UInv'
    OBVIOUS
  <1> DEFINE Wanted == [id : Id \cup {Absent}, user : User \cup {Absent}]
  <1>1. /\ want \in [Client -> Wanted] /\ \A c \in Client : UCallInv(c)
        /\ pc \in [Client -> {"idle", "begin", "run", "check", "commit", "sleep"}]
    BY DEF UInv, UTypes, IInv, TypeOK
  <1>2. CASE UNCHANGED uvars
    <2>1. UNCHANGED vars /\ UNCHANGED <<db, pc, tx, want, step, rowless>>
      BY <1>2 DEF uvars, vars, store
    <2>2. IInv'
      BY <2>1, NextInv DEF UInv
    <2>3. \A c \in Client : UCallInv(c)'
      BY <1>1, <2>1, UOthersInv DEF USame
    <2> QED BY <1>1, <2>1, <2>2, <2>3, StoreLeft DEF UInv, UTypes, StoreInv
  <1>3. ASSUME NEW c \in Client, NEW i \in Id, NEW u \in User, Start(c, i, u),
               i \in InsertId => u = Inserted
        PROVE  UInv'
    <2>1. IInv'
      BY <1>3, NextInv DEF Start, Next, UInv
    <2>2. /\ UNCHANGED <<db, tx, step, rowless>> /\ want' = [want EXCEPT ![c] = [id |-> i, user |-> u]]
          /\ pc' = [pc EXCEPT ![c] = "begin"]
      BY <1>3 DEF Start, Call, Move, store
    <2>3. want'[c] = [id |-> i, user |-> u] /\ pc'[c] = "begin"
      BY <1>1, <2>2
    <2>4. UCallInv(c)' /\ want'[c] \in Wanted
      BY <1>3, <2>3 DEF UCallInv, WantInv, Open
    <2> QED BY <1>1, <2>1, <2>2, <2>3, <2>4, StoreLeft, UKept
  <1>4. ASSUME NEW c \in Client, Upsert(c) \/ Insert(c) PROVE UInv'
    <2>1. IInv' /\ Pending(c)' /\ pc[c] = "run"
      BY <1>4, ClosureRuns
    <2>2. PICK w, reads : Closes(c, w, reads)
      BY <1>4, ClosureRuns
    <2>3. /\ UNCHANGED <<db, want, step, rowless>> /\ pc' = [pc EXCEPT ![c] = "check"]
          /\ tx' = [tx EXCEPT ![c] = tx'[c]] /\ tx'[c].snap = tx[c].snap
      BY <2>2 DEF Closes, Move, store, UInv, IInv, TypeOK, TxType
    <2>4. UCallInv(c)'
      BY <1>1, <2>1, <2>3 DEF UCallInv, WantInv, Open
    <2>5. /\ \A d \in Client \ {c} : pc'[d] = pc[d] /\ tx'[d] = tx[d]
          /\ want' = [want EXCEPT ![c] = want'[c]] /\ want'[c] \in Wanted
      BY <1>1, <2>3 DEF UInv, IInv, TypeOK
    <2>6. StoreInv' /\ step' \in [InsertId -> {1, 2}] /\ rowless' \subseteq InsertId
      BY <2>3, StoreLeft
    <2> QED BY <2>1, <2>4, <2>5, <2>6, UKept
  <1>5. ASSUME NEW c \in Client, Breaks(c) PROVE UInv'
    <2>1. IInv'
      BY <1>5, NextInv DEF Breaks, Next, Closure, UInv
    <2>2. /\ UNCHANGED <<db, step, rowless>> /\ want' = [want EXCEPT ![c] = Nothing]
          /\ pc'[c] = "idle" /\ \A d \in Client \ {c} : pc'[d] = pc[d] /\ tx'[d] = tx[d]
      BY <1>5 DEF Breaks, ClosureFails, Return, Move, store, UInv, IInv, TypeOK
    <2>3. want'[c] = Nothing
      BY <1>1, <2>2
    <2> QED BY <2>1, <2>2, <2>3, IdleInv, StoreLeft, UKept
  <1>6. ASSUME NEW c \in Client, UManage(c) PROVE UInv'
    <2>1. Manage(c) /\ UNCHANGED <<step, rowless>>
      BY <1>6 DEF UManage
    <2>2. StoreInv' /\ step' \in [InsertId -> {1, 2}] /\ rowless' \subseteq InsertId
      BY <2>1, UManageSteps, CommitKeepsStore, StoreLeft DEF UInv, UTypes
    <2>3. CASE pc'[c] = "idle"
      <3>1. want' = [want EXCEPT ![c] = Nothing] /\ want'[c] = Nothing
        BY <1>1, <1>6, <2>3 DEF UManage
      <3> QED BY <2>1, <2>2, <2>3, <3>1, IdleInv, UManageSteps, UKept
    <2>4. CASE pc'[c] # "idle"
      <3>1. want' = want
        BY <1>6, <2>4 DEF UManage
      <3>2. UCallInv(c) /\ WantInv(c)'
        BY <1>1, <2>1, <2>4, <3>1, UManageSteps DEF UCallInv, WantInv
      <3>3. CASE pc'[c] \in {"begin", "sleep"}
        <4>1. UCallInv(c)'
          BY <3>2, <3>3 DEF UCallInv, Open
        <4> QED BY <1>1, <2>1, <2>2, <3>1, <4>1, UManageSteps, UKept
      <3>4. CASE pc'[c] = "run" /\ tx'[c].snap = db /\ tx'[c].pending = [k \in Key |-> Untouched]
        <4>1. Dirty(c)' = {}
          BY <3>4 DEF Dirty
        <4>2. UCallInv(c)'
          BY <3>2, <3>4, <4>1 DEF UCallInv, UInv, UTypes
        <4> QED BY <1>1, <2>1, <2>2, <3>1, <4>2, UManageSteps, UKept
      <3>5. CASE pc'[c] = "commit" /\ pc[c] = "check" /\ tx'[c] = tx[c]
        <4>1. /\ Sets(c)' = Sets(c) /\ Drops(c)' = Drops(c) /\ Dirty(c)' = Dirty(c)
          BY <3>1, <3>5 DEF Sets, Places, Drops, Replaced, Old, Dirty
        <4>2. Pending(c)'
          BY <3>1, <3>2, <3>5, <4>1 DEF Pending, UCallInv
        <4>3. UCallInv(c)'
          BY <3>2, <3>5, <4>2 DEF UCallInv, Open
        <4> QED BY <1>1, <2>1, <2>2, <3>1, <4>3, UManageSteps, UKept
      <3> QED BY <2>1, <2>4, <3>3, <3>4, <3>5, UManageSteps
    <2> QED BY <2>3, <2>4
  <1>7. ASSUME NEW i \in InsertId, DirectPut(i) \/ DirectPutFails(i) PROVE UInv'
    <2>1. /\ Advance(i) /\ want' = want
          /\ \/ DirectWrite(Puts(i)[step[i]].key, Puts(i)[step[i]].value)
             \/ UNCHANGED vars /\ (step[i] = 1 => i \in rowless')
          /\ rowless' = rowless \/ rowless' = rowless \cup {i}
      BY <1>7 DEF DirectPut, DirectPutFails
    <2>2. StoreInv' /\ step' \in [InsertId -> {1, 2}] /\ rowless' \subseteq InsertId
      BY <2>1, InsertKeepsStore
    <2>3. IInv' /\ UNCHANGED <<pc, tx>>
      <3>1. UNCHANGED vars => IInv' /\ UNCHANGED <<pc, tx>>
        BY NextInv DEF UInv, vars
      <3> QED BY <2>1, <3>1, DirectEffect
    <2>4. \A c \in Client : UCallInv(c)'
      BY <1>1, <2>1, <2>3, UOthersInv DEF USame
    <2> QED BY <1>1, <2>1, <2>2, <2>3, <2>4 DEF UInv, UTypes, StoreInv
  <1> QED BY <1>2, <1>3, <1>4, <1>5, <1>6, <1>7, UserFacts DEF UNext

(* The inductive invariant: what a closure leaves pending, that every row  *)
(* with a type has its entries and every entry names its id.               *)
THEOREM UInvariance == USpec => []UInv
  BY UInitInv, UNextInv, PTL DEF USpec

(* Every variable keeps its type: a call under way has a user to write, an *)
(* upserted row never holds anything but a user, and an inserted one only  *)
(* the user inserted or, its Marshal having failed, nothing readable.      *)
THEOREM UsersTypeCorrect == USpec => []UTypeOK
  <1>1. UInv => UTypeOK
    <2> SUFFICES ASSUME UInv PROVE UTypeOK
      OBVIOUS
    <2>1. ASSUME NEW c \in Client PROVE pc[c] # "idle" <=> want[c] # Nothing
      BY UserFacts DEF UInv, UCallInv, WantInv, Nothing
    <2>2. /\ \A i \in UpsertId : db[PKKey(i)] \in User \cup {Absent}
          /\ \A i \in InsertId : db[PKKey(i)] \in {Inserted, Blank, Absent}
      BY UserFacts DEF UInv, UTypes, RowOf
    <2> QED BY <2>1, <2>2 DEF UInv, UTypes, UTypeOK, IInv
  <1> QED BY <1>1, UInvariance, PTL

(* Every row with a type that an upsert has written is found through both  *)
(* of its entries, after any upserts (to and from users without a type     *)
(* among them), conflicts, lost commits and inserts beside it, and whether *)
(* or not conflicts are detected.                                          *)
THEOREM RowsStayIndexed == USpec => []RowsAreIndexed
  BY UInvariance, PTL DEF UInv

(* At any moment an entry without a row is one of a row whose SetObject    *)
(* failed: the audit has nothing else to find.                             *)
THEOREM OnlyFailuresDangle == USpec => []DanglingOnlyAfterFailure
  <1>1. UInv => DanglingOnlyAfterFailure
    <2> SUFFICES ASSUME UInv, NEW k \in Dangling PROVE k[3] \in rowless
      BY DEF DanglingOnlyAfterFailure
    <2>1. k \in Key /\ k[1] \in {"x", "u"} /\ db[k] # Absent /\ db[db[k].pk] = Absent
      BY DEF Dangling
    <2>2. PICK i \in Id : Entry(k, i) /\ k[3] = i
      <3>1. k \in UserKeys
        BY <2>1, UserIndexAssumption
      <3>2. CASE \E i \in Id : k = PKKey(i)
        BY <2>1, <3>2 DEF PKKey
      <3>3. CASE \E u \in User, i \in Id : k = IndexKey(u, i)
        BY <3>3 DEF UInv, EntriesName, IndexKey
      <3>4. CASE \E u \in User, i \in UpsertId : k = UniqueKey(u, i)
        BY <3>4, UserFacts DEF UInv, EntriesName, UniqueKey
      <3> QED BY <3>1, <3>2, <3>3, <3>4 DEF UserKeys
    <2>3. db[k] = Ref(i) /\ RowThere(i)
      BY <2>1, <2>2 DEF Entry
    <2>4. db[k].pk = PKKey(i)
      BY <2>3 DEF Ref
    <2> QED BY <2>1, <2>2, <2>3, <2>4 DEF RowThere
  <1> QED BY <1>1, UInvariance, PTL

-----------------------------------------------------------------------------
(* The rows and their entries implement RowIndex.                          *)

\* What the refinement makes of the store.
row       == [i \in Id |-> db[PKKey(i)]]
composite == [i \in Id |-> Entries("x", i)]
unique    == [i \in Id |-> Entries("u", i)]

\* The parts spelled out by the entries that are there, before and after a step.
LEMMA EntriesAre ==
  /\ \A i \in Id : \A n : n \in Entries("x", i) <=>
        \E v \in User : n = Norm(v) /\ db[IndexKey(v, i)] # Absent
  /\ \A i \in Id : \A n : n \in Entries("x", i)' <=>
        \E v \in User : n = Norm(v) /\ db'[IndexKey(v, i)] # Absent
  /\ \A i \in UpsertId : \A n : n \in Entries("u", i) <=>
        \E v \in User : n = Norm(v) /\ db[UniqueKey(v, i)] # Absent
  /\ \A i \in UpsertId : \A n : n \in Entries("u", i)' <=>
        \E v \in User : n = Norm(v) /\ db'[UniqueKey(v, i)] # Absent
  /\ \A i \in Id \ UpsertId : Entries("u", i) = {} /\ Entries("u", i)' = {}
  <1>1. ASSUME NEW i \in Id, NEW n
        PROVE  /\ n \in Entries("x", i) <=> \E v \in User : n = Norm(v) /\ db[IndexKey(v, i)] # Absent
               /\ n \in Entries("x", i)' <=> \E v \in User : n = Norm(v) /\ db'[IndexKey(v, i)] # Absent
    <2>1. \A v \in User : n = Norm(v) => IndexKey(v, i) = <<"x", n, i>> /\ <<"x", n, i>> \in Key
      BY UserKeyFacts DEF IndexKey
    <2>2. n \in Spelled <=> \E v \in User : n = Norm(v)
      BY DEF Spelled
    <2> QED BY <2>1, <2>2 DEF Entries
  <1>2. ASSUME NEW i \in UpsertId, NEW n
        PROVE  /\ n \in Entries("u", i) <=> \E v \in User : n = Norm(v) /\ db[UniqueKey(v, i)] # Absent
               /\ n \in Entries("u", i)' <=> \E v \in User : n = Norm(v) /\ db'[UniqueKey(v, i)] # Absent
    <2>1. \A v \in User : n = Norm(v) => UniqueKey(v, i) = <<"u", n, i>> /\ <<"u", n, i>> \in Key
      BY UserKeyFacts DEF UniqueKey
    <2>2. n \in Spelled <=> \E v \in User : n = Norm(v)
      BY DEF Spelled
    <2> QED BY <2>1, <2>2 DEF Entries
  <1>3. ASSUME NEW i \in Id \ UpsertId, NEW v \in User PROVE UniqueKey(v, i) \notin Key
    BY <1>3, UserIndexAssumption, UserKeyFacts DEF UserKeys
  <1>4. \A i \in Id \ UpsertId : Entries("u", i) = {} /\ Entries("u", i)' = {}
    BY <1>3 DEF Entries, Spelled, UniqueKey
  <1> QED BY <1>1, <1>2, <1>4

\* Entries that stay, some that come and some that go.
LEMMA EntriesChange ==
  ASSUME NEW i \in Id, NEW new, NEW gone,
         \A j \in Id, v \in User :
            db'[IndexKey(v, j)] # Absent <=>
               IF j = i /\ Norm(v) \in new THEN TRUE
               ELSE IF j = i /\ Norm(v) \in gone THEN FALSE ELSE db[IndexKey(v, j)] # Absent,
         \A n \in new : \E u \in User : n = Norm(u)
  PROVE  composite' = [composite EXCEPT ![i] = (@ \ gone) \cup new]
  <1>1. ASSUME NEW j \in Id, j # i PROVE Entries("x", j)' = Entries("x", j)
    <2>1. \A m : m \in Entries("x", j)' <=> m \in Entries("x", j)
      BY <1>1, EntriesAre
    <2> QED BY <2>1 DEF Entries
  <1>2. Entries("x", i)' = (Entries("x", i) \ gone) \cup new
    <2>1. \A m : m \in Entries("x", i)' <=> m \in new \/ (m \in Entries("x", i) /\ m \notin gone)
      <3>1. \A v, w \in User : Norm(v) = Norm(w) => IndexKey(v, i) = IndexKey(w, i)
        BY UserKeyFacts
      <3> QED BY <3>1, EntriesAre
    <2> QED BY <2>1 DEF Entries
  <1> QED BY <1>1, <1>2 DEF composite

\* The unique entries of the id that is upserted, and of the others.
LEMMA UniqueChange ==
  ASSUME NEW i \in UpsertId, NEW new,
         \A j \in UpsertId, v \in User :
            db'[UniqueKey(v, j)] # Absent <=> (j = i /\ Norm(v) \in new) \/ db[UniqueKey(v, j)] # Absent,
         \A n \in new : \E u \in User : n = Norm(u)
  PROVE  unique' = [unique EXCEPT ![i] = @ \cup new]
  <1>1. ASSUME NEW j \in UpsertId
        PROVE  Entries("u", j)' = IF j = i THEN Entries("u", j) \cup new ELSE Entries("u", j)
    <2>1. \A m : m \in Entries("u", j)' <=> (j = i /\ m \in new) \/ m \in Entries("u", j)
      BY EntriesAre
    <2> QED BY <2>1 DEF Entries
  <1>2. \A j \in Id \ UpsertId : Entries("u", j)' = Entries("u", j) /\ j # i
    BY EntriesAre
  <1> QED BY <1>1, <1>2 DEF unique

\* Nothing happens to the entries of a space.
LEMMA EntriesStay ==
  /\ (\A j \in Id, v \in User : db'[IndexKey(v, j)] = db[IndexKey(v, j)]) => composite' = composite
  /\ (\A j \in UpsertId, v \in User : db'[UniqueKey(v, j)] = db[UniqueKey(v, j)]) => unique' = unique
  <1>1. ASSUME \A j \in Id, v \in User : db'[IndexKey(v, j)] = db[IndexKey(v, j)], NEW j \in Id
        PROVE  Entries("x", j)' = Entries("x", j)
    <2>1. \A m : m \in Entries("x", j) <=> m \in Entries("x", j)'
      BY <1>1, EntriesAre
    <2> QED BY <2>1 DEF Entries
  <1>2. ASSUME \A j \in UpsertId, v \in User : db'[UniqueKey(v, j)] = db[UniqueKey(v, j)], NEW j \in UpsertId
        PROVE  Entries("u", j)' = Entries("u", j)
    <2>1. \A m : m \in Entries("u", j) <=> m \in Entries("u", j)'
      BY <1>2, EntriesAre
    <2> QED BY <2>1 DEF Entries
  <1>3. \A j \in Id \ UpsertId : Entries("u", j)' = Entries("u", j)
    BY EntriesAre
  <1> QED BY <1>1, <1>2, <1>3 DEF composite, unique

\* A commit is an upsert on the row as it is, or an insert: had the row been
\* written since the closure read it, the commit would have been refused.
LEMMA CommitImplementsRows ==
  ASSUME DetectConflicts, UInv, NEW c \in Client, pc[c] = "commit", ~Conflict(c),
         Install(tx[c].pending, Dirty(c))
  PROVE  Rows!Next
  <1>1. PICK i, u, r : i = want[c].id /\ u = want[c].user /\ r = tx[c].pending[PKKey(i)]
    OBVIOUS
  <1>2. /\ i \in Id /\ u \in User /\ (i \in InsertId => u = Inserted)
        /\ r = u \/ (i \in InsertId /\ r = Blank)
        /\ \A j \in Id : db'[PKKey(j)] = IF j = i THEN r ELSE db[PKKey(j)]
        /\ \A j \in Id, v \in User :
               db'[IndexKey(v, j)] =
                  IF j = i /\ Places(c) /\ Norm(v) = Norm(u) THEN Ref(i)
                  ELSE IF j = i /\ Replaced(c) /\ Norm(v) = Norm(Old(c)) THEN Absent
                  ELSE db[IndexKey(v, j)]
        /\ \A j \in UpsertId, v \in User :
               db'[UniqueKey(v, j)] =
                  IF j = i /\ Typed(u) /\ Norm(v) = Norm(u) THEN Ref(i) ELSE db[UniqueKey(v, j)]
    BY <1>1, UserCommit
  <1>3. PICK gone : gone = IF Replaced(c) THEN {Norm(Old(c))} ELSE {}
    OBVIOUS
  <1>4. PICK new : new = IF Places(c) THEN {Norm(u)} ELSE {}
    OBVIOUS
  <1>5. row' = [row EXCEPT ![i] = r] /\ row[i] = db[PKKey(i)]
    BY <1>2 DEF row
  <1>6. composite' = [composite EXCEPT ![i] = (@ \ gone) \cup new]
    <2>1. \A j \in Id, v \in User :
             db'[IndexKey(v, j)] # Absent <=>
                IF j = i /\ Norm(v) \in new THEN TRUE
                ELSE IF j = i /\ Norm(v) \in gone THEN FALSE ELSE db[IndexKey(v, j)] # Absent
      BY <1>2, <1>3, <1>4, UserFacts
    <2>2. \A n \in new : \E v \in User : n = Norm(v)
      BY <1>2, <1>4
    <2>3. i \in Id
      BY <1>2
    <2> QED BY <2>1, <2>2, <2>3, EntriesChange
  <1>7. CASE i \in UpsertId
    <2>1. r = u /\ new = Rows!Indexed(u) /\ i \notin InsertId
      BY <1>1, <1>2, <1>4, <1>7, UserFacts DEF Places, Typed, Rows!Indexed
    <2>2. unique' = [unique EXCEPT ![i] = @ \cup new]
      <3>1. \A j \in UpsertId, v \in User :
               db'[UniqueKey(v, j)] # Absent <=> (j = i /\ Norm(v) \in new) \/ db[UniqueKey(v, j)] # Absent
        BY <1>1, <1>2, <1>4, <2>1, UserFacts DEF Places
      <3>2. \A n \in new : \E v \in User : n = Norm(v)
        BY <1>2, <1>4
      <3> QED BY <1>7, <3>1, <3>2, UniqueChange
    <2>3. db[PKKey(i)] = Old(c)
      <3>1. PKKey(i) \in tx[c].reads /\ PKKey(i) \in Key
        BY <1>1, <1>2, <1>7, UserKeyFacts DEF UInv, UCallInv, Pending
      <3>2. ver[PKKey(i)] \in Nat /\ tx[c].readTs \in Nat
        BY <3>1 DEF UInv, IInv, TypeOK, TxType
      <3>3. ver[PKKey(i)] <= tx[c].readTs
        BY <3>1, <3>2 DEF Conflict
      <3> QED BY <1>1, <3>1, <3>3 DEF UInv, IInv, SnapshotCurrent, Old
    <2>4. gone = {n \in Rows!Indexed(row[i]) : row[i].type # u.type}
      BY <1>1, <1>3, <1>5, <1>7, <2>3 DEF Replaced, Typed, Rows!Indexed
    <2>5. Rows!Upsert(i, u)
      BY <1>5, <1>6, <2>1, <2>2, <2>4 DEF Rows!Upsert, row, composite, unique
    <2> QED BY <1>2, <2>5 DEF Rows!Next
  <1>8. CASE i \notin UpsertId
    <2>1. gone = {} /\ new = {Norm(u)}
      BY <1>1, <1>2, <1>3, <1>4, <1>8, UserFacts DEF Replaced, Places
    <2>2. unique' = unique
      BY <1>2, <1>8, EntriesStay
    <2>3. composite' = [composite EXCEPT ![i] = @ \cup {Norm(u)}]
      BY <1>6, <2>1 DEF composite, Entries
    <2>4. Rows!Insert(i, u)
      BY <1>2, <1>5, <2>2, <2>3 DEF Rows!Insert, row, composite, unique
    <2> QED BY <1>2, <2>4 DEF Rows!Next
  <1> QED BY <1>7, <1>8

\* An insert without a transaction does one half and then the other.
LEMMA InsertImplementsRows ==
  ASSUME UInv, NEW i \in InsertId, DirectWrite(Puts(i)[step[i]].key, Puts(i)[step[i]].value)
  PROVE  Rows!Next
  <1>1. i \in Id /\ Inserted \in User /\ step[i] \in {1, 2}
    BY UserFacts DEF UInv, UTypes
  <1>2. /\ \A j \in Id : db'[PKKey(j)] = IF step[i] = 1 /\ j = i THEN Inserted ELSE db[PKKey(j)]
        /\ \A j \in Id, v \in User :
              db'[IndexKey(v, j)] = IF step[i] = 2 /\ j = i /\ Norm(v) = Norm(Inserted) THEN Ref(i)
                                    ELSE db[IndexKey(v, j)]
        /\ \A j \in UpsertId, v \in User : db'[UniqueKey(v, j)] = db[UniqueKey(v, j)]
    BY DirectEffect
  <1>3. unique' = unique
    BY <1>2, EntriesStay
  <1>4. CASE step[i] = 1
    <2>1. composite' = composite
      BY <1>2, <1>4, EntriesStay
    <2>2. row' = [row EXCEPT ![i] = Inserted]
      BY <1>2, <1>4 DEF row
    <2>3. Rows!Row(i, Inserted)
      BY <1>3, <2>1, <2>2 DEF Rows!Row, row, composite, unique
    <2> QED BY <1>1, <2>3 DEF Rows!Next
  <1>5. CASE step[i] = 2
    <2>1. composite' = [composite EXCEPT ![i] = (@ \ {}) \cup {Norm(Inserted)}]
      <3>1. \A j \in Id, v \in User :
               db'[IndexKey(v, j)] # Absent <=>
                  IF j = i /\ Norm(v) \in {Norm(Inserted)} THEN TRUE
                  ELSE IF j = i /\ Norm(v) \in {} THEN FALSE ELSE db[IndexKey(v, j)] # Absent
        BY <1>1, <1>2, <1>5, UserFacts
      <3> QED BY <1>1, <3>1, EntriesChange
    <2>2. row' = row
      BY <1>2, <1>5 DEF row
    <2>3. composite' = [composite EXCEPT ![i] = @ \cup {Norm(Inserted)}]
      BY <2>1 DEF composite, Entries
    <2>4. Rows!Entry(i, Inserted)
      BY <1>3, <2>2, <2>3 DEF Rows!Entry, row, composite, unique
    <2> QED BY <1>1, <2>4 DEF Rows!Next
  <1> QED BY <1>1, <1>4, <1>5

\* Every step is one of RowIndex, or leaves rows and entries alone.
LEMMA UStep ==
  ASSUME DetectConflicts, UInv, [UNext]_uvars
  PROVE  Rows!Next \/ UNCHANGED <<row, composite, unique>>
  <1>1. ASSUME db' = db PROVE UNCHANGED <<row, composite, unique>>
    BY <1>1, EntriesStay DEF row
  <1>2. CASE UNCHANGED uvars
    BY <1>1, <1>2 DEF uvars, vars, store
  <1>3. ASSUME NEW c \in Client, \/ \E i \in Id, u \in User : Start(c, i, u)
                                 \/ Upsert(c) \/ Insert(c) \/ Breaks(c)
        PROVE  db' = db
    BY <1>3 DEF Start, Call, Upsert, Insert, Closes, Breaks, ClosureFails, store
  <1>4. ASSUME NEW c \in Client, UManage(c) PROVE Rows!Next \/ db' = db
    <2>1. Manage(c)
      BY <1>4 DEF UManage
    <2>2. db' = db \/ (pc[c] = "commit" /\ ~Conflict(c) /\ Install(tx[c].pending, Dirty(c)))
      <3>1. Install(db, Dirty(c)) => db' = db
        BY DEF UInv, IInv, TypeOK, Install
      <3> QED BY <2>1, <3>1 DEF Manage, Attempt, BeginAttempt, BeginCancelled, Check, ReadDone,
                 WriteCheck, WriteCancelled, Commit, CommitEmpty, CommitWrites, CommitRetry,
                 CommitGivesUp, CommitRefused, CommitLost, Backoff, BackoffElapses,
                 BackoffCancelled, Return, Move, store
    <2> QED BY <2>2, CommitImplementsRows
  <1>5. ASSUME NEW i \in InsertId, DirectPut(i) \/ DirectPutFails(i) PROVE Rows!Next \/ db' = db
    BY <1>5, InsertImplementsRows DEF DirectPut, DirectPutFails, vars, store
  <1> QED BY <1>1, <1>2, <1>3, <1>4, <1>5, UserFacts DEF UNext

(* With DetectConflicts, for any users and any normalization of their      *)
(* fields, the retried read-modify-write upserts implement RowIndex: each  *)
(* takes effect at once, on the row as it then is, and the only entry that *)
(* goes is that of the row it replaces.                                    *)
THEOREM UpsertsImplementRows ==
  ASSUME DetectConflicts
  PROVE  USpec => RowsSpec
  <1>1. UInit => Rows!Init
    <2>1. UInit => \A k \in Key : db[k] = Absent
      BY DEF UInit, Init
    <2>2. UInit => \A i \in Id : db[PKKey(i)] = Absent
      BY <2>1, UserKeyFacts
    <2>3. UInit => \A s, i : Entries(s, i) = {}
      BY <2>1 DEF Entries
    <2> QED BY <2>2, <2>3 DEF Rows!Init
  <1>2. UInv /\ [UNext]_uvars => [Rows!Next]_<<row, composite, unique>>
    BY UStep
  <1> QED BY <1>1, <1>2, UInvariance, PTL
          DEF USpec, RowsSpec, Rows!Spec, Rows!rvars, row, composite, unique

=============================================================================
