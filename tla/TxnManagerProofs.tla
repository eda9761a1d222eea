-------------------------- MODULE TxnManagerProofs --------------------------
(***************************************************************************)
(* Theorems about TxnManager, for any clients, keys, values, retry limit   *)
(* and bounds.                                                             *)
(***************************************************************************)
EXTENDS TxnManager, TLAPS

Open(c) == pc[c] \in {"run", "check", "commit"}

(* Timestamps: no key and no open snapshot is from the future.             *)
TimestampsInv ==
    /\ \A k \in Key : ver[k] <= commitTs
    /\ \A c \in Client : Open(c) => tx[c].readTs <= commitTs

(* A client that backs off still has an attempt left.                      *)
RetryInv == \A c \in Client : pc[c] = "sleep" => attempt[c] < Retries

(* A transaction's snapshot is the store as it was when the attempt began: *)
(* a key nobody has committed since then still has the content it saw.     *)
SnapshotCurrent ==
    \A c \in Client : pc[c] \in {"run", "check", "commit"} =>
        \A k \in Key : ver[k] <= tx[c].readTs => tx[c].snap[k] = db[k]

IInv == TypeOK /\ TimestampsInv /\ RetryInv /\ SnapshotCurrent

\* NewTransactionManager leaves at least one retry, whatever it is given.
LEMMA RetriesType == Retries \in Nat /\ Retries >= 1
  BY OptionsAssumption DEF Retries

\* A discarded transaction is one of the transactions of the type invariant.
LEMMA DiscardedType == Discarded \in TxType
  BY DEF Discarded, TxType, Content

\* What a commit does to the store keeps its type and its timestamps.
LEMMA InstallType ==
  ASSUME TypeOK, TimestampsInv,
         NEW w \in [Key -> Content \cup {Untouched}], NEW keys \in SUBSET Key,
         \A k \in keys : w[k] # Untouched,
         Install(w, keys)
  PROVE  /\ db' \in [Key -> Content]
         /\ ver' \in [Key -> Nat]
         /\ commitTs' \in Nat
         /\ commitTs' = commitTs + 1
         /\ \A k \in Key : ver'[k] <= commitTs'
         /\ \A k \in Key : ver'[k] <= commitTs => db'[k] = db[k] /\ ver'[k] = ver[k]
  <1>1. commitTs' = commitTs + 1 /\ commitTs \in Nat
    BY DEF Install, TypeOK
  <1>2. \A k \in Key : IF k \in keys THEN db'[k] = w[k] /\ ver'[k] = commitTs + 1
                                     ELSE db'[k] = db[k] /\ ver'[k] = ver[k]
    BY DEF Install
  <1>3. db' \in [Key -> Content]
    BY DEF Install, TypeOK, Content
  <1>4. ver' \in [Key -> Nat]
    BY <1>1 DEF Install, TypeOK
  <1>5. \A k \in Key : ver'[k] <= commitTs'
    BY <1>1, <1>2, <1>4 DEF TimestampsInv, TypeOK
  <1>6. \A k \in Key : ver'[k] <= commitTs => db'[k] = db[k] /\ ver'[k] = ver[k]
    BY <1>1, <1>2
  <1> QED BY <1>1, <1>3, <1>4, <1>5, <1>6

\* A client's return to its caller keeps the types of the call's variables.
LEMMA ReturnType ==
  ASSUME TypeOK, NEW c \in Client, NEW from, NEW r \in Results, Return(c, from, r)
  PROVE  /\ pc' \in [Client -> {"idle", "begin", "run", "check", "commit", "sleep"}]
         /\ mode' = mode
         /\ attempt' \in [Client -> 0 .. Retries]
         /\ cancelled' \in [Client -> BOOLEAN]
         /\ result' \in [Client -> Results]
         /\ tx' \in [Client -> TxType]
         /\ pc'[c] = "idle"
         /\ \A d \in Client \ {c} : pc'[d] = pc[d] /\ tx'[d] = tx[d] /\ attempt'[d] = attempt[d]
  BY RetriesType, DiscardedType DEF Return, Move, TypeOK

\* A manager nobody has called yet satisfies the inductive invariant.
LEMMA InitInv == Init => IInv
  BY RetriesType, DiscardedType DEF Init, IInv, TypeOK, TimestampsInv, RetryInv, SnapshotCurrent,
     Open, Results, Content

-----------------------------------------------------------------------------
(* The steps that end a call without touching the store.                   *)

\* A call that ends and leaves the store keeps the inductive invariant.
LEMMA ReturnInv ==
  ASSUME IInv, NEW c \in Client, NEW from, NEW r \in Results,
         Return(c, from, r), UNCHANGED store
  PROVE  IInv'
  <1> USE DEF IInv, store
  <1>1. TypeOK'
    BY ReturnType DEF TypeOK
  <1>2. TimestampsInv'
    BY ReturnType DEF TimestampsInv, Open
  <1>3. RetryInv'
    BY ReturnType DEF RetryInv
  <1>4. SnapshotCurrent'
    BY ReturnType DEF SnapshotCurrent
  <1> QED BY <1>1, <1>2, <1>3, <1>4

(* The steps that end a call with a commit.                                *)
LEMMA ReturnInstallInv ==
  ASSUME IInv, NEW c \in Client, NEW r \in Results,
         NEW w \in [Key -> Content \cup {Untouched}], NEW keys \in SUBSET Key,
         \A k \in keys : w[k] # Untouched,
         Return(c, "commit", r), Install(w, keys)
  PROVE  IInv'
  <1> USE DEF IInv
  <1>1. TypeOK'
    BY ReturnType, InstallType DEF TypeOK
  <1>2. TimestampsInv'
    <2>1. \A k \in Key : ver'[k] <= commitTs'
      BY InstallType
    <2>2. ASSUME NEW d \in Client, Open(d)' PROVE tx'[d].readTs <= commitTs'
      <3>1. pc'[d] = pc[d] /\ tx'[d] = tx[d]
        BY <2>2, ReturnType DEF Open
      <3>2. tx[d].readTs <= commitTs /\ tx[d].readTs \in Nat
        BY <2>2, <3>1 DEF TimestampsInv, Open, TypeOK, TxType
      <3>3. commitTs \in Nat /\ commitTs' = commitTs + 1
        BY InstallType DEF TypeOK
      <3> QED BY <3>1, <3>2, <3>3
    <2> QED BY <2>1, <2>2 DEF TimestampsInv
  <1>3. RetryInv'
    BY ReturnType DEF RetryInv
  <1>4. SnapshotCurrent'
    <2> SUFFICES ASSUME NEW d \in Client, pc'[d] \in {"run", "check", "commit"},
                        NEW k \in Key, ver'[k] <= tx'[d].readTs
                 PROVE  tx'[d].snap[k] = db'[k]
      BY DEF SnapshotCurrent
    <2>1. d # c /\ pc'[d] = pc[d] /\ tx'[d] = tx[d]
      BY ReturnType
    <2>2. tx[d].readTs <= commitTs /\ tx[d].readTs \in Nat
      BY <2>1 DEF TimestampsInv, Open, TypeOK, TxType
    <2>3. ver'[k] \in Nat /\ commitTs \in Nat
      BY InstallType DEF TypeOK
    <2>4. db'[k] = db[k] /\ ver'[k] = ver[k]
      BY <2>1, <2>2, <2>3, InstallType
    <2> QED BY <2>1, <2>4 DEF SnapshotCurrent
  <1> QED BY <1>1, <1>2, <1>3, <1>4

(* The steps of one client that leave the store and its open transaction.  *)
LEMMA MoveInv ==
  ASSUME IInv, NEW c \in Client, NEW from, NEW to \in {"begin", "run", "check", "commit", "sleep"},
         Move(c, from, to), UNCHANGED <<store, mode, cancelled, result>>,
         tx' = tx, attempt' = attempt,
         to \in {"run", "check", "commit"} => Open(c),
         to = "sleep" => attempt[c] < Retries
  PROVE  IInv'
  <1> USE DEF IInv, store, Move
  <1>1. TypeOK'
    BY DEF TypeOK
  <1>2. TimestampsInv'
    BY DEF TimestampsInv, Open, TypeOK
  <1>3. RetryInv'
    BY DEF RetryInv, TypeOK
  <1>4. SnapshotCurrent'
    BY DEF SnapshotCurrent, Open, TypeOK
  <1> QED BY <1>1, <1>2, <1>3, <1>4

-----------------------------------------------------------------------------
(* Every step of the manager, of a closure or of a direct write keeps the   *)
(* inductive invariant.                                                    *)
LEMMA NextInv == IInv /\ [Next]_vars => IInv'
  <1> SUFFICES ASSUME IInv, [Next]_vars PROVE IInv'
    OBVIOUS
  <1> USE DEF store
  <1>1. ASSUME NEW c \in Client, NEW m \in {"ro", "rw"}, Call(c, m) PROVE IInv'
    BY <1>1 DEF Call, Move, IInv, TypeOK, TimestampsInv, RetryInv, SnapshotCurrent, Open, Results
  <1>2. ASSUME NEW c \in Client, Cancel(c) PROVE IInv'
    BY <1>2 DEF Cancel, IInv, TypeOK, TimestampsInv, RetryInv, SnapshotCurrent, Open
  <1>3. ASSUME NEW c \in Client, BeginAttempt(c) PROVE IInv'
    <2>1. tx' \in [Client -> TxType]
      BY <1>3, DiscardedType DEF BeginAttempt, IInv, TypeOK, TxType, Discarded
    <2>2. TypeOK'
      BY <1>3, <2>1 DEF BeginAttempt, Move, IInv, TypeOK
    <2>3. /\ tx'[c].readTs = commitTs
          /\ tx'[c].snap = db
          /\ \A d \in Client \ {c} : tx'[d] = tx[d] /\ pc'[d] = pc[d]
      BY <1>3 DEF BeginAttempt, Move, IInv, TypeOK, Discarded
    <2>4. UNCHANGED <<db, ver, commitTs, attempt>>
      BY <1>3 DEF BeginAttempt
    <2>5. TimestampsInv'
      BY <2>3, <2>4 DEF IInv, TypeOK, TimestampsInv, Open
    <2>6. RetryInv'
      BY <1>3, <2>4 DEF BeginAttempt, Move, IInv, TypeOK, RetryInv
    <2>7. SnapshotCurrent'
      BY <2>3, <2>4 DEF IInv, SnapshotCurrent
    <2> QED BY <2>2, <2>5, <2>6, <2>7 DEF IInv
  <1>4. ASSUME NEW c \in Client, BeginCancelled(c) PROVE IInv'
    BY <1>4, ReturnInv DEF BeginCancelled, Results
  <1>5. ASSUME NEW c \in Client, NEW k \in Key, Get(c, k) PROVE IInv'
    <2>1. /\ tx' \in [Client -> TxType]
          /\ \A d \in Client : tx'[d].snap = tx[d].snap /\ tx'[d].readTs = tx[d].readTs
      BY <1>5 DEF Get, IInv, TypeOK, TxType
    <2> QED BY <1>5, <2>1 DEF Get, IInv, TypeOK, TimestampsInv, RetryInv, SnapshotCurrent, Open
  <1>6. ASSUME NEW c \in Client, NEW k \in Key, NEW x \in Content, Put(c, k, x) PROVE IInv'
    <2>1. /\ tx' \in [Client -> TxType]
          /\ \A d \in Client : tx'[d].snap = tx[d].snap /\ tx'[d].readTs = tx[d].readTs
      BY <1>6 DEF Put, IInv, TypeOK, TxType
    <2> QED BY <1>6, <2>1 DEF Put, IInv, TypeOK, TimestampsInv, RetryInv, SnapshotCurrent, Open
  <1>7. ASSUME NEW c \in Client, ClosureReturns(c) PROVE IInv'
    BY <1>7, MoveInv DEF ClosureReturns, Open, Move
  <1>8. ASSUME NEW c \in Client, ClosureFails(c) PROVE IInv'
    BY <1>8, ReturnInv DEF ClosureFails, Results
  <1>9. ASSUME NEW c \in Client, ReadDone(c) PROVE IInv'
    BY <1>9, ReturnInv DEF ReadDone, Results
  <1>10. ASSUME NEW c \in Client, WriteCheck(c) PROVE IInv'
    BY <1>10, MoveInv DEF WriteCheck, Open, Move
  <1>11. ASSUME NEW c \in Client, WriteCancelled(c) PROVE IInv'
    BY <1>11, ReturnInv DEF WriteCancelled, Results
  <1>12. ASSUME NEW c \in Client, CommitEmpty(c) PROVE IInv'
    BY <1>12, ReturnInv DEF CommitEmpty, Results
  <1>13. ASSUME NEW c \in Client PROVE
           /\ tx[c].pending \in [Key -> Content \cup {Untouched}]
           /\ \A k \in Dirty(c) : tx[c].pending[k] # Untouched
           /\ Dirty(c) \in SUBSET Key
           /\ db \in [Key -> Content \cup {Untouched}]
           /\ \A k \in Dirty(c) : db[k] # Untouched
    BY MarkersAssumption DEF IInv, TypeOK, TxType, Dirty
  <1>14. ASSUME NEW c \in Client, CommitWrites(c) PROVE IInv'
    BY <1>13, <1>14, ReturnInstallInv DEF CommitWrites, Results
  <1>15. ASSUME NEW c \in Client, CommitRetry(c) PROVE IInv'
    <2>1. /\ tx' \in [Client -> TxType]
          /\ \A d \in Client \ {c} : tx'[d] = tx[d] /\ pc'[d] = pc[d]
          /\ pc'[c] = "sleep"
      BY <1>15, DiscardedType DEF CommitRetry, Move, IInv, TypeOK
    <2>2. attempt[c] < Retries
      BY <1>15 DEF CommitRetry
    <2> QED BY <1>15, <2>1, <2>2
            DEF CommitRetry, Move, IInv, TypeOK, TimestampsInv, RetryInv, SnapshotCurrent, Open
  <1>16. ASSUME NEW c \in Client, CommitGivesUp(c) PROVE IInv'
    BY <1>16, ReturnInv DEF CommitGivesUp, Results
  <1>17. ASSUME NEW c \in Client, CommitRefused(c) PROVE IInv'
    BY <1>17, ReturnInv DEF CommitRefused, Results
  <1>18. ASSUME NEW c \in Client, CommitLost(c) PROVE IInv'
    <2>1. CASE Install(tx[c].pending, Dirty(c))
      BY <1>13, <1>18, <2>1, ReturnInstallInv DEF CommitLost, Results
    <2>2. CASE Install(db, Dirty(c))
      BY <1>13, <1>18, <2>2, ReturnInstallInv DEF CommitLost, Results
    <2> QED BY <1>18, <2>1, <2>2 DEF CommitLost
  <1>19. ASSUME NEW c \in Client, BackoffElapses(c) PROVE IInv'
    <2>1. attempt' \in [Client -> 0 .. Retries]
      BY <1>19, RetriesType DEF BackoffElapses, Move, IInv, TypeOK, RetryInv
    <2>2. \A d \in Client \ {c} : attempt'[d] = attempt[d] /\ pc'[d] = pc[d]
      BY <1>19 DEF BackoffElapses, Move, IInv, TypeOK
    <2> QED BY <1>19, <2>1, <2>2
            DEF BackoffElapses, Move, IInv, TypeOK, TimestampsInv, RetryInv, SnapshotCurrent, Open
  <1>20. ASSUME NEW c \in Client, BackoffCancelled(c) PROVE IInv'
    BY <1>20, ReturnInv DEF BackoffCancelled, Results
  <1>21. ASSUME NEW k \in Key, NEW x \in Content, DirectWrite(k, x) PROVE IInv'
    <2> DEFINE w == [j \in Key |-> x]
    <2>1. Install(w, {k}) /\ UNCHANGED <<pc, mode, attempt, cancelled, result, tx>>
      BY <1>21 DEF DirectWrite
    <2>2. w \in [Key -> Content \cup {Untouched}] /\ {k} \in SUBSET Key
          /\ \A j \in {k} : w[j] # Untouched
      BY MarkersAssumption
    <2> HIDE DEF w
    <2>3. TypeOK' /\ RetryInv'
      BY <2>1, <2>2, InstallType DEF IInv, TypeOK, RetryInv
    <2>4. TimestampsInv'
      <3>1. \A j \in Key : ver'[j] <= commitTs'
        BY <2>1, <2>2, InstallType DEF IInv
      <3>2. commitTs \in Nat /\ commitTs' = commitTs + 1
        BY <2>1, <2>2, InstallType DEF IInv, TypeOK
      <3>3. \A d \in Client : Open(d) => tx[d].readTs <= commitTs /\ tx[d].readTs \in Nat
        BY DEF IInv, TypeOK, TxType, TimestampsInv
      <3> QED BY <2>1, <3>1, <3>2, <3>3 DEF TimestampsInv, Open
    <2>5. SnapshotCurrent'
      <3> SUFFICES ASSUME NEW d \in Client, pc[d] \in {"run", "check", "commit"},
                          NEW j \in Key, ver'[j] <= tx[d].readTs
                   PROVE  tx[d].snap[j] = db'[j]
        BY <2>1 DEF SnapshotCurrent
      <3>1. tx[d].readTs <= commitTs /\ tx[d].readTs \in Nat /\ commitTs \in Nat
        BY DEF IInv, TimestampsInv, Open, TypeOK, TxType
      <3>2. ver'[j] \in Nat
        BY <2>1, <2>2, InstallType DEF IInv
      <3>3. db'[j] = db[j] /\ ver'[j] = ver[j]
        BY <2>1, <2>2, <3>1, <3>2, InstallType DEF IInv
      <3> QED BY <3>3 DEF IInv, SnapshotCurrent
    <2> QED BY <2>3, <2>4, <2>5 DEF IInv
  <1>22. CASE UNCHANGED vars
    BY <1>22 DEF vars, IInv, TypeOK, TimestampsInv, RetryInv, SnapshotCurrent, Open
  <1> QED
    BY <1>1, <1>2, <1>3, <1>4, <1>5, <1>6, <1>7, <1>8, <1>9, <1>10, <1>11, <1>12, <1>14, <1>15,
       <1>16, <1>17, <1>18, <1>19, <1>20, <1>21, <1>22
       DEF Next, Manage, Attempt, Check, Commit, Backoff, Closure

(* The inductive invariant: types, timestamps not in the future, retries    *)
(* left while backing off, and snapshots that are true of unchanged keys.  *)
THEOREM Invariance == Spec => []IInv
  BY InitInv, NextInv, PTL DEF Spec

(* Every variable of the transaction manager keeps its type, for any       *)
(* number of clients, keys and retries.                                    *)
THEOREM TypeCorrect == Spec => []TypeOK
  BY Invariance, PTL DEF IInv

\* Only these two steps change the contents while ending a client's call.
LEMMA CommitStep ==
  ASSUME IInv, [Next]_vars, NEW c \in Client, pc[c] = "commit", pc'[c] # "commit", db' # db
  PROVE  CommitWrites(c) \/ CommitLost(c)
  <1>1. Next
    BY DEF vars, store
  <1>2. PICK d \in Client : (\E m \in {"ro", "rw"} : Call(d, m)) \/ Cancel(d) \/ Closure(d) \/ Manage(d)
    BY <1>1 DEF Next, DirectWrite
  <1>3. ~(\E m \in {"ro", "rw"} : Call(d, m)) /\ ~Cancel(d) /\ ~Closure(d)
    BY DEF Call, Cancel, Closure, Get, Put, ClosureReturns, ClosureFails, store
  <1>4. CommitWrites(d) \/ CommitLost(d)
    BY <1>2, <1>3 DEF Manage, Attempt, BeginAttempt, BeginCancelled, Check, ReadDone, WriteCheck,
       WriteCancelled, Commit, CommitEmpty, CommitRetry, CommitGivesUp, CommitRefused, Backoff,
       BackoffElapses, BackoffCancelled, store
  <1>5. d = c
    BY <1>4 DEF CommitWrites, CommitLost, Return, Move, IInv, TypeOK
  <1> QED BY <1>4, <1>5

(* With DetectConflicts, no call ever commits writes on top of a read that *)
(* is no longer true.                                                      *)
THEOREM LostUpdateFree ==
  ASSUME DetectConflicts
  PROVE  Spec => NoLostUpdate
  <1>1. ASSUME IInv, [Next]_vars PROVE [\A c \in Client : CommittedOn(c)]_vars
    <2> SUFFICES ASSUME NEW c \in Client, pc[c] = "commit", pc'[c] = "idle", db' # db,
                        NEW k \in tx[c].reads
                 PROVE  tx[c].snap[k] = db[k]
      BY DEF CommittedOn
    <2>1. ~Conflict(c)
      BY <1>1, CommitStep DEF CommitWrites, CommitLost
    <2>2. k \in Key /\ ver[k] \in Nat /\ tx[c].readTs \in Nat
      BY <1>1 DEF IInv, TypeOK, TxType
    <2>3. ver[k] <= tx[c].readTs
      BY <2>1, <2>2 DEF Conflict
    <2> QED BY <1>1, <2>2, <2>3 DEF IInv, SnapshotCurrent
  <1> QED BY <1>1, Invariance, PTL DEF Spec, NoLostUpdate

=============================================================================
