-------------------------- MODULE TxnHistoryProofs --------------------------
(***************************************************************************)
(* Theorems about the recorded transaction manager: a call's writes are    *)
(* installed at most once, the retry budget, and that the manager          *)
(* implements SerialStore.                                                 *)
(***************************************************************************)
EXTENDS TxnHistory, TxnManagerProofs

(* The record has one content per commit timestamp, the store's the last.  *)
HistInv ==
    /\ hist \in Seq([Key -> Content])
    /\ Len(hist) = commitTs + 1
    /\ hist[commitTs + 1] = db
    /\ began = [c \in Client |-> began[c]]
    /\ out = [c \in Client |-> out[c]]
    /\ applied = [c \in Client |-> applied[c]]

(* One client's call: its attempts so far are paid for by commits made     *)
(* since it began, and its snapshot is one of the recorded contents.       *)
CallInv(c) ==
    /\ began[c] \in Nat /\ began[c] >= 1
    /\ attempt[c] + began[c] <= commitTs + 1
    /\ pc[c] = "idle" => attempt[c] = 0 /\ out[c].status # "open"
    /\ pc[c] # "idle" => result[c] = "none" /\ applied[c] = 0 /\ out[c].status = "open"
    /\ pc[c] = "sleep" => attempt[c] + 1 + began[c] <= commitTs + 1
    /\ Open(c) => /\ attempt[c] + began[c] <= tx[c].readTs + 1
                  /\ hist[tx[c].readTs + 1] = tx[c].snap
                  /\ mode[c] = "ro" => Dirty(c) = {}
    /\ pc[c] = "commit" => mode[c] = "rw"
    /\ applied[c] \in {0, 1}
    /\ result[c] \in {"failed", "ctx", "conflict"} => applied[c] = 0
    /\ result[c] = "conflict" => Retries + 1 + began[c] <= commitTs + 1

HInv == IInv /\ HistInv /\ \A c \in Client : CallInv(c)

\* The step is not one of this client's (or only cancels its context).
Same(c) == /\ pc'[c] = pc[c] /\ tx'[c] = tx[c] /\ mode'[c] = mode[c]
           /\ attempt'[c] = attempt[c] /\ result'[c] = result[c]

\* What a step does to the store: nothing, or one more commit.
StoreStep == \/ UNCHANGED store
             \/ commitTs' = commitTs + 1

\* The record of the initial state.
LEMMA HInitInv == HInit => HInv
  <1> SUFFICES ASSUME HInit PROVE HInv
    OBVIOUS
  <1>1. IInv
    BY InitInv DEF HInit
  <1>2. HistInv
    BY <1>1 DEF HInit, HistInv, Init, IInv, TypeOK
  <1>3. ASSUME NEW c \in Client PROVE CallInv(c)
    <2>1. /\ pc[c] = "idle" /\ result[c] = "none" /\ attempt[c] = 0 /\ commitTs = 0
          /\ began[c] = 1 /\ applied[c] = 0 /\ out[c].status = "idle"
      BY DEF HInit, Init
    <2> QED BY <2>1 DEF CallInv, Open
  <1> QED BY <1>1, <1>2, <1>3 DEF HInv

\* The record follows a step of the store.
LEMMA HistStep ==
  ASSUME HInv, IInv', StoreStep, Record
  PROVE  /\ HistInv'
         /\ \A i \in 1 .. commitTs + 1 : hist'[i] = hist[i]
  <1>1. commitTs \in Nat /\ db' \in [Key -> Content]
    BY DEF HInv, IInv, TypeOK
  <1>2. CASE UNCHANGED store
    <2>1. hist' = hist
      BY <1>1, <1>2 DEF Record, store
    <2> QED BY <1>1, <1>2, <2>1 DEF HInv, HistInv, Record, store
  <1>3. CASE commitTs' = commitTs + 1
    <2>1. hist' = Append(hist, db')
      BY <1>1, <1>3 DEF Record
    <2>2. hist \in Seq([Key -> Content]) /\ Len(hist) = commitTs + 1
      BY DEF HInv, HistInv
    <2> QED BY <1>1, <1>3, <2>1, <2>2 DEF HistInv, Record
  <1> QED BY <1>2, <1>3 DEF StoreStep

\* A client keeps its invariant through the steps of others.
LEMMA OthersInv ==
  ASSUME HInv, IInv', StoreStep, Record, NEW c \in Client, Same(c)
  PROVE  CallInv(c)'
  <1>1. began'[c] = began[c] /\ out'[c] = out[c] /\ applied'[c] = applied[c]
    BY DEF Record, Same, Begins, Ends, Installs
  <1>2. commitTs \in Nat /\ commitTs' \in Nat /\ commitTs' >= commitTs /\ attempt[c] \in Nat
    BY RetriesType DEF StoreStep, store, HInv, IInv, TypeOK
  <1>3. ASSUME Open(c) PROVE hist'[tx[c].readTs + 1] = hist[tx[c].readTs + 1]
    <2>1. tx[c].readTs \in Nat /\ tx[c].readTs <= commitTs
      BY <1>3 DEF HInv, IInv, TypeOK, TxType, TimestampsInv
    <2>2. tx[c].readTs + 1 \in 1 .. commitTs + 1
      BY <1>2, <2>1
    <2> QED BY <2>2, HistStep
  <1>4. CallInv(c)
    BY DEF HInv
  <1> QED BY <1>1, <1>2, <1>3, <1>4, RetriesType DEF CallInv, Same, Open, Dirty

\* A client whose call returns: what it answers, and what it has installed.
LEMMA ReturnStep ==
  ASSUME HInv, IInv', StoreStep, Record, NEW c \in Client,
         NEW from \in {"begin", "run", "check", "commit", "sleep"}, NEW r \in Results,
         Return(c, from, r),
         from # "commit" \/ r \in {"failed", "ctx", "conflict"} => UNCHANGED store,
         r = "conflict" => Retries + 1 + began[c] <= commitTs + 1
  PROVE  CallInv(c)' /\ \A d \in Client \ {c} : Same(d)
  <1>1. /\ pc[c] = from /\ pc'[c] = "idle" /\ attempt'[c] = 0 /\ result'[c] = r
        /\ \A d \in Client \ {c} : Same(d)
    BY DEF Return, Move, Same, HInv, IInv, TypeOK
  <1>2. began'[c] = began[c] /\ out'[c] = Answered(c) /\ Answered(c).status # "open"
    BY <1>1 DEF Record, Begins, Ends, Answered
  <1>3. commitTs \in Nat /\ commitTs' \in Nat /\ commitTs' >= commitTs
    BY DEF StoreStep, store, HInv, IInv, TypeOK
  <1>4. applied[c] = 0 /\ applied'[c] \in {0, 1}
    BY <1>1 DEF Record, Begins, Installs, HInv, CallInv
  <1>5. r \in {"failed", "ctx", "conflict"} => applied'[c] = 0
    BY <1>1, <1>4 DEF Record, Begins, Installs, store
  <1>6. began[c] \in Nat /\ began[c] >= 1 /\ began[c] <= commitTs + 1
    <2>1. attempt[c] \in Nat /\ attempt[c] + began[c] <= commitTs + 1 /\ began[c] \in Nat /\ began[c] >= 1
      BY RetriesType DEF HInv, CallInv, IInv, TypeOK
    <2> QED BY <1>3, <2>1
  <1> QED BY <1>1, <1>2, <1>3, <1>4, <1>5, <1>6, RetriesType DEF CallInv, Open

\* A client that moves on inside its call, while the store stays.
LEMMA InsideStep ==
  ASSUME HInv, IInv', Record, NEW c \in Client, UNCHANGED store,
         pc[c] # "idle", pc'[c] # "idle", result' = result
  PROVE  /\ hist' = hist
         /\ began'[c] = began[c] /\ out'[c] = out[c] /\ applied'[c] = applied[c]
         /\ result'[c] = "none" /\ applied'[c] = 0 /\ out'[c].status = "open"
  BY DEF HInv, CallInv, Record, Begins, Ends, Installs, store

\* A conflict is the work of a commit made since the attempt began.
LEMMA ConflictPaid ==
  ASSUME HInv, NEW c \in Client, pc[c] = "commit", Conflict(c)
  PROVE  attempt[c] + 1 + began[c] <= commitTs + 1
  <1>1. PICK k \in Key : ver[k] > tx[c].readTs
    BY DEF Conflict, HInv, IInv, TypeOK, TxType
  <1>2. /\ ver[k] \in Nat /\ ver[k] <= commitTs /\ commitTs \in Nat
        /\ tx[c].readTs \in Nat /\ attempt[c] \in Nat
    BY RetriesType DEF HInv, IInv, TypeOK, TxType, TimestampsInv
  <1>3. attempt[c] + began[c] <= tx[c].readTs + 1 /\ began[c] \in Nat
    BY DEF HInv, CallInv, Open
  <1> QED BY <1>1, <1>2, <1>3

\* Any step keeps the store or commits once.
LEMMA StoreSteps == [Next]_vars => StoreStep
  BY DEF Next, vars, store, StoreStep, Call, Cancel, Closure, Get, Put, ClosureReturns,
     ClosureFails, Manage, Attempt, BeginAttempt, BeginCancelled, Check, ReadDone, WriteCheck,
     WriteCancelled, Commit, CommitEmpty, CommitWrites, CommitRetry, CommitGivesUp, CommitRefused,
     CommitLost, Backoff, BackoffElapses, BackoffCancelled, DirectWrite, Install

\* Every step keeps what is known of each call: one case per action.
LEMMA CallsInv ==
  ASSUME HInv, HNext, NEW e \in Client
  PROVE  CallInv(e)'
  <1> Next /\ Record /\ IInv /\ IInv' /\ StoreStep
    BY NextInv, StoreSteps DEF HNext, HInv
  <1> USE DEF store
  <1>0. CASE Same(e)
    BY <1>0, OthersInv
  <1>1. ASSUME NEW c \in Client, NEW m \in {"ro", "rw"}, Call(c, m) PROVE CallInv(e)'
    <2>1. CASE e = c
      <3>1. /\ pc[c] = "idle" /\ pc'[c] = "begin" /\ result'[c] = "none"
            /\ attempt'[c] = attempt[c] /\ UNCHANGED store
        BY <1>1 DEF Call, Move, IInv, TypeOK
      <3>2. began'[c] = commitTs + 1 /\ out'[c].status = "open" /\ applied'[c] = 0
        <4>1. Begins(c) /\ ~Ends(c) /\ ~Installs(c) /\ Len(hist) = commitTs + 1
          BY <3>1 DEF Begins, Ends, Installs, HInv, HistInv
        <4>2. began'[c] = commitTs + 1
          BY <4>1 DEF Record
        <4>3. out'[c] = [status |-> "open", reads |-> NoKeys, writes |-> NoKeys]
          BY <4>1 DEF Record
        <4>4. applied'[c] = 0
          BY <4>1 DEF Record
        <4> QED BY <4>2, <4>3, <4>4
      <3>3. attempt[c] = 0 /\ commitTs \in Nat
        BY <3>1 DEF HInv, CallInv, IInv, TypeOK
      <3> QED BY <2>1, <3>1, <3>2, <3>3 DEF CallInv, Open
    <2>2. CASE e # c
      BY <1>0, <1>1, <2>2 DEF Call, Move, Same, IInv, TypeOK
    <2> QED BY <2>1, <2>2
  <1>2. ASSUME NEW c \in Client, Cancel(c) PROVE CallInv(e)'
    BY <1>0, <1>2 DEF Cancel, Same
  <1>3. ASSUME NEW c \in Client, BeginAttempt(c) PROVE CallInv(e)'
    <2>1. CASE e = c
      <3>1. /\ pc[c] = "begin" /\ pc'[c] = "run" /\ attempt'[c] = attempt[c] /\ UNCHANGED store
            /\ result' = result
            /\ tx'[c].readTs = commitTs /\ tx'[c].snap = db /\ tx'[c].pending = [k \in Key |-> Untouched]
        BY <1>3 DEF BeginAttempt, Move, IInv, TypeOK, Discarded
      <3>2. /\ hist' = hist /\ began'[c] = began[c] /\ result'[c] = "none" /\ applied'[c] = 0
            /\ out'[c].status = "open"
        BY <3>1, InsideStep
      <3>3. Dirty(c)' = {}
        BY <3>1 DEF Dirty
      <3>4. hist[commitTs + 1] = db /\ CallInv(c)
        BY DEF HInv, HistInv
      <3> QED BY <2>1, <3>1, <3>2, <3>3, <3>4 DEF CallInv, Open
    <2>2. CASE e # c
      BY <1>0, <1>3, <2>2 DEF BeginAttempt, Move, Same, IInv, TypeOK
    <2> QED BY <2>1, <2>2
  <1>4. ASSUME NEW c \in Client, BeginCancelled(c) PROVE CallInv(e)'
    BY <1>0, <1>4, ReturnStep DEF BeginCancelled, Results
  <1>5. ASSUME NEW c \in Client, NEW k \in Key, Get(c, k) PROVE CallInv(e)'
    <2>1. CASE e = c
      <3>1. /\ pc[c] = "run" /\ UNCHANGED <<store, pc, mode, attempt, result>>
            /\ tx'[c].readTs = tx[c].readTs /\ tx'[c].snap = tx[c].snap
            /\ tx'[c].pending = tx[c].pending
        BY <1>5 DEF Get, IInv, TypeOK, TxType
      <3>2. hist' = hist /\ began'[c] = began[c] /\ applied'[c] = applied[c] /\ out'[c] = out[c]
        BY <3>1, InsideStep
      <3>3. CallInv(c) /\ Dirty(c)' = Dirty(c)
        BY <3>1 DEF HInv, Dirty
      <3> QED BY <2>1, <3>1, <3>2, <3>3 DEF CallInv, Open
    <2>2. CASE e # c
      BY <1>0, <1>5, <2>2 DEF Get, Same, IInv, TypeOK
    <2> QED BY <2>1, <2>2
  <1>6. ASSUME NEW c \in Client, NEW k \in Key, NEW x \in Content, Put(c, k, x) PROVE CallInv(e)'
    <2>1. CASE e = c
      <3>1. /\ pc[c] = "run" /\ mode[c] = "rw" /\ UNCHANGED <<store, pc, mode, attempt, result>>
            /\ tx'[c].readTs = tx[c].readTs /\ tx'[c].snap = tx[c].snap
        BY <1>6 DEF Put, IInv, TypeOK, TxType
      <3>2. hist' = hist /\ began'[c] = began[c] /\ applied'[c] = applied[c] /\ out'[c] = out[c]
        BY <3>1, InsideStep
      <3>3. CallInv(c)
        BY DEF HInv
      <3> QED BY <2>1, <3>1, <3>2, <3>3 DEF CallInv, Open
    <2>2. CASE e # c
      BY <1>0, <1>6, <2>2 DEF Put, Same, IInv, TypeOK
    <2> QED BY <2>1, <2>2
  <1>7. ASSUME NEW c \in Client, ClosureReturns(c) \/ WriteCheck(c) PROVE CallInv(e)'
    <2>1. CASE e = c
      <3>1. /\ Open(c) /\ pc'[c] \in {"check", "commit"} /\ UNCHANGED <<store, mode, attempt, result, tx>>
            /\ pc'[c] = "commit" => mode[c] = "rw"
        BY <1>7 DEF ClosureReturns, WriteCheck, Move, IInv, TypeOK, Open
      <3>2. hist' = hist /\ began'[c] = began[c] /\ applied'[c] = applied[c] /\ out'[c] = out[c]
        BY <3>1, InsideStep DEF Open
      <3>3. CallInv(c) /\ Dirty(c)' = Dirty(c)
        BY <3>1 DEF HInv, Dirty
      <3> QED BY <2>1, <3>1, <3>2, <3>3 DEF CallInv, Open
    <2>2. CASE e # c
      BY <1>0, <1>7, <2>2 DEF ClosureReturns, WriteCheck, Move, Same, IInv, TypeOK
    <2> QED BY <2>1, <2>2
  <1>8. ASSUME NEW c \in Client, ClosureFails(c) PROVE CallInv(e)'
    BY <1>0, <1>8, ReturnStep DEF ClosureFails, Results
  <1>9. ASSUME NEW c \in Client, ReadDone(c) PROVE CallInv(e)'
    BY <1>0, <1>9, ReturnStep DEF ReadDone, Results
  <1>10. ASSUME NEW c \in Client, WriteCancelled(c) PROVE CallInv(e)'
    BY <1>0, <1>10, ReturnStep DEF WriteCancelled, Results
  <1>11. ASSUME NEW c \in Client, CommitEmpty(c) \/ CommitRefused(c) PROVE CallInv(e)'
    BY <1>0, <1>11, ReturnStep DEF CommitEmpty, CommitRefused, Results
  <1>12. ASSUME NEW c \in Client, CommitWrites(c) PROVE CallInv(e)'
    BY <1>0, <1>12, ReturnStep DEF CommitWrites, Results
  <1>13. ASSUME NEW c \in Client, CommitLost(c) PROVE CallInv(e)'
    BY <1>0, <1>13, ReturnStep DEF CommitLost, Results
  <1>14. ASSUME NEW c \in Client, CommitRetry(c) PROVE CallInv(e)'
    <2>1. CASE e = c
      <3>1. /\ pc[c] = "commit" /\ pc'[c] = "sleep" /\ UNCHANGED <<store, mode, attempt, result>>
            /\ Conflict(c)
        BY <1>14 DEF CommitRetry, Move, IInv, TypeOK
      <3>2. /\ hist' = hist /\ began'[c] = began[c] /\ result'[c] = "none" /\ applied'[c] = 0
            /\ out'[c].status = "open"
        BY <3>1, InsideStep
      <3>3. attempt[c] + 1 + began[c] <= commitTs + 1 /\ CallInv(c)
        BY <3>1, ConflictPaid DEF HInv
      <3> QED BY <2>1, <3>1, <3>2, <3>3 DEF CallInv, Open
    <2>2. CASE e # c
      BY <1>0, <1>14, <2>2 DEF CommitRetry, Move, Same, IInv, TypeOK
    <2> QED BY <2>1, <2>2
  <1>15. ASSUME NEW c \in Client, CommitGivesUp(c) PROVE CallInv(e)'
    <2>1. pc[c] = "commit" /\ Conflict(c) /\ attempt[c] >= Retries /\ UNCHANGED store
          /\ Return(c, "commit", "conflict")
      BY <1>15 DEF CommitGivesUp, Return, Move
    <2>2. attempt[c] + 1 + began[c] <= commitTs + 1 /\ began[c] \in Nat /\ attempt[c] \in Nat /\ commitTs \in Nat
      BY <2>1, ConflictPaid, RetriesType DEF HInv, CallInv, IInv, TypeOK
    <2>3. Retries + 1 + began[c] <= commitTs + 1
      BY <2>1, <2>2, RetriesType
    <2> QED BY <1>0, <2>1, <2>3, ReturnStep DEF Results
  <1>16. ASSUME NEW c \in Client, BackoffElapses(c) PROVE CallInv(e)'
    <2>1. CASE e = c
      <3>1. /\ pc[c] = "sleep" /\ pc'[c] = "begin" /\ attempt'[c] = attempt[c] + 1
            /\ UNCHANGED <<store, result>>
        BY <1>16 DEF BackoffElapses, Move, IInv, TypeOK
      <3>2. /\ hist' = hist /\ began'[c] = began[c] /\ result'[c] = "none" /\ applied'[c] = 0
            /\ out'[c].status = "open"
        BY <3>1, InsideStep
      <3>3. CallInv(c)
        BY DEF HInv
      <3> QED BY <2>1, <3>1, <3>2, <3>3 DEF CallInv, Open
    <2>2. CASE e # c
      BY <1>0, <1>16, <2>2 DEF BackoffElapses, Move, Same, IInv, TypeOK
    <2> QED BY <2>1, <2>2
  <1>17. ASSUME NEW c \in Client, BackoffCancelled(c) PROVE CallInv(e)'
    BY <1>0, <1>17, ReturnStep DEF BackoffCancelled, Results
  <1>18. ASSUME NEW k \in Key, NEW x \in Content, DirectWrite(k, x) PROVE CallInv(e)'
    BY <1>0, <1>18 DEF DirectWrite, Same
  <1> QED
    BY <1>1, <1>2, <1>3, <1>4, <1>5, <1>6, <1>7, <1>8, <1>9, <1>10, <1>11, <1>12, <1>13, <1>14,
       <1>15, <1>16, <1>17, <1>18
       DEF Next, Manage, Attempt, Check, Commit, Backoff, Closure

(* The record is right, and every client's call obeys CallInv, forever.    *)
THEOREM HInvariance == HSpec => []HInv
  <1>1. HInv /\ [HNext]_hvars => HInv'
    <2> SUFFICES ASSUME HInv, [HNext]_hvars PROVE HInv'
      OBVIOUS
    <2>1. CASE HNext
      <3>1. Record /\ IInv' /\ StoreStep
        BY <2>1, NextInv, StoreSteps DEF HNext, HInv
      <3>2. HistInv'
        BY <3>1, HistStep
      <3> QED BY <2>1, <3>1, <3>2, CallsInv DEF HInv
    <2>2. CASE UNCHANGED hvars
      <3>1. IInv'
        BY <2>2, NextInv DEF hvars, HInv
      <3>2. HistInv' /\ \A c \in Client : CallInv(c)'
        BY <2>2 DEF hvars, vars, store, recorded, HInv, HistInv, CallInv, Open, Dirty
      <3> QED BY <3>1, <3>2 DEF HInv
    <2> QED BY <2>1, <2>2 DEF HNext
  <1> QED BY HInitInv, <1>1, PTL DEF HSpec

(* However often the closure is run, its writes are installed at most once, *)
(* and never by a call that answers an error of its own.                   *)
THEOREM InstalledAtMostOnce == HSpec => []AtMostOnce
  <1>1. HInv => AtMostOnce
    <2> SUFFICES ASSUME HInv, NEW c \in Client
                 PROVE  /\ applied[c] <= 1
                        /\ pc[c] # "idle" \/ result[c] \in {"failed", "ctx", "conflict"} => applied[c] = 0
      BY DEF AtMostOnce
    <2>1. CallInv(c)
      BY DEF HInv
    <2> QED BY <2>1 DEF CallInv
  <1> QED BY <1>1, HInvariance, PTL

(* For any retry limit: a conflict is answered only after as many commits  *)
(* by others as there were attempts.                                       *)
THEOREM RetriesArePaid == HSpec => []RetryBudget
  <1>1. HInv => RetryBudget
    <2> SUFFICES ASSUME HInv, NEW c \in Client
                 PROVE  /\ attempt[c] <= commitTs + 1 - began[c]
                        /\ result[c] = "conflict" => commitTs + 1 - began[c] >= Retries + 1
      BY DEF RetryBudget
    <2>1. attempt[c] \in Nat /\ commitTs \in Nat /\ began[c] \in Nat /\ CallInv(c)
      BY RetriesType DEF HInv, CallInv, IInv, TypeOK
    <2> QED BY <2>1, RetriesType DEF CallInv
  <1> QED BY <1>1, HInvariance, PTL

(* What is known of a call whose context ended in time: it is still under  *)
(* that context, has not passed the check before Commit, and answers so.   *)
DoomInv(c) ==
    doomed[c] => /\ applied[c] = 0
                 /\ pc[c] # "idle" => cancelled[c] /\ pc[c] # "commit"
                 /\ pc[c] = "idle" => result[c] \in {"ctx", "failed"}

DoomsInv == \A c \in Client : DoomInv(c)

\* A doomed call stays so through a step that neither moves nor answers it.
LEMMA DoomStays ==
  ASSUME HInv, Record, NEW c \in Client, DoomInv(c),
         pc'[c] = pc[c], result'[c] = result[c], cancelled[c] => cancelled'[c],
         pc[c] = "idle" => cancelled'[c] = cancelled[c]
  PROVE  DoomInv(c)'
  <1>1. ~Begins(c) /\ ~Installs(c)
    BY DEF Begins, Installs
  <1>2. applied'[c] = applied[c] /\ (pc[c] # "idle" => applied[c] = 0)
    BY <1>1 DEF Record, HInv, CallInv
  <1>3. doomed'[c] => doomed[c] \/ (cancelled'[c] /\ pc'[c] \notin {"idle", "commit"})
    BY <1>1 DEF Record
  <1> QED BY <1>2, <1>3 DEF DoomInv

\* A call that moves on under an unchanged context.
LEMMA DoomMoves ==
  ASSUME HInv, Record, NEW c \in Client, DoomInv(c), UNCHANGED store,
         pc[c] # "idle", pc'[c] # "idle", cancelled' = cancelled,
         pc'[c] = "commit" => ~cancelled[c] \/ pc[c] = "commit"
  PROVE  DoomInv(c)'
  <1>1. ~Begins(c) /\ ~Installs(c)
    BY DEF Begins, Installs, store
  <1>2. applied'[c] = 0
    BY <1>1 DEF Record, HInv, CallInv
  <1>3. doomed'[c] => doomed[c] \/ (cancelled'[c] /\ pc'[c] \notin {"idle", "commit"})
    BY <1>1 DEF Record
  <1> QED BY <1>2, <1>3 DEF DoomInv

\* A doomed call that returns: not from its commit, and not with "ok".
LEMMA DoomReturns ==
  ASSUME HInv, Record, NEW c \in Client, DoomInv(c),
         NEW from \in {"begin", "run", "check", "commit", "sleep"}, NEW r \in Results,
         Return(c, from, r),
         from # "commit" => UNCHANGED store,
         cancelled[c] /\ from # "commit" => r \in {"ctx", "failed"}
  PROVE  DoomInv(c)'
  <1>1. pc[c] = from /\ pc'[c] = "idle" /\ result'[c] = r
    BY DEF Return, Move, HInv, IInv, TypeOK
  <1>2. doomed'[c] => doomed[c]
    BY <1>1 DEF Record, Begins
  <1>3. ASSUME doomed[c] PROVE applied'[c] = 0 /\ r \in {"ctx", "failed"}
    <2>1. cancelled[c] /\ from # "commit" /\ applied[c] = 0
      BY <1>1, <1>3 DEF DoomInv
    <2>2. applied'[c] = applied[c]
      BY <1>1, <2>1 DEF Record, Begins, Installs
    <2> QED BY <2>1, <2>2
  <1> QED BY <1>1, <1>2, <1>3 DEF DoomInv

\* One step, for the client that makes it and for the others.
LEMMA DoomStep ==
  ASSUME HInv, HNext, NEW e \in Client, DoomInv(e)
  PROVE  DoomInv(e)'
  <1> Next /\ Record
    BY DEF HNext
  <1> USE DEF store
  <1>1. ASSUME NEW c \in Client, NEW m \in {"ro", "rw"}, Call(c, m) PROVE DoomInv(e)'
    <2>1. CASE e = c
      <3>1. Begins(c)
        BY <1>1 DEF Call, Move, Begins, HInv, IInv, TypeOK
      <3> QED BY <2>1, <3>1 DEF Record, DoomInv
    <2>2. CASE e # c
      BY <1>1, <2>2, DoomStays DEF Call, Move, HInv, IInv, TypeOK
    <2> QED BY <2>1, <2>2
  <1>2. ASSUME NEW c \in Client, Cancel(c) PROVE DoomInv(e)'
    BY <1>2, DoomStays DEF Cancel, HInv, IInv, TypeOK
  <1>3. ASSUME NEW c \in Client,
               (\E k \in Key : Get(c, k)) \/ (\E k \in Key, x \in Content : Put(c, k, x))
        PROVE  DoomInv(e)'
    BY <1>3, DoomStays DEF Get, Put
  <1>4. ASSUME NEW c \in Client,
               BeginAttempt(c) \/ ClosureReturns(c) \/ WriteCheck(c) \/ CommitRetry(c) \/ BackoffElapses(c)
        PROVE  DoomInv(e)'
    <2>1. /\ pc[c] # "idle" /\ pc'[c] # "idle" /\ cancelled' = cancelled /\ UNCHANGED store
          /\ pc'[c] = "commit" => ~cancelled[c]
          /\ result' = result /\ \A d \in Client \ {c} : pc'[d] = pc[d]
      BY <1>4 DEF BeginAttempt, ClosureReturns, WriteCheck, CommitRetry, BackoffElapses, Move,
                  HInv, IInv, TypeOK
    <2>2. CASE e = c
      BY <2>1, <2>2, DoomMoves
    <2>3. CASE e # c
      BY <2>1, <2>3, DoomStays
    <2> QED BY <2>2, <2>3
  <1>5. ASSUME NEW c \in Client, NEW from \in {"begin", "run", "check", "commit", "sleep"},
               NEW r \in Results, Return(c, from, r),
               from # "commit" => UNCHANGED store,
               cancelled[c] /\ from # "commit" => r \in {"ctx", "failed"}
        PROVE  DoomInv(e)'
    <2>1. CASE e = c
      BY <1>5, <2>1, DoomReturns
    <2>2. CASE e # c
      BY <1>5, <2>2, DoomStays DEF Return, Move, HInv, IInv, TypeOK
    <2> QED BY <2>1, <2>2
  <1>6. ASSUME NEW c \in Client, BeginCancelled(c) \/ BackoffCancelled(c) PROVE DoomInv(e)'
    BY <1>5, <1>6 DEF BeginCancelled, BackoffCancelled, Results
  <1>7. ASSUME NEW c \in Client, ClosureFails(c) PROVE DoomInv(e)'
    BY <1>5, <1>7 DEF ClosureFails, Results
  <1>8. ASSUME NEW c \in Client, ReadDone(c) PROVE DoomInv(e)'
    BY <1>5, <1>8 DEF ReadDone, Results
  <1>9. ASSUME NEW c \in Client, WriteCancelled(c) PROVE DoomInv(e)'
    BY <1>5, <1>9 DEF WriteCancelled, Results
  <1>10. ASSUME NEW c \in Client,
                CommitEmpty(c) \/ CommitWrites(c) \/ CommitGivesUp(c) \/ CommitRefused(c) \/ CommitLost(c)
         PROVE  DoomInv(e)'
    BY <1>5, <1>10 DEF CommitEmpty, CommitWrites, CommitGivesUp, CommitRefused, CommitLost, Results
  <1>11. ASSUME NEW k \in Key, NEW x \in Content, DirectWrite(k, x) PROVE DoomInv(e)'
    BY <1>11, DoomStays DEF DirectWrite
  <1> QED
    BY <1>1, <1>2, <1>3, <1>4, <1>6, <1>7, <1>8, <1>9, <1>10, <1>11
       DEF Next, Manage, Attempt, Check, Commit, Backoff, Closure

(* A call whose context is done in time installs nothing, whichever way    *)
(* the race between the context, the closure and the timer goes.           *)
THEOREM CancelledCallsStop == HSpec => []StoppedByContext
  <1>1. HInit => DoomsInv
    BY DEF HInit, DoomInv, DoomsInv
  <1>2. HInv /\ DoomsInv /\ [HNext]_hvars => DoomsInv'
    <2> SUFFICES ASSUME HInv, DoomsInv, [HNext]_hvars, NEW c \in Client PROVE DoomInv(c)'
      BY DEF DoomsInv
    <2>1. CASE HNext
      BY <2>1, DoomStep DEF DoomsInv
    <2>2. CASE UNCHANGED hvars
      BY <2>2 DEF hvars, vars, recorded, DoomInv, DoomsInv
    <2> QED BY <2>1, <2>2
  <1>3. DoomsInv => StoppedByContext
    BY DEF DoomInv, DoomsInv, StoppedByContext
  <1> QED BY <1>1, <1>2, <1>3, HInvariance, PTL DEF HSpec

-----------------------------------------------------------------------------
(* The refinement: a call takes effect at its commit, or, when it writes   *)
(* nothing, at the moment its last attempt began.                          *)

\* A step that ends no call and begins none shows the caller nothing.
LEMMA QuietStep ==
  ASSUME HInv, Record, UNCHANGED store,
         \A c \in Client : ~Begins(c) /\ ~Ends(c)
  PROVE  UNCHANGED <<hist, began, out>>
  <1>1. hist' = hist
    BY DEF Record, store
  <1>2. began' = [c \in Client |-> began[c]]
    BY DEF Record
  <1>3. out' = [c \in Client |-> out[c]]
    BY DEF Record
  <1> QED BY <1>1, <1>2, <1>3 DEF HInv, HistInv

\* The record of one call's return, as one answer.
LEMMA AnswerStep ==
  ASSUME HInv, Record, NEW c \in Client, NEW from \in {"begin", "run", "check", "commit", "sleep"},
         NEW r, Return(c, from, r)
  PROVE  Serial!Answer(c, Answered(c).status, Answered(c).reads, Answered(c).writes)
  <1>1. pc[c] = from /\ pc'[c] = "idle" /\ \A d \in Client \ {c} : pc'[d] = pc[d]
    BY DEF Return, Move, HInv, IInv, TypeOK
  <1>2. Ends(c) /\ ~Begins(c) /\ \A d \in Client \ {c} : ~Ends(d) /\ ~Begins(d)
    BY <1>1 DEF Begins, Ends
  <1>3. began' = [d \in Client |-> began[d]]
    BY <1>2 DEF Record
  <1>4. out' = [d \in Client |-> IF d = c THEN Answered(c) ELSE out[d]]
    BY <1>2 DEF Record
  <1>5. Answered(c) = [status |-> Answered(c).status, reads |-> Answered(c).reads,
                       writes |-> Answered(c).writes]
    BY DEF Answered
  <1>6. out[c].status = "open" /\ began' = began /\ out = [d \in Client |-> out[d]]
    BY <1>1, <1>3 DEF HInv, HistInv, CallInv
  <1>7. out' = [out EXCEPT ![c] = Answered(c)]
    BY <1>4, <1>6
  <1> QED BY <1>5, <1>6, <1>7 DEF Serial!Answer

\* A call that fails without a commit.
LEMMA FailStep ==
  ASSUME HInv, Record, NEW c \in Client, NEW from \in {"begin", "run", "check", "commit", "sleep"},
         NEW r \in Results \ {"ok"}, Return(c, from, r), UNCHANGED store
  PROVE  Serial!Next
  <1>1. result'[c] = r /\ commitTs' = commitTs /\ hist' = hist
    BY DEF Return, HInv, IInv, TypeOK, Record, store
  <1>2. Answered(c) = [status |-> "failed", reads |-> NoKeys, writes |-> NoKeys]
    BY <1>1 DEF Answered
  <1>3. Serial!Answer(c, "failed", Serial!None, Serial!None)
    BY <1>2, AnswerStep DEF Serial!None, NoKeys
  <1> QED BY <1>1, <1>3 DEF Serial!Next, Serial!Fail

\* A call that answers "ok" and has written nothing.
LEMMA ObserveStep ==
  ASSUME HInv, Record, NEW c \in Client, NEW from \in {"check", "commit"},
         Return(c, from, "ok"), UNCHANGED store, Dirty(c) = {}
  PROVE  Serial!Next
  <1>1. result'[c] = "ok" /\ hist' = hist /\ pc[c] = from
    BY DEF Return, Move, HInv, IInv, TypeOK, Record, store
  <1>2. Answered(c) = [status |-> "ok", reads |-> tx[c].snap, writes |-> NoKeys]
    BY <1>1 DEF Answered
  <1> DEFINE i == tx[c].readTs + 1
  <1>3. hist[i] = tx[c].snap
    BY <1>1 DEF HInv, CallInv, Open
  <1>4. i \in began[c] .. Len(hist) /\ i \in 1 .. Len(hist)
    <2>1. /\ tx[c].readTs \in Nat /\ tx[c].readTs <= commitTs /\ commitTs \in Nat
          /\ attempt[c] \in Nat
      BY <1>1, RetriesType DEF HInv, IInv, TypeOK, TxType, TimestampsInv, Open
    <2>2. /\ began[c] \in Nat /\ attempt[c] + began[c] <= tx[c].readTs + 1
          /\ Len(hist) = commitTs + 1
      BY <1>1 DEF HInv, HistInv, CallInv, Open
    <2> QED BY <2>1, <2>2
  <1>5. Serial!Answer(c, "ok", hist[i], Serial!None)
    BY <1>2, <1>3, AnswerStep DEF Serial!None, NoKeys
  <1>6. Serial!Observe(c, i)
    BY <1>1, <1>4, <1>5 DEF Serial!Observe
  <1> QED BY <1>4, <1>6 DEF Serial!Next

\* What a commit appends to the record.
LEMMA AppendStep ==
  ASSUME HInv, Record, IInv', commitTs' = commitTs + 1
  PROVE  /\ hist' = Append(hist, db') /\ Serial!Changes
         /\ Serial!Latest = db /\ db' \in [Key -> Content]
  <1>1. commitTs \in Nat /\ hist \in Seq([Key -> Content]) /\ Len(hist) = commitTs + 1
        /\ hist[commitTs + 1] = db /\ db' \in [Key -> Content]
    BY DEF HInv, HistInv, IInv, TypeOK
  <1>2. hist' = Append(hist, db')
    BY <1>1 DEF Record
  <1> QED BY <1>1, <1>2 DEF Serial!Changes, Serial!Latest

\* A commit of a call's writes, on reads that are still true.
LEMMA WriteStep ==
  ASSUME DetectConflicts, HInv, IInv', Record, NEW c \in Client, CommitWrites(c)
  PROVE  Serial!Next
  <1>1. /\ pc[c] = "commit" /\ result'[c] = "ok" /\ Dirty(c) # {} /\ ~Conflict(c)
        /\ Return(c, "commit", "ok") /\ commitTs' = commitTs + 1
        /\ db' = [k \in Key |-> IF k \in Dirty(c) THEN tx[c].pending[k] ELSE db[k]]
    BY DEF CommitWrites, Install, Return, Move, HInv, IInv, TypeOK
  <1> DEFINE R == tx[c].reads
             W == Dirty(c)
             w == [k \in W |-> tx[c].pending[k]]
  <1>2. /\ R \in SUBSET Key /\ W \in SUBSET Key /\ w \in [W -> Content]
    BY DEF HInv, IInv, TypeOK, TxType, Dirty
  <1>3. hist' = Append(hist, db') /\ Serial!Changes /\ Serial!Latest = db
    BY <1>1, AppendStep
  <1>4. \A k \in R : tx[c].snap[k] = Serial!Latest[k]
    <2> SUFFICES ASSUME NEW k \in R PROVE tx[c].snap[k] = db[k]
      BY <1>3
    <2>1. k \in Key /\ ver[k] \in Nat /\ tx[c].readTs \in Nat
      BY <1>2 DEF HInv, IInv, TypeOK, TxType
    <2>2. ver[k] <= tx[c].readTs
      BY <1>1, <2>1 DEF Conflict
    <2> QED BY <1>1, <2>1, <2>2 DEF HInv, IInv, SnapshotCurrent
  <1>5. [k \in R |-> tx[c].snap[k]] = [k \in R |-> Serial!Latest[k]]
    BY <1>4
  <1>6. Answered(c) = [status |-> "ok", reads |-> [k \in R |-> Serial!Latest[k]], writes |-> w]
    BY <1>1, <1>5 DEF Answered
  <1>7. Serial!Answer(c, "ok", [k \in R |-> Serial!Latest[k]], w)
    BY <1>1, <1>6, AnswerStep
  <1>8. hist' = Append(hist, [k \in Key |-> IF k \in W THEN w[k] ELSE Serial!Latest[k]])
    BY <1>1, <1>3
  <1> HIDE DEF R, W, w
  <1>9. Serial!Write(c)
    BY <1>2, <1>3, <1>7, <1>8 DEF Serial!Write
  <1> QED BY <1>9 DEF Serial!Next

(* With DetectConflicts, each step of the manager is a step of SerialStore  *)
(* or shows its callers nothing.                                           *)
LEMMA SerialStep ==
  ASSUME DetectConflicts, HInv, HNext
  PROVE  [Serial!Next]_<<hist, began, out>>
  <1> Next /\ Record /\ IInv /\ IInv'
    BY NextInv DEF HNext, HInv
  <1>1. ASSUME NEW c \in Client, NEW m \in {"ro", "rw"}, Call(c, m)
        PROVE  Serial!Next
    <2>1. /\ Begins(c) /\ ~Ends(c) /\ UNCHANGED store
          /\ \A d \in Client \ {c} : ~Begins(d) /\ ~Ends(d)
      BY <1>1 DEF Call, Move, Begins, Ends, IInv, TypeOK, store
    <2>2. /\ hist' = hist
          /\ began' = [d \in Client |-> IF d = c THEN Len(hist) ELSE began[d]]
          /\ out' = [d \in Client |-> IF d = c THEN [status |-> "open", reads |-> NoKeys, writes |-> NoKeys]
                                      ELSE out[d]]
      <3>1. hist' = hist
        BY <2>1 DEF Record, store
      <3>2. began' = [d \in Client |-> IF d = c THEN Len(hist) ELSE began[d]]
        BY <2>1 DEF Record
      <3>3. out' = [d \in Client |-> IF d = c THEN [status |-> "open", reads |-> NoKeys, writes |-> NoKeys]
                                     ELSE out[d]]
        BY <2>1 DEF Record
      <3> QED BY <3>1, <3>2, <3>3
    <2>3. out[c].status # "open" /\ out = [d \in Client |-> out[d]] /\ began = [d \in Client |-> began[d]]
      BY <1>1 DEF Call, Move, HInv, HistInv, CallInv
    <2>4. Serial!Invoke(c)
      BY <2>2, <2>3 DEF Serial!Invoke, Serial!None, NoKeys
    <2> QED BY <2>4 DEF Serial!Next
  <1>2. ASSUME NEW c \in Client,
               \/ Cancel(c) \/ BeginAttempt(c) \/ ClosureReturns(c) \/ WriteCheck(c)
               \/ CommitRetry(c) \/ BackoffElapses(c)
               \/ \E k \in Key : Get(c, k)
               \/ \E k \in Key, x \in Content : Put(c, k, x)
        PROVE  UNCHANGED <<hist, began, out>>
    <2>1. UNCHANGED store
      BY <1>2 DEF Cancel, BeginAttempt, ClosureReturns, WriteCheck, CommitRetry, BackoffElapses, Get, Put, store
    <2>2. ASSUME NEW d \in Client PROVE ~Begins(d) /\ ~Ends(d)
      BY <1>2 DEF Begins, Ends, Cancel, BeginAttempt, ClosureReturns, WriteCheck, CommitRetry,
         BackoffElapses, Get, Put, Move, IInv, TypeOK
    <2> QED BY <2>1, <2>2, QuietStep
  <1>3. ASSUME NEW c \in Client,
               \/ BeginCancelled(c) \/ ClosureFails(c) \/ WriteCancelled(c)
               \/ CommitGivesUp(c) \/ CommitRefused(c) \/ BackoffCancelled(c)
        PROVE  Serial!Next
    BY <1>3, FailStep DEF BeginCancelled, ClosureFails, WriteCancelled, CommitGivesUp, CommitRefused,
       BackoffCancelled, Results
  <1>4. ASSUME NEW c \in Client, ReadDone(c) PROVE Serial!Next
    <2>1. CASE cancelled[c]
      BY <1>4, <2>1, FailStep DEF ReadDone, Results
    <2>2. CASE ~cancelled[c]
      <3>1. Dirty(c) = {} /\ Return(c, "check", "ok") /\ UNCHANGED store
        BY <1>4, <2>2 DEF ReadDone, Return, Move, HInv, CallInv, Open
      <3> QED BY <3>1, ObserveStep
    <2> QED BY <2>1, <2>2
  <1>5. ASSUME NEW c \in Client, CommitEmpty(c) PROVE Serial!Next
    BY <1>5, ObserveStep DEF CommitEmpty
  <1>6. ASSUME NEW c \in Client, CommitWrites(c) PROVE Serial!Next
    BY <1>6, WriteStep
  <1>7. ASSUME NEW c \in Client, CommitLost(c) PROVE Serial!Next
    <2>1. /\ result'[c] = "lost" /\ commitTs' = commitTs + 1 /\ Return(c, "commit", "lost")
          /\ commitTs \in Nat
      BY <1>7 DEF CommitLost, Return, Install, IInv, TypeOK
    <2>2. Answered(c) = [status |-> "lost", reads |-> NoKeys, writes |-> NoKeys]
      BY <2>1 DEF Answered
    <2>3. Serial!Answer(c, "lost", Serial!None, Serial!None)
      BY <2>1, <2>2, AnswerStep DEF Serial!None, NoKeys
    <2>4. Serial!Lose(c)
      BY <2>1, <2>3, AppendStep DEF Serial!Lose
    <2> QED BY <2>4 DEF Serial!Next
  <1>8. ASSUME NEW k \in Key, NEW x \in Content, DirectWrite(k, x) PROVE Serial!Next
    <2>1. /\ commitTs' = commitTs + 1 /\ pc' = pc
          /\ db' = [j \in Key |-> IF j \in {k} THEN x ELSE db[j]]
      BY <1>8 DEF DirectWrite, Install
    <2>2. hist' = Append(hist, db') /\ Serial!Changes /\ Serial!Latest = db
      BY <2>1, AppendStep
    <2>3. db' = [Serial!Latest EXCEPT ![k] = x]
      BY <2>1, <2>2 DEF IInv, TypeOK
    <2>4. began' = [c \in Client |-> began[c]] /\ out' = [c \in Client |-> out[c]]
      BY <2>1 DEF Record, Begins, Ends
    <2>5. UNCHANGED <<began, out>>
      BY <2>4 DEF HInv, HistInv
    <2>6. Serial!Blind(k, x)
      BY <2>2, <2>3, <2>5 DEF Serial!Blind
    <2> QED BY <2>6 DEF Serial!Next
  <1> QED
    BY <1>1, <1>2, <1>3, <1>4, <1>5, <1>6, <1>7, <1>8
       DEF Next, Manage, Attempt, Check, Commit, Backoff, Closure

(* With DetectConflicts the manager is strictly serializable: every call   *)
(* that answers "ok" took effect at one instant between its invocation and *)
(* its return, whatever the retries, cancellations and lost commits.       *)
THEOREM Serializable ==
  ASSUME DetectConflicts
  PROVE  HSpec => SerialSpec
  <1>1. HInit => Serial!Init
    BY DEF HInit, Init, Serial!Init, Serial!None, NoKeys
  <1>2. ASSUME HInv, [HNext]_hvars PROVE [Serial!Next]_<<hist, began, out>>
    BY <1>2, SerialStep DEF hvars, recorded
  <1> QED BY <1>1, <1>2, HInvariance, PTL DEF HSpec, SerialSpec, Serial!Spec, Serial!svars

=============================================================================
