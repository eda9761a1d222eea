----------------------------- MODULE TxnManager -----------------------------
(***************************************************************************)
(* The transaction manager of txn_manager.go, ExecuteReadWithContext and   *)
(* ExecuteReadWriteWithContext, run by several goroutines (clients) over   *)
(* one BadgerDB.  The caller's closure is any sequence of reads and writes *)
(* that ends by returning nil or by failing (an error or a recovered       *)
(* panic).  BadgerDB itself is external: an optimistic multi-version store *)
(* with a snapshot per transaction and conflict detection at Commit.       *)
(***************************************************************************)
EXTENDS Integers

CONSTANTS
    Client,           \* the goroutines that call the manager, one call each at a time
    Key, Value,       \* what the store maps, and to what
    Absent,           \* the content of a key that is not there
    Untouched,        \* marks a key the transaction has not written
    OptMaxRetries,    \* TxnManagerOptions.MaxRetries as the caller passes it
    DetectConflicts,  \* EngineConfig.DetectConflicts
    MaxCommits        \* bound: no read-write call or direct write starts after so many

Content == Value \cup {Absent}

ASSUME OptionsAssumption ==
    /\ OptMaxRetries \in Int
    /\ DetectConflicts \in BOOLEAN
    /\ MaxCommits \in Nat

ASSUME MarkersAssumption == Absent \notin Value /\ Untouched \notin Content

\* NewTransactionManager: a limit that is not positive becomes the default, 5.
Retries == IF OptMaxRetries > 0 THEN OptMaxRetries ELSE 5

VARIABLES
    db,         \* the latest content of every key
    ver,        \* the commit timestamp of every key's latest write
    commitTs,   \* the latest commit timestamp handed out
    pc,         \* where each client is in its call
    mode,       \* "rw" or "ro": which of the two functions it called
    attempt,    \* the loop variable of ExecuteReadWriteWithContext
    cancelled,  \* whether the call's context is done
    result,     \* what the last call returned
    tx          \* the client's open transaction

store  == <<db, ver, commitTs>>
vars   == <<store, pc, mode, attempt, cancelled, result, tx>>

Results == {"none", "ok", "failed", "ctx", "conflict", "lost"}

\* What is left of a transaction once it is discarded.
Discarded == [readTs  |-> 0,
              snap    |-> [k \in Key |-> Absent],
              reads   |-> {},
              pending |-> [k \in Key |-> Untouched]]

Init ==
    /\ db = [k \in Key |-> Absent]
    /\ ver = [k \in Key |-> 0]
    /\ commitTs = 0
    /\ pc = [c \in Client |-> "idle"]
    /\ mode = [c \in Client |-> "ro"]
    /\ attempt = [c \in Client |-> 0]
    /\ cancelled = [c \in Client |-> FALSE]
    /\ result = [c \in Client |-> "none"]
    /\ tx = [c \in Client |-> Discarded]

-----------------------------------------------------------------------------
(* What a transaction sees and leaves behind.                              *)

Dirty(c) == {k \in Key : tx[c].pending[k] # Untouched}

\* A read is served from the transaction's own pending writes first.
View(c, k) == IF k \in Dirty(c) THEN tx[c].pending[k] ELSE tx[c].snap[k]

\* Badger refuses a commit when a key the transaction read was committed
\* after its snapshot; without DetectConflicts it never does.
Conflict(c) == DetectConflicts /\ \E k \in tx[c].reads : ver[k] > tx[c].readTs

Install(w, keys) ==
    /\ commitTs' = commitTs + 1
    /\ db' = [k \in Key |-> IF k \in keys THEN w[k] ELSE db[k]]
    /\ ver' = [k \in Key |-> IF k \in keys THEN commitTs + 1 ELSE ver[k]]

Move(c, from, to) == pc[c] = from /\ pc' = [pc EXCEPT ![c] = to]

\* The call returns r to its caller; its transaction is discarded.
Return(c, from, r) ==
    /\ Move(c, from, "idle")
    /\ result' = [result EXCEPT ![c] = r]
    /\ tx' = [tx EXCEPT ![c] = Discarded]
    /\ attempt' = [attempt EXCEPT ![c] = 0]
    /\ cancelled' = [cancelled EXCEPT ![c] = FALSE]
    /\ UNCHANGED mode

-----------------------------------------------------------------------------
(* The call, its context and the snapshot of each attempt.                 *)

Call(c, m) ==
    /\ Move(c, "idle", "begin")
    /\ m = "rw" => commitTs < MaxCommits
    /\ mode' = [mode EXCEPT ![c] = m]
    /\ result' = [result EXCEPT ![c] = "none"]
    /\ UNCHANGED <<store, attempt, cancelled, tx>>

\* The caller's context is cancelled, or its deadline passes, at any moment.
Cancel(c) ==
    /\ pc[c] # "idle"
    /\ ~cancelled[c]
    /\ cancelled' = [cancelled EXCEPT ![c] = TRUE]
    /\ UNCHANGED <<store, pc, mode, attempt, result, tx>>

\* Mutant of BeginAttempt: the transaction is opened once, before the loop.
BeginFirstAttemptOnly(c) ==
    /\ Move(c, "begin", "run")
    /\ ~cancelled[c]
    /\ tx' = IF attempt[c] > 0 THEN tx
             ELSE [tx EXCEPT ![c] = [Discarded EXCEPT !.readTs = commitTs, !.snap = db]]
    /\ UNCHANGED <<store, mode, attempt, cancelled, result>>

BeginAttempt(c) ==
    /\ Move(c, "begin", "run")
    /\ ~cancelled[c]
    /\ tx' = [tx EXCEPT ![c] = [Discarded EXCEPT !.readTs = commitTs, !.snap = db]]
    /\ UNCHANGED <<store, mode, attempt, cancelled, result>>

BeginCancelled(c) ==
    /\ cancelled[c]
    /\ Return(c, "begin", "ctx")
    /\ UNCHANGED store

-----------------------------------------------------------------------------
(* The caller's closure.                                                   *)

\* Only a read-write transaction keeps track of what it read, and a read
\* served from its own writes is not a read of the store.
Get(c, k) ==
    /\ pc[c] = "run"
    /\ tx' = IF mode[c] = "rw" /\ k \notin Dirty(c)
             THEN [tx EXCEPT ![c].reads = @ \cup {k}] ELSE tx
    /\ UNCHANGED <<store, pc, mode, attempt, cancelled, result>>

\* Set, SetEntry and Delete (x = Absent) inside the transaction.
Put(c, k, x) ==
    /\ pc[c] = "run"
    /\ mode[c] = "rw"
    /\ tx' = [tx EXCEPT ![c].pending[k] = x]
    /\ UNCHANGED <<store, pc, mode, attempt, cancelled, result>>

ClosureReturns(c) ==
    /\ Move(c, "run", "check")
    /\ UNCHANGED <<store, mode, attempt, cancelled, result, tx>>

\* The closure returns an error or panics: discarded, and never run again.
ClosureFails(c) ==
    /\ Return(c, "run", "failed")
    /\ UNCHANGED store

-----------------------------------------------------------------------------
(* The second look at the context, and the commit.                         *)

ReadDone(c) ==
    /\ mode[c] = "ro"
    /\ Return(c, "check", IF cancelled[c] THEN "ctx" ELSE "ok")
    /\ UNCHANGED store

\* Mutant of WriteCheck: the context is not looked at again after the closure.
WriteUnchecked(c) ==
    /\ mode[c] = "rw"
    /\ Move(c, "check", "commit")
    /\ UNCHANGED <<store, mode, attempt, cancelled, result, tx>>

WriteCheck(c) ==
    /\ mode[c] = "rw"
    /\ ~cancelled[c]
    /\ Move(c, "check", "commit")
    /\ UNCHANGED <<store, mode, attempt, cancelled, result, tx>>

WriteCancelled(c) ==
    /\ mode[c] = "rw"
    /\ cancelled[c]
    /\ Return(c, "check", "ctx")
    /\ UNCHANGED store

\* Badger returns at once, without looking for conflicts.
CommitEmpty(c) ==
    /\ Dirty(c) = {}
    /\ Return(c, "commit", "ok")
    /\ UNCHANGED store

CommitWrites(c) ==
    /\ Dirty(c) # {}
    /\ ~Conflict(c)
    /\ Return(c, "commit", "ok")
    /\ Install(tx[c].pending, Dirty(c))

\* Mutant of CommitRetry: one retry too many.
CommitRetryOnceMore(c) ==
    /\ Dirty(c) # {}
    /\ Conflict(c)
    /\ attempt[c] <= Retries
    /\ Move(c, "commit", "sleep")
    /\ tx' = [tx EXCEPT ![c] = Discarded]
    /\ UNCHANGED <<store, mode, attempt, cancelled, result>>

CommitRetry(c) ==
    /\ Dirty(c) # {}
    /\ Conflict(c)
    /\ attempt[c] < Retries
    /\ Move(c, "commit", "sleep")
    /\ tx' = [tx EXCEPT ![c] = Discarded]
    /\ UNCHANGED <<store, mode, attempt, cancelled, result>>

\* Mutants of CommitGivesUp: the last conflict is swallowed, or answered by
\* writing without a transaction.
CommitGivesUpSilently(c) ==
    /\ Dirty(c) # {}
    /\ Conflict(c)
    /\ attempt[c] >= Retries
    /\ Return(c, "commit", "ok")
    /\ UNCHANGED store

CommitGivesUpForced(c) ==
    /\ Dirty(c) # {}
    /\ Conflict(c)
    /\ attempt[c] >= Retries
    /\ Return(c, "commit", "ok")
    /\ Install(tx[c].pending, Dirty(c))

CommitGivesUp(c) ==
    /\ Dirty(c) # {}
    /\ Conflict(c)
    /\ attempt[c] >= Retries
    /\ Return(c, "commit", "conflict")
    /\ UNCHANGED store

\* Mutant of CommitLost: every error of Commit is retried, not only conflicts.
CommitLostRetries(c) ==
    /\ Dirty(c) # {}
    /\ ~Conflict(c)
    /\ attempt[c] < Retries
    /\ Move(c, "commit", "sleep")
    /\ tx' = [tx EXCEPT ![c] = Discarded]
    /\ Install(tx[c].pending, Dirty(c))
    /\ UNCHANGED <<mode, attempt, cancelled, result>>

\* Mutant of CommitRefused: it is called a conflict.
CommitRefusedConflicts(c) ==
    /\ Dirty(c) # {}
    /\ Return(c, "commit", "conflict")
    /\ UNCHANGED store

\* Any other error of Commit is returned at once.  It does not say whether
\* the writes took effect: Badger may fail before the timestamp is given,
\* after it, or once the entries are already in the log.
CommitRefused(c) ==
    /\ Dirty(c) # {}
    /\ Return(c, "commit", "lost")
    /\ UNCHANGED store

CommitLost(c) ==
    /\ Dirty(c) # {}
    /\ ~Conflict(c)
    /\ Return(c, "commit", "lost")
    /\ \/ Install(tx[c].pending, Dirty(c))
       \/ Install(db, Dirty(c))

\* Mutant of BackoffElapses: the attempt is not counted.
BackoffUncounted(c) ==
    /\ Move(c, "sleep", "begin")
    /\ UNCHANGED <<store, mode, attempt, cancelled, result, tx>>

\* sleepWithJitter: the timer fires ...
BackoffElapses(c) ==
    /\ Move(c, "sleep", "begin")
    /\ attempt' = [attempt EXCEPT ![c] = @ + 1]
    /\ UNCHANGED <<store, mode, cancelled, result, tx>>

\* ... or the context ends first; with both ready the select picks either.
BackoffCancelled(c) ==
    /\ cancelled[c]
    /\ Return(c, "sleep", "ctx")
    /\ UNCHANGED store

-----------------------------------------------------------------------------
\* Engine.Set, SetObject and Delete: a transaction of one blind write, which
\* reads nothing and so conflicts with nobody.
DirectWrite(k, x) ==
    /\ commitTs < MaxCommits
    /\ Install([j \in Key |-> x], {k})
    /\ UNCHANGED <<pc, mode, attempt, cancelled, result, tx>>

Attempt(c)  == BeginAttempt(c) \/ BeginCancelled(c)
Check(c)    == ReadDone(c) \/ WriteCheck(c) \/ WriteCancelled(c)
Commit(c)   == \/ CommitEmpty(c) \/ CommitWrites(c) \/ CommitRetry(c)
               \/ CommitGivesUp(c) \/ CommitRefused(c) \/ CommitLost(c)
Backoff(c)  == BackoffElapses(c) \/ BackoffCancelled(c)

Manage(c) == Attempt(c) \/ Check(c) \/ Commit(c) \/ Backoff(c)

Closure(c) ==
    \/ \E k \in Key : Get(c, k)
    \/ \E k \in Key, x \in Content : Put(c, k, x)
    \/ ClosureReturns(c)
    \/ ClosureFails(c)

Next ==
    \/ \E c \in Client, m \in {"ro", "rw"} : Call(c, m)
    \/ \E c \in Client : Cancel(c) \/ Closure(c) \/ Manage(c)
    \/ \E k \in Key, x \in Content : DirectWrite(k, x)

Spec == Init /\ [][Next]_vars

\* The goroutine that runs a call is scheduled, its timer fires and its
\* closure ends.  Nobody is obliged to call, to cancel or to write.
Fairness ==
    \A c \in Client : /\ WF_vars(Manage(c))
                      /\ WF_vars(ClosureReturns(c) \/ ClosureFails(c))

FairSpec == Spec /\ Fairness

-----------------------------------------------------------------------------
TxType == [readTs : Nat, snap : [Key -> Content], reads : SUBSET Key,
           pending : [Key -> Content \cup {Untouched}]]

(* Every variable keeps its type; the loop variable never passes Retries.  *)
TypeOK ==
    /\ db \in [Key -> Content]
    /\ ver \in [Key -> Nat]
    /\ commitTs \in Nat
    /\ pc \in [Client -> {"idle", "begin", "run", "check", "commit", "sleep"}]
    /\ mode \in [Client -> {"ro", "rw"}]
    /\ attempt \in [Client -> 0 .. Retries]
    /\ cancelled \in [Client -> BOOLEAN]
    /\ result \in [Client -> Results]
    /\ tx \in [Client -> TxType]

(* No commit of a read-write call on top of a read that is no longer true  *)
(* (lost update): when a step installs a call's writes, what the closure   *)
(* read is what the store holds.                                           *)
CommittedOn(c) ==
    /\ pc[c] = "commit"
    /\ pc'[c] = "idle"
    /\ db' # db
    => \A k \in tx[c].reads : tx[c].snap[k] = db[k]

NoLostUpdate == [][\A c \in Client : CommittedOn(c)]_vars

(* Every call returns, whatever the others commit meanwhile: conflicts use *)
(* up the retries, the backoff timer fires, a done context is noticed at   *)
(* the next check.                                                         *)
CallReturns == \A c \in Client : pc[c] # "idle" ~> pc[c] = "idle"

=============================================================================
