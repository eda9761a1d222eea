------------------------------ MODULE PkLocker ------------------------------
(***************************************************************************)
(* lock.go: leases on primary keys, kept as store entries lock:<pk> with a *)
(* TTL and the value "owner|token", taken, renewed and released inside     *)
(* read-write transactions of the manager.  Every step of this module is a *)
(* step of TxnManager, with the closure narrowed to TryLock, Unlock,       *)
(* RenewLock or IsLockedTx on one key, or a tick of the wall clock, which  *)
(* Badger reads in whole Unix seconds.                                     *)
(***************************************************************************)
EXTENDS TxnManager

CONSTANTS
    PK,        \* primary keys that are locked
    Owner,     \* owner names; the callers of demonstration.go all share one
    TTL,       \* lease durations in seconds; 0 is any duration below one
    MaxNow,    \* bound: no clock reading and no expiry beyond it
    MaxStamp,  \* bound: no token is drawn after so many commits
    NotRead    \* the closure has not read the lock key yet

\* One step from a pk to its lock entry: "lock:" + pk.
lockKeyForPK(p) == <<"lock", p>>

\* A token is 16 random bytes: here, a pair no other TryLock that commits
\* can draw.  Owner and token are the entry's value, exp its ExpiresAt.
Token == Client \X (0 .. MaxStamp)
Lease == [owner : Owner, token : Token, exp : 0 .. MaxNow]

ASSUME LockerAssumption ==
    /\ \A p \in PK : lockKeyForPK(p) \in Key
    /\ Lease \subseteq Value
    /\ TTL \subseteq Nat
    /\ MaxNow \in Nat
    /\ MaxStamp \in Nat
    /\ NotRead \notin Content

VARIABLES
    now,    \* the wall clock
    op,     \* the locker method each client's closure calls, with its arguments
    got,    \* what the closure's tx.Get returned: a lease, Absent (ErrKeyNotFound) or NotRead
    held,   \* the lease each client goes by for each key: the last one it was granted
    watch   \* what Locked has been, of the key the call is about, since the call began

lvars == <<vars, now, op, got, held, watch>>

NoOp == [name |-> "none", pk |-> Absent, owner |-> Absent, token |-> Absent, ttl |-> 0]

\* The lock entry an operation is about, and whether an entry is visible:
\* Badger hides an entry from the second its expiry names.
KeyOf(c)      == lockKeyForPK(op[c].pk)
AliveAt(l, t) == l # Absent /\ l.exp > t
Alive(l)      == AliveAt(l, now)
Locked(p)     == Alive(db[lockKeyForPK(p)])

LInit ==
    /\ Init
    /\ now = 1
    /\ op = [c \in Client |-> NoOp]
    /\ got = [c \in Client |-> NotRead]
    /\ held = [c \in Client |-> [p \in PK |-> Absent]]
    /\ watch = [c \in Client |-> {}]

-----------------------------------------------------------------------------
(* A client calls the manager with a closure around one locker method.     *)

Start(c, m, name, p, o, tok, t) ==
    /\ Call(c, m)
    /\ op' = [op EXCEPT ![c] = [name |-> name, pk |-> p, owner |-> o, token |-> tok, ttl |-> t]]
    /\ UNCHANGED <<now, got>>

StartTryLock(c, p, o, t) ==
    /\ Start(c, "rw", "TryLock", p, o, Absent, t)
    /\ UNCHANGED held

\* A client that unlocks stops relying on its lease as it makes the call.
StartUnlock(c, p) ==
    /\ held[c][p] # Absent
    /\ Start(c, "rw", "Unlock", p, held[c][p].owner, held[c][p].token, 0)
    /\ held' = [held EXCEPT ![c][p] = Absent]

StartRenew(c, p, t) ==
    /\ held[c][p] # Absent
    /\ Start(c, "rw", "RenewLock", p, held[c][p].owner, held[c][p].token, t)
    /\ UNCHANGED held

StartIsLocked(c, p) ==
    /\ Start(c, "ro", "IsLocked", p, Absent, Absent, 0)
    /\ UNCHANGED held

\* Mutant of Granted: the token is handed out whatever the call returned.
GrantedAnyway(c) ==
    IF op[c].name \in {"TryLock", "RenewLock"} THEN tx[c].pending[KeyOf(c)]
    ELSE held[c][op[c].pk]

\* What the client goes by once its call has returned: the lease that a
\* TryLock or RenewLock wrote and that the manager answered "ok" for.  After
\* a RenewLock that failed it still has the token, but knows of no expiry.
Granted(c) ==
    IF result'[c] = "ok" /\ op[c].name \in {"TryLock", "RenewLock"}
    THEN tx[c].pending[KeyOf(c)]
    ELSE IF op[c].name = "RenewLock" THEN [held[c][op[c].pk] EXCEPT !.exp = 0]
    ELSE held[c][op[c].pk]

\* The call comes back: its operation is over and its closure's locals gone.
Returned(c) ==
    /\ op' = [op EXCEPT ![c] = NoOp]
    /\ got' = [got EXCEPT ![c] = NotRead]
    /\ held' = [held EXCEPT ![c][op[c].pk] = Granted(c)]
    /\ UNCHANGED now

-----------------------------------------------------------------------------
(* The closure: tx.Get of the lock key, then what the method does with it. *)

\* Mutant of ReadLock: an expired entry is found all the same.
ReadLockExpired(c) ==
    /\ got[c] = NotRead
    /\ Get(c, KeyOf(c))
    /\ got' = [got EXCEPT ![c] = View(c, KeyOf(c))]
    /\ UNCHANGED <<now, op, held>>

\* Mutant of ReadLock: the entry is read outside the transaction.
ReadLockOutside(c) ==
    /\ got[c] = NotRead
    /\ pc[c] = "run"
    /\ got' = [got EXCEPT ![c] = IF Alive(db[KeyOf(c)]) THEN db[KeyOf(c)] ELSE Absent]
    /\ UNCHANGED <<vars, now, op, held>>

ReadLock(c) ==
    /\ got[c] = NotRead
    /\ Get(c, KeyOf(c))
    /\ got' = [got EXCEPT ![c] = IF Alive(View(c, KeyOf(c))) THEN View(c, KeyOf(c)) ELSE Absent]
    /\ UNCHANGED <<now, op, held>>

Found(c)     == got[c] \notin {NotRead, Absent}
Unwritten(c) == KeyOf(c) \notin Dirty(c)

\* Mutant of Mine: only the owner is compared.
SameOwner(c) == got[c].owner = op[c].owner

\* equalBytes(got, expect): the stored "owner|token" is the caller's.
Mine(c) == got[c].owner = op[c].owner /\ got[c].token = op[c].token

\* SetEntry(... WithTTL(ttl)): the expiry is counted from the moment of the
\* call, not of the commit, in whole seconds.
WriteLease(c, o, tok) ==
    /\ Unwritten(c)
    /\ now + op[c].ttl <= MaxNow
    /\ Put(c, KeyOf(c), [owner |-> o, token |-> tok, exp |-> now + op[c].ttl])
    /\ UNCHANGED <<now, op, got, held>>

\* Mutant of TryLockSet: the lease is written without a look at the key.
TryLockBlind(c) ==
    /\ op[c].name = "TryLock"
    /\ got[c] \in {NotRead, Absent}
    /\ commitTs <= MaxStamp
    /\ WriteLease(c, op[c].owner, <<c, commitTs>>)

TryLockSet(c) ==
    /\ op[c].name = "TryLock"
    /\ got[c] = Absent
    /\ commitTs <= MaxStamp
    /\ WriteLease(c, op[c].owner, <<c, commitTs>>)

RenewSet(c) ==
    /\ op[c].name = "RenewLock"
    /\ Found(c)
    /\ Mine(c)
    /\ WriteLease(c, got[c].owner, got[c].token)

UnlockDelete(c) ==
    /\ op[c].name = "Unlock"
    /\ Found(c)
    /\ Mine(c)
    /\ Unwritten(c)
    /\ Put(c, KeyOf(c), Absent)
    /\ UNCHANGED <<now, op, got, held>>

\* The method returns nil and the closure with it: a lease is written or
\* deleted, there was nothing to unlock, or the question is answered.
MethodReturns(c) ==
    /\ \/ ~Unwritten(c)
       \/ op[c].name = "Unlock" /\ got[c] = Absent
       \/ op[c].name = "IsLocked" /\ got[c] # NotRead
    /\ ClosureReturns(c)
    /\ UNCHANGED <<now, op, got, held>>

\* ErrLocked from TryLock when the key is there at all; ErrNotOwner from
\* Unlock and RenewLock; RenewLock of a lease that is gone.
Refusal(c) ==
    \/ op[c].name = "TryLock" /\ Found(c)
    \/ op[c].name \in {"Unlock", "RenewLock"} /\ Found(c) /\ ~Mine(c)
    \/ op[c].name = "RenewLock" /\ got[c] = Absent

\* The method refuses, or Badger fails one of its reads or writes, or the
\* closure around it fails or panics.
MethodRefuses(c) == Unwritten(c) /\ Refusal(c) /\ ClosureFails(c) /\ Returned(c)
ClosureBreaks(c) == ClosureFails(c) /\ Returned(c)

Method(c) ==
    \/ ReadLock(c) \/ TryLockSet(c) \/ RenewSet(c) \/ UnlockDelete(c)
    \/ MethodReturns(c) \/ MethodRefuses(c) \/ ClosureBreaks(c)

-----------------------------------------------------------------------------

LManage(c) ==
    /\ Manage(c)
    /\ IF pc'[c] = "idle" THEN Returned(c)
       ELSE got' = [got EXCEPT ![c] = NotRead] /\ UNCHANGED <<now, op, held>>

LCancel(c) ==
    /\ Cancel(c)
    /\ UNCHANGED <<now, op, got, held>>

\* A goroutine ends without unlocking: nobody goes by its leases any more.
Abandon(c) ==
    /\ pc[c] = "idle"
    /\ held' = [held EXCEPT ![c] = [p \in PK |-> Absent]]
    /\ UNCHANGED <<vars, now, op, got>>

Tick ==
    /\ now < MaxNow
    /\ now' = now + 1
    /\ UNCHANGED <<vars, op, got, held>>

Step ==
    \/ \E c \in Client, p \in PK :
          \/ \E o \in Owner, t \in TTL : StartTryLock(c, p, o, t)
          \/ StartUnlock(c, p)
          \/ \E t \in TTL : StartRenew(c, p, t)
          \/ StartIsLocked(c, p)
    \/ \E c \in Client : Method(c) \/ LManage(c) \/ LCancel(c) \/ Abandon(c)
    \/ Tick

\* The history of the key a call is about, for the properties only.
Watch ==
    watch' = [c \in Client |->
                IF pc'[c] = "idle" THEN {}
                ELSE watch[c] \cup {AliveAt(db'[lockKeyForPK(op'[c].pk)], now')}]

LNext == Step /\ Watch

LSpec == LInit /\ [][LNext]_lvars

-----------------------------------------------------------------------------
(* Every variable keeps its type; what a client goes by is nothing or a    *)
(* lease, and a lock entry holds nothing but a lease.                      *)
LTypeOK ==
    /\ TypeOK
    /\ now \in Nat
    /\ op \in [Client -> [name : {"none", "TryLock", "Unlock", "RenewLock", "IsLocked"},
                          pk : PK \cup {Absent}, owner : Owner \cup {Absent},
                          token : Token \cup {Absent}, ttl : Nat]]
    /\ got \in [Client -> Lease \cup {Absent, NotRead}]
    /\ held \in [Client -> [PK -> Lease \cup {Absent}]]
    /\ watch \in [Client -> SUBSET BOOLEAN]
    /\ \A p \in PK : db[lockKeyForPK(p)] \in Lease \cup {Absent}

(* Mutual exclusion in time: a lease somebody goes by and that has not run *)
(* out is the one in the store, so two clients never hold one key at once, *)
(* through conflicts, retries, cancelled calls, lost commits and renewals. *)
LiveHolderOwnsKey ==
    \A c \in Client, p \in PK :
        Alive(held[c][p]) => db[lockKeyForPK(p)] = held[c][p]

(* The lock entries are a lease lock: only a free key is acquired, and only *)
(* the client whose token it carries extends or releases a lease.          *)
Lock == INSTANCE LeaseLock WITH
            lease <- [p \in PK |-> db[lockKeyForPK(p)]], NoLease <- Absent
LockSpec == Lock!Spec

(* ErrLocked and a TRUE from IsLockedTx are never stale: the key was       *)
(* locked at a moment after the call began.                                *)
RefusedWhenLocked == \A c \in Client : Found(c) => TRUE \in watch[c]

(* "true, if the lock key exists (not expired)" (lock.go:127): when        *)
(* IsLockedTx finds no lock, there was a moment in the call without one.   *)
UnlockedWhenFree ==
    \A c \in Client : op[c].name = "IsLocked" /\ got[c] = Absent => FALSE \in watch[c]

=============================================================================
