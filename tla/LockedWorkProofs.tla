-------------------------- MODULE LockedWorkProofs --------------------------
(***************************************************************************)
(* Theorems about PkLocker, for any clients, primary keys, owners and TTLs:*)
(* a lease somebody goes by is the one in the store, the lock entries are  *)
(* a lease lock, and a refusal is never stale.  And about LockedWork, for  *)
(* any page: the workers are clients of the locker, so all of that holds   *)
(* of them, no two of them work on one row under leases that are still     *)
(* running, and no row of the page is forgotten.                           *)
(***************************************************************************)
EXTENDS LockedWork, TxnManagerProofs

-----------------------------------------------------------------------------
(* The locker.                                                             *)

(* What a client's operation is made of while its call is under way.       *)
OpInv(c) ==
    pc[c] # "idle" =>
      /\ op[c].pk \in PK
      /\ op[c].name \in {"TryLock", "Unlock", "RenewLock", "IsLocked"}
      /\ op[c].name = "IsLocked" <=> mode[c] = "ro"
      /\ op[c].name = "TryLock" => op[c].owner \in Owner
      /\ op[c].name \in {"Unlock", "RenewLock"} =>
            op[c].owner \in Owner /\ op[c].token \in Token /\ op[c].token[1] = c
      /\ op[c].name = "Unlock" => held[c][op[c].pk] = Absent
      /\ op[c].name = "RenewLock" => held[c][op[c].pk] # Absent

Old(c) == tx[c].snap[KeyOf(c)]      \* the lock entry the transaction began with
New(c) == tx[c].pending[KeyOf(c)]   \* what it is about to write there

(* A pending write is the operation's own, made on the entry it read.      *)
Written(c) ==
    \/ /\ op[c].name = "TryLock"
       /\ ~Alive(Old(c))
       /\ New(c) \in Lease /\ New(c).token[1] = c
    \/ /\ op[c].name = "Unlock"
       /\ Old(c) \in Lease /\ Old(c).token[1] = c
       /\ New(c) = Absent
    \/ /\ op[c].name = "RenewLock"
       /\ Old(c) \in Lease /\ Old(c).token[1] = c
       /\ New(c) \in Lease /\ New(c).owner = Old(c).owner /\ New(c).token = Old(c).token

TxInv(c) ==
    Open(c) =>
      /\ Old(c) \in Lease \cup {Absent}
      /\ Alive(Old(c)) => TRUE \in watch[c]
      /\ Dirty(c) \subseteq {KeyOf(c)}
      /\ Dirty(c) # {} => KeyOf(c) \in tx[c].reads /\ Written(c)
      /\ pc[c] \in {"check", "commit"} /\ op[c].name \in {"TryLock", "RenewLock"} => Dirty(c) # {}

(* What the closure's local variable holds is what the snapshot held.      *)
GotInv(c) ==
    /\ got[c] # NotRead => pc[c] \in {"run", "check"}
    /\ pc[c] = "run" /\ got[c] = NotRead => Dirty(c) = {}
    /\ pc[c] = "run" /\ got[c] # NotRead /\ mode[c] = "rw" => KeyOf(c) \in tx[c].reads
    /\ got[c] = Absent => ~Alive(Old(c))
    /\ Found(c) => got[c] = Old(c) /\ TRUE \in watch[c]

HeldInv(c) == \A p \in PK : held[c][p] # Absent => held[c][p].token[1] = c

LCallInv(c) == OpInv(c) /\ TxInv(c) /\ GotInv(c) /\ HeldInv(c)

LInv == IInv /\ LTypeOK /\ \A c \in Client : LCallInv(c)

\* Each primary key has a lock entry of its own.
LEMMA LockKeys ==
  /\ \A p \in PK : lockKeyForPK(p) \in Key
  /\ \A p, q : lockKeyForPK(p) = lockKeyForPK(q) => p = q
  BY LockerAssumption DEF lockKeyForPK

\* A lease is a content of the store and none of the markers.
LEMMA LeaseFacts ==
  /\ Lease \subseteq Content /\ Absent \in Content
  /\ Absent \notin Lease /\ NotRead \notin Lease /\ NotRead # Absent
  /\ Untouched \notin Lease /\ Untouched # Absent
  /\ \A l \in Lease : l.owner \in Owner /\ l.token \in Token /\ l.exp \in Nat
  BY LockerAssumption, MarkersAssumption DEF Content, Lease

\* Every locker step is a step of the transaction manager.
LEMMA LockerRefinesManager == LInv /\ [LNext]_lvars => [Next]_vars
  <1> SUFFICES ASSUME LInv, [LNext]_lvars PROVE [Next]_vars
    OBVIOUS
  <1>1. CASE UNCHANGED lvars
    BY <1>1 DEF lvars
  <1>2. ASSUME NEW c \in Client, NEW p \in PK,
               \/ \E o \in Owner, t \in TTL : StartTryLock(c, p, o, t)
               \/ StartUnlock(c, p)
               \/ \E t \in TTL : StartRenew(c, p, t)
               \/ StartIsLocked(c, p)
        PROVE  Next
    BY <1>2 DEF StartTryLock, StartUnlock, StartRenew, StartIsLocked, Start, Next
  <1>3. ASSUME NEW c \in Client, Method(c) PROVE Next
    <2>1. KeyOf(c) \in Key
      BY <1>3, LockKeys DEF LInv, LCallInv, OpInv, KeyOf, Method, ReadLock, TryLockSet, WriteLease,
         RenewSet, UnlockDelete, MethodReturns, MethodRefuses, ClosureBreaks, Get, Put,
         ClosureReturns, ClosureFails, Return, Move
    <2>2. CASE ReadLock(c)
      BY <2>1, <2>2 DEF ReadLock, Next, Closure
    <2>3. CASE TryLockSet(c)
      <3>1. /\ <<c, commitTs>> \in Token /\ op[c].owner \in Owner /\ now + op[c].ttl \in 0 .. MaxNow
        BY <2>3, LockerAssumption DEF TryLockSet, WriteLease, Put, LInv, LTypeOK, TypeOK, LCallInv,
           OpInv, Token
      <3>2. [owner |-> op[c].owner, token |-> <<c, commitTs>>, exp |-> now + op[c].ttl] \in Content
        BY <3>1, LeaseFacts DEF Lease
      <3> QED BY <2>1, <2>3, <3>2 DEF TryLockSet, WriteLease, Next, Closure
    <2>4. CASE RenewSet(c)
      <3>1. /\ got[c] \in Lease /\ now + op[c].ttl \in 0 .. MaxNow
        BY <2>4, LockerAssumption DEF RenewSet, Found, WriteLease, LInv, LTypeOK
      <3>2. [owner |-> got[c].owner, token |-> got[c].token, exp |-> now + op[c].ttl] \in Content
        BY <3>1, LeaseFacts DEF Lease
      <3> QED BY <2>1, <2>4, <3>2 DEF RenewSet, WriteLease, Next, Closure
    <2>5. CASE UnlockDelete(c)
      BY <2>1, <2>5 DEF UnlockDelete, Next, Closure, Content
    <2>6. CASE MethodReturns(c) \/ MethodRefuses(c) \/ ClosureBreaks(c)
      BY <2>6 DEF MethodReturns, MethodRefuses, ClosureBreaks, Next, Closure
    <2> QED BY <1>3, <2>2, <2>3, <2>4, <2>5, <2>6 DEF Method
  <1>4. ASSUME NEW c \in Client, LManage(c) \/ LCancel(c) PROVE Next
    BY <1>4 DEF LManage, LCancel, Next
  <1>5. CASE (\E c \in Client : Abandon(c)) \/ Tick
    BY <1>5 DEF Abandon, Tick
  <1> QED BY <1>1, <1>2, <1>3, <1>4, <1>5 DEF LNext, Step

\* The step leaves this client alone, or only cancels its context.
LSame(c) == /\ pc'[c] = pc[c] /\ tx'[c] = tx[c] /\ mode'[c] = mode[c]
            /\ op'[c] = op[c] /\ got'[c] = got[c] /\ held'[c] = held[c]

\* Time goes by and the watch of a call only grows.
LEMMA WatchGrows ==
  ASSUME Watch, NEW c \in Client, pc'[c] # "idle"
  PROVE  watch[c] \subseteq watch'[c]
  BY DEF Watch

\* A client keeps its invariant through the steps of others and of the clock.
LEMMA LOthersInv ==
  ASSUME LInv, Watch, now' >= now, now' \in Nat, NEW c \in Client, LSame(c)
  PROVE  LCallInv(c)'
  <1>1. LCallInv(c) /\ now \in Nat
    BY DEF LInv, LTypeOK
  <1>2. OpInv(c)' /\ HeldInv(c)'
    BY <1>1 DEF LCallInv, OpInv, HeldInv, LSame
  <1>3. /\ KeyOf(c)' = KeyOf(c) /\ Old(c)' = Old(c) /\ New(c)' = New(c) /\ Dirty(c)' = Dirty(c)
        /\ Open(c)' = Open(c)
    BY DEF LSame, KeyOf, Old, New, Dirty, Open
  <1>4. ASSUME NEW l \in Lease \cup {Absent}, Alive(l)' PROVE Alive(l)
    BY <1>1, <1>4, LeaseFacts DEF Alive, AliveAt
  <1>5. pc[c] # "idle" => watch[c] \subseteq watch'[c]
    BY WatchGrows DEF LSame
  <1>6. TxInv(c)'
    <2>1. Open(c) /\ Written(c) => Written(c)'
      BY <1>1, <1>3, <1>4 DEF LCallInv, TxInv, Written, LSame
    <2> QED BY <1>1, <1>3, <1>4, <1>5, <2>1 DEF LCallInv, TxInv, LSame, Open
  <1>7. GotInv(c)'
    <2>1. got[c] = Absent => ~Alive(Old(c))'
      <3>1. got[c] = Absent => Open(c) /\ ~Alive(Old(c))
        BY <1>1, LeaseFacts DEF LCallInv, GotInv, Open
      <3> QED BY <1>1, <1>3, <1>4, <3>1 DEF LCallInv, TxInv
    <2>2. Found(c)' = Found(c) /\ (Found(c) => Open(c))
      BY <1>1 DEF Found, LSame, LCallInv, GotInv, Open
    <2> QED BY <1>1, <1>3, <1>5, <2>1, <2>2 DEF LCallInv, GotInv, LSame, Open
  <1> QED BY <1>2, <1>6, <1>7 DEF LCallInv

\* A call that has just come back.
LEMMA ReturnedInv ==
  ASSUME LInv, NEW c \in Client, pc'[c] = "idle", got'[c] = NotRead, HeldInv(c)'
  PROVE  LCallInv(c)'
  BY LeaseFacts DEF LCallInv, OpInv, TxInv, GotInv, Open, Found

\* Before the first call nobody holds a lease and no entry is there.
LEMMA LInitInv == LInit => LInv
  <1> SUFFICES ASSUME LInit PROVE LInv
    OBVIOUS
  <1>1. IInv
    BY InitInv DEF LInit
  <1>2. LTypeOK
    BY <1>1, LockKeys, LeaseFacts DEF LInit, Init, LTypeOK, IInv, NoOp
  <1>3. ASSUME NEW c \in Client PROVE LCallInv(c)
    BY LeaseFacts DEF LInit, Init, LCallInv, OpInv, TxInv, GotInv, HeldInv, Open, Found
  <1> QED BY <1>1, <1>2, <1>3 DEF LInv

-----------------------------------------------------------------------------
(* One lemma per kind of step: the client that takes it keeps its          *)
(* invariant, the others are left alone.                                   *)

Kept(c) == /\ LTypeOK' /\ LCallInv(c)' /\ now' = now
           /\ \A d \in Client \ {c} : LSame(d)

\* The watch is a set of truth values, whatever the step.
LEMMA WatchType ==
  ASSUME LInv, Watch
  PROVE  watch' \in [Client -> SUBSET BOOLEAN]
  BY DEF Watch, LInv, LTypeOK, AliveAt

\* A call that begins: its closure has read and written nothing.
LEMMA StartKept ==
  ASSUME LInv, IInv', Watch, NEW c \in Client, NEW m, NEW name, NEW p \in PK,
         NEW o \in Owner \cup {Absent}, NEW tok \in Token \cup {Absent}, NEW t \in Nat,
         Start(c, m, name, p, o, tok, t),
         m \in {"ro", "rw"}, name \in {"TryLock", "Unlock", "RenewLock", "IsLocked"},
         name = "IsLocked" <=> m = "ro",
         name = "TryLock" => o \in Owner,
         name \in {"Unlock", "RenewLock"} => o \in Owner /\ tok \in Token /\ tok[1] = c,
         name = "RenewLock" => held[c][p] # Absent,
         held' = [held EXCEPT ![c][p] = IF name = "Unlock" THEN Absent ELSE @]
  PROVE  Kept(c)
  <1>1. /\ pc[c] = "idle" /\ pc'[c] = "begin" /\ mode'[c] = m
        /\ op'[c] = [name |-> name, pk |-> p, owner |-> o, token |-> tok, ttl |-> t]
        /\ got' = got /\ db' = db /\ now' = now
    BY DEF Start, Call, Move, LInv, LTypeOK, TypeOK, store
  <1>2. \A d \in Client \ {c} : LSame(d)
    BY DEF Start, Call, Move, LInv, LTypeOK, TypeOK, LSame
  <1>3. held' \in [Client -> [PK -> Lease \cup {Absent}]]
    BY DEF LInv, LTypeOK
  <1>4. LTypeOK'
    BY <1>1, <1>3, WatchType DEF Start, LInv, LTypeOK, IInv
  <1>5. OpInv(c)'
    <2>1. held'[c][p] = IF name = "Unlock" THEN Absent ELSE held[c][p]
      BY DEF LInv, LTypeOK
    <2> QED BY <1>1, <2>1 DEF OpInv
  <1>6. TxInv(c)' /\ GotInv(c)'
    BY <1>1, LeaseFacts DEF TxInv, GotInv, Open, Found, LInv, LCallInv
  <1>7. HeldInv(c)'
    BY DEF HeldInv, LInv, LTypeOK, LCallInv
  <1> QED BY <1>1, <1>2, <1>4, <1>5, <1>6, <1>7 DEF Kept, LCallInv

\* The same, for each of the four methods a client can call.
LEMMA StartsKept ==
  ASSUME LInv, IInv', Watch, NEW c \in Client, NEW p \in PK,
         \/ \E o \in Owner, t \in TTL : StartTryLock(c, p, o, t)
         \/ StartUnlock(c, p)
         \/ \E t \in TTL : StartRenew(c, p, t)
         \/ StartIsLocked(c, p)
  PROVE  Kept(c)
  <1>1. held[c][p] # Absent => /\ held[c][p].owner \in Owner /\ held[c][p].token \in Token
                               /\ held[c][p].token[1] = c
    BY LeaseFacts DEF LInv, LTypeOK, LCallInv, HeldInv
  <1>2. held = [held EXCEPT ![c][p] = @]
    BY DEF LInv, LTypeOK
  <1>3. ASSUME NEW o \in Owner, NEW t \in TTL, StartTryLock(c, p, o, t) PROVE Kept(c)
    BY <1>2, <1>3, StartKept, LockerAssumption DEF StartTryLock
  <1>4. ASSUME StartUnlock(c, p) PROVE Kept(c)
    BY <1>1, <1>4, StartKept DEF StartUnlock
  <1>5. ASSUME NEW t \in TTL, StartRenew(c, p, t) PROVE Kept(c)
    BY <1>1, <1>2, <1>5, StartKept, LockerAssumption DEF StartRenew
  <1>6. ASSUME StartIsLocked(c, p) PROVE Kept(c)
    BY <1>2, <1>6, StartKept DEF StartIsLocked
  <1> QED BY <1>3, <1>4, <1>5, <1>6

\* The closure's Get: what it finds was locked at a moment of the call.
LEMMA ReadLockKept ==
  ASSUME LInv, IInv', Watch, NEW c \in Client, ReadLock(c)
  PROVE  Kept(c)
  <1>1. /\ pc[c] = "run" /\ pc' = pc /\ mode' = mode /\ db' = db
        /\ op' = op /\ held' = held /\ now' = now /\ got[c] = NotRead
        /\ KeyOf(c) \in Key /\ LCallInv(c)
    BY LockKeys DEF ReadLock, Get, store, LInv, LCallInv, OpInv, KeyOf
  <1>2. Dirty(c) = {} /\ View(c, KeyOf(c)) = Old(c) /\ Old(c) \in Lease \cup {Absent}
    BY <1>1 DEF LCallInv, GotInv, TxInv, Open, View, Old
  <1>3. got' = [got EXCEPT ![c] = IF Alive(Old(c)) THEN Old(c) ELSE Absent]
    BY <1>2 DEF ReadLock
  <1>4. /\ tx'[c].snap = tx[c].snap /\ tx'[c].pending = tx[c].pending
        /\ mode[c] = "rw" => KeyOf(c) \in tx'[c].reads
        /\ \A d \in Client \ {c} : tx'[d] = tx[d]
    BY <1>1, <1>2 DEF ReadLock, Get, LInv, LTypeOK, TypeOK, TxType
  <1>5. \A d \in Client \ {c} : LSame(d)
    BY <1>1, <1>3, <1>4 DEF LSame, LInv, LTypeOK
  <1>6. LTypeOK'
    BY <1>1, <1>2, <1>3, WatchType DEF LInv, LTypeOK, IInv
  <1>7. /\ KeyOf(c)' = KeyOf(c) /\ Old(c)' = Old(c) /\ Dirty(c)' = {} /\ Alive(Old(c))' = Alive(Old(c))
        /\ watch[c] \subseteq watch'[c]
    BY <1>1, <1>2, <1>4, WatchGrows DEF KeyOf, Old, Dirty, Alive
  <1>8. OpInv(c)' /\ HeldInv(c)' /\ TxInv(c)'
    BY <1>1, <1>2, <1>7 DEF LCallInv, OpInv, HeldInv, TxInv, Open
  <1>9. GotInv(c)'
    <2>1. got'[c] = IF Alive(Old(c)) THEN Old(c) ELSE Absent
      BY <1>3 DEF LInv, LTypeOK
    <2>2. Alive(Old(c)) => TRUE \in watch[c]
      BY <1>1 DEF LCallInv, TxInv, Open
    <2>3. Old(c) # NotRead
      BY <1>2, LeaseFacts
    <2>4. Alive(Old(c)) => Old(c) # Absent
      BY DEF Alive, AliveAt
    <2> QED BY <1>1, <1>4, <1>7, <2>1, <2>2, <2>3, <2>4, LeaseFacts DEF GotInv, Found
  <1> QED BY <1>1, <1>5, <1>6, <1>8, <1>9 DEF Kept, LCallInv

\* TryLock's, RenewLock's and Unlock's write to the lock key.
LEMMA PutKept ==
  ASSUME LInv, IInv', Watch, NEW c \in Client, NEW x \in Lease \cup {Absent},
         Put(c, KeyOf(c), x), Unwritten(c), got[c] # NotRead,
         UNCHANGED <<now, op, got, held>>,
         \/ op[c].name = "TryLock" /\ ~Alive(Old(c)) /\ x \in Lease /\ x.token[1] = c
         \/ op[c].name = "Unlock" /\ Old(c) \in Lease /\ Old(c).token[1] = c /\ x = Absent
         \/ /\ op[c].name = "RenewLock" /\ Old(c) \in Lease /\ Old(c).token[1] = c
            /\ x \in Lease /\ x.owner = Old(c).owner /\ x.token = Old(c).token
  PROVE  Kept(c)
  <1>1. /\ pc[c] = "run" /\ pc' = pc /\ mode' = mode /\ mode[c] = "rw" /\ db' = db
        /\ KeyOf(c) \in Key /\ LCallInv(c)
    BY LockKeys DEF Put, store, LInv, LCallInv, OpInv, KeyOf
  <1>2. /\ tx'[c].snap = tx[c].snap /\ tx'[c].reads = tx[c].reads
        /\ tx'[c].pending = [tx[c].pending EXCEPT ![KeyOf(c)] = x]
        /\ \A d \in Client \ {c} : tx'[d] = tx[d]
    BY DEF Put, LInv, LTypeOK, TypeOK, TxType
  <1>3. \A d \in Client \ {c} : LSame(d)
    BY <1>1, <1>2 DEF LSame
  <1>4. LTypeOK'
    BY <1>1, WatchType DEF LInv, LTypeOK, IInv
  <1>5. /\ KeyOf(c)' = KeyOf(c) /\ Old(c)' = Old(c) /\ Alive(Old(c))' = Alive(Old(c))
        /\ watch[c] \subseteq watch'[c]
    BY <1>1, <1>2, WatchGrows DEF KeyOf, Old, Alive
  <1>6. New(c)' = x /\ Dirty(c)' = {KeyOf(c)}
    <2>1. tx[c].pending \in [Key -> Content \cup {Untouched}] /\ Dirty(c) = {}
      BY <1>1 DEF LInv, LTypeOK, TypeOK, TxType, LCallInv, TxInv, Open, Unwritten
    <2>2. x # Untouched
      BY LeaseFacts
    <2> QED BY <1>1, <1>2, <1>5, <2>1, <2>2 DEF New, Dirty
  <1>7. Written(c)'
    BY <1>5, <1>6 DEF Written
  <1>8. OpInv(c)' /\ HeldInv(c)' /\ GotInv(c)'
    BY <1>1, <1>2, <1>5 DEF LCallInv, OpInv, HeldInv, GotInv, Found
  <1>9. TxInv(c)'
    BY <1>1, <1>2, <1>5, <1>6, <1>7 DEF LCallInv, TxInv, GotInv, Open
  <1> QED BY <1>3, <1>4, <1>8, <1>9 DEF Kept, LCallInv

\* TryLock's, RenewLock's and Unlock's writes fit what their Get found.
LEMMA MethodWritesKept ==
  ASSUME LInv, IInv', Watch, NEW c \in Client,
         TryLockSet(c) \/ RenewSet(c) \/ UnlockDelete(c)
  PROVE  Kept(c)
  <1>1. pc[c] = "run" /\ LCallInv(c)
    BY DEF TryLockSet, RenewSet, UnlockDelete, WriteLease, Put, LInv
  <1>2. CASE TryLockSet(c)
    <2> DEFINE x == [owner |-> op[c].owner, token |-> <<c, commitTs>>, exp |-> now + op[c].ttl]
    <2>1. x \in Lease /\ x.token[1] = c
      BY <1>1, <1>2, LockerAssumption DEF TryLockSet, WriteLease, LCallInv, OpInv, LInv, LTypeOK,
         TypeOK, Lease, Token
    <2>2. ~Alive(Old(c)) /\ got[c] # NotRead /\ op[c].name = "TryLock"
      BY <1>1, <1>2, LeaseFacts DEF TryLockSet, LCallInv, GotInv
    <2> HIDE DEF x
    <2>3. Put(c, KeyOf(c), x) /\ Unwritten(c) /\ UNCHANGED <<now, op, got, held>>
      BY <1>2 DEF TryLockSet, WriteLease, x
    <2> QED BY <2>1, <2>2, <2>3, PutKept
  <1>3. Found(c) /\ Mine(c) => /\ got[c] = Old(c) /\ got[c] \in Lease /\ got[c] # NotRead
                               /\ got[c].token = op[c].token
    BY <1>1, LeaseFacts DEF LCallInv, GotInv, Found, Mine, LInv, LTypeOK
  <1>4. CASE RenewSet(c)
    <2> DEFINE x == [owner |-> got[c].owner, token |-> got[c].token, exp |-> now + op[c].ttl]
    <2>1. got[c] = Old(c) /\ got[c] \in Lease /\ got[c] # NotRead /\ got[c].token = op[c].token
      BY <1>3, <1>4 DEF RenewSet
    <2>2. op[c].name = "RenewLock" /\ op[c].token[1] = c
      BY <1>1, <1>4 DEF RenewSet, LCallInv, OpInv
    <2>3. x \in Lease /\ x.owner = Old(c).owner /\ x.token = Old(c).token
      BY <1>4, <2>1, LockerAssumption, LeaseFacts DEF RenewSet, WriteLease, LInv, LTypeOK, Lease
    <2> HIDE DEF x
    <2>4. Put(c, KeyOf(c), x) /\ Unwritten(c) /\ UNCHANGED <<now, op, got, held>>
      BY <1>4 DEF RenewSet, WriteLease, x
    <2> QED BY <2>1, <2>2, <2>3, <2>4, PutKept
  <1>5. CASE UnlockDelete(c)
    <2>1. got[c] = Old(c) /\ got[c] \in Lease /\ got[c] # NotRead /\ got[c].token = op[c].token
      BY <1>3, <1>5 DEF UnlockDelete
    <2>2. op[c].name = "Unlock" /\ op[c].token[1] = c
      BY <1>1, <1>5 DEF UnlockDelete, LCallInv, OpInv
    <2>3. Put(c, KeyOf(c), Absent) /\ Unwritten(c) /\ UNCHANGED <<now, op, got, held>>
      BY <1>5 DEF UnlockDelete
    <2> QED BY <2>1, <2>2, <2>3, PutKept
  <1> QED BY <1>2, <1>4, <1>5

\* A method that returns nil has written its entry or had none to write.
LEMMA MethodReturnsKept ==
  ASSUME LInv, IInv', Watch, NEW c \in Client, MethodReturns(c)
  PROVE  Kept(c)
  <1>1. /\ pc[c] = "run" /\ pc'[c] = "check" /\ LCallInv(c)
        /\ UNCHANGED <<db, mode, tx, now, op, got, held>>
        /\ \A d \in Client \ {c} : pc'[d] = pc[d]
    BY DEF MethodReturns, ClosureReturns, Move, store, LInv, LTypeOK, TypeOK
  <1>2. \A d \in Client \ {c} : LSame(d)
    BY <1>1 DEF LSame
  <1>3. LTypeOK'
    BY <1>1, WatchType DEF LInv, LTypeOK, IInv
  <1>4. /\ KeyOf(c)' = KeyOf(c) /\ Old(c)' = Old(c) /\ New(c)' = New(c) /\ Dirty(c)' = Dirty(c)
        /\ Alive(Old(c))' = Alive(Old(c)) /\ watch[c] \subseteq watch'[c]
    BY <1>1, WatchGrows DEF KeyOf, Old, New, Dirty, Alive
  <1>5. op[c].name \in {"TryLock", "RenewLock"} => Dirty(c) # {}
    BY DEF MethodReturns, Unwritten
  <1>6. Written(c) => Written(c)'
    BY <1>1, <1>4 DEF Written
  <1>7. OpInv(c)' /\ HeldInv(c)' /\ GotInv(c)'
    BY <1>1, <1>4 DEF LCallInv, OpInv, HeldInv, GotInv, Found
  <1>8. TxInv(c)'
    BY <1>1, <1>4, <1>5, <1>6 DEF LCallInv, TxInv, Open
  <1> QED BY <1>1, <1>2, <1>3, <1>7, <1>8 DEF Kept, LCallInv

\* A call that comes back: what it grants is a lease of its own.
LEMMA ReturnKept ==
  ASSUME LInv, IInv', Watch, NEW c \in Client, NEW from, NEW r,
         from # "idle", Return(c, from, r), Returned(c),
         \A p \in PK : db'[lockKeyForPK(p)] \in Lease \cup {Absent},
         r = "ok" /\ op[c].name \in {"TryLock", "RenewLock"} =>
            New(c) \in Lease /\ New(c).token[1] = c
  PROVE  Kept(c)
  <1>1. /\ pc[c] = from /\ pc'[c] = "idle" /\ result'[c] = r
        /\ \A d \in Client \ {c} : pc'[d] = pc[d] /\ tx'[d] = tx[d] /\ mode'[d] = mode[d]
    BY DEF Return, Move, LInv, LTypeOK, TypeOK
  <1>2. op[c].pk \in PK /\ LCallInv(c)
    BY <1>1 DEF LInv, LCallInv, OpInv
  <1>3. Granted(c) \in Lease \cup {Absent} /\ (Granted(c) # Absent => Granted(c).token[1] = c)
    <2> DEFINE l == held[c][op[c].pk]
    <2>1. l \in Lease \cup {Absent} /\ (l # Absent => l.token[1] = c)
      BY <1>2 DEF LCallInv, HeldInv, LInv, LTypeOK
    <2>2. op[c].name = "RenewLock" => l # Absent
      BY <1>1, <1>2 DEF LCallInv, OpInv
    <2>3. l # Absent => [l EXCEPT !.exp = 0] \in Lease /\ [l EXCEPT !.exp = 0].token = l.token
      BY <2>1, LockerAssumption DEF Lease
    <2>4. l # Absent => [l EXCEPT !.exp = 0] # Absent
      BY <2>3, LeaseFacts
    <2> HIDE DEF l
    <2>5. Granted(c) = IF result'[c] = "ok" /\ op[c].name \in {"TryLock", "RenewLock"} THEN New(c)
                       ELSE IF op[c].name = "RenewLock" THEN [l EXCEPT !.exp = 0] ELSE l
      BY DEF Granted, New, l
    <2> QED BY <1>1, <2>1, <2>2, <2>3, <2>4, <2>5
  <1>4. /\ held' \in [Client -> [PK -> Lease \cup {Absent}]] /\ HeldInv(c)'
        /\ \A d \in Client \ {c} : held'[d] = held[d]
    BY <1>2, <1>3 DEF Returned, LInv, LTypeOK, HeldInv, LCallInv
  <1>5. \A d \in Client \ {c} : LSame(d)
    BY <1>1, <1>4 DEF Returned, LSame, LInv, LTypeOK
  <1>6. /\ op' = [op EXCEPT ![c] = NoOp] /\ got' = [got EXCEPT ![c] = NotRead] /\ now' = now
    BY DEF Returned
  <1>7. LTypeOK'
    BY <1>4, <1>6, WatchType DEF LInv, LTypeOK, IInv, NoOp
  <1>8. LCallInv(c)'
    BY <1>1, <1>4, <1>6, ReturnedInv DEF LInv, LTypeOK
  <1> QED BY <1>5, <1>6, <1>7, <1>8 DEF Kept

\* A refusal or an error grants nothing.
LEMMA ClosureFailsKept ==
  ASSUME LInv, IInv', Watch, NEW c \in Client, MethodRefuses(c) \/ ClosureBreaks(c)
  PROVE  Kept(c)
  <1>1. Return(c, "run", "failed") /\ Returned(c) /\ db' = db
    BY DEF MethodRefuses, ClosureBreaks, ClosureFails, store
  <1> QED BY <1>1, ReturnKept DEF LInv, LTypeOK

\* The steps of the manager that stay inside the call.
LEMMA InsideKept ==
  ASSUME LInv, IInv', Watch, NEW c \in Client, LManage(c),
         \/ BeginAttempt(c) \/ WriteCheck(c) \/ CommitRetry(c) \/ BackoffElapses(c)
  PROVE  Kept(c)
  <1>1. /\ pc[c] # "idle" /\ pc'[c] # "idle" /\ db' = db /\ mode' = mode
        /\ op' = op /\ held' = held /\ now' = now
        /\ got' = [got EXCEPT ![c] = NotRead]
        /\ \A d \in Client \ {c} : pc'[d] = pc[d] /\ tx'[d] = tx[d] /\ got'[d] = got[d]
    BY DEF LManage, BeginAttempt, WriteCheck, CommitRetry, BackoffElapses, Move, store, LInv,
       LTypeOK, TypeOK
  <1>2. \A d \in Client \ {c} : LSame(d)
    BY <1>1 DEF LSame
  <1>3. LTypeOK'
    BY <1>1, WatchType DEF LInv, LTypeOK, IInv
  <1>4. LCallInv(c) /\ op[c].pk \in PK /\ KeyOf(c) \in Key /\ KeyOf(c)' = KeyOf(c) /\ got'[c] = NotRead
        /\ watch[c] \subseteq watch'[c]
    BY <1>1, LockKeys, WatchGrows DEF LInv, LCallInv, OpInv, KeyOf, LTypeOK
  <1>5. OpInv(c)' /\ HeldInv(c)'
    BY <1>1, <1>4 DEF LCallInv, OpInv, HeldInv
  <1>6. CASE BeginAttempt(c)
    <2>1. /\ pc'[c] = "run" /\ tx'[c].snap = db /\ tx'[c].pending = [k \in Key |-> Untouched]
      BY <1>6 DEF BeginAttempt, Move, LInv, LTypeOK, TypeOK, Discarded
    <2>2. Dirty(c)' = {} /\ Old(c)' = db[KeyOf(c)] /\ db[KeyOf(c)] \in Lease \cup {Absent}
      BY <1>4, <2>1 DEF Dirty, Old, KeyOf, LInv, LTypeOK
    <2>3. Alive(Old(c))' => TRUE \in watch'[c]
      <3>1. watch'[c] = watch[c] \cup {AliveAt(db'[lockKeyForPK(op'[c].pk)], now')}
        BY <1>1 DEF Watch
      <3>2. Alive(Old(c))' = AliveAt(db'[lockKeyForPK(op'[c].pk)], now')
        BY <1>1, <2>2 DEF Alive, KeyOf
      <3> QED BY <3>1, <3>2
    <2>4. TxInv(c)' /\ GotInv(c)'
      BY <1>4, <2>1, <2>2, <2>3, LeaseFacts DEF TxInv, GotInv, Open, Found
    <2> QED BY <1>1, <1>2, <1>3, <1>5, <2>4 DEF Kept, LCallInv
  <1>7. CASE WriteCheck(c)
    <2>1. pc[c] = "check" /\ pc'[c] = "commit" /\ tx' = tx
      BY <1>7 DEF WriteCheck, Move, LInv, LTypeOK, TypeOK
    <2>2. /\ Old(c)' = Old(c) /\ New(c)' = New(c) /\ Dirty(c)' = Dirty(c)
          /\ Alive(Old(c))' = Alive(Old(c))
      BY <1>1, <1>4, <2>1 DEF Old, New, Dirty, Alive, KeyOf
    <2>3. Written(c) => Written(c)'
      BY <1>1, <2>2 DEF Written
    <2>4. TxInv(c)' /\ GotInv(c)'
      BY <1>1, <1>4, <2>1, <2>2, <2>3, LeaseFacts DEF LCallInv, TxInv, GotInv, Open, Found
    <2> QED BY <1>1, <1>2, <1>3, <1>5, <2>4 DEF Kept, LCallInv
  <1>8. CASE CommitRetry(c) \/ BackoffElapses(c)
    <2>1. pc'[c] \in {"sleep", "begin"}
      BY <1>8 DEF CommitRetry, BackoffElapses, Move, LInv, LTypeOK, TypeOK
    <2>2. TxInv(c)' /\ GotInv(c)'
      BY <1>4, <2>1, LeaseFacts DEF TxInv, GotInv, Open, Found
    <2> QED BY <1>1, <1>2, <1>3, <1>5, <2>2 DEF Kept, LCallInv
  <1> QED BY <1>6, <1>7, <1>8

\* A commit writes the operation's lock entry and nothing else.
LEMMA CommitEffect ==
  ASSUME LInv, NEW c \in Client, pc[c] = "commit", Dirty(c) # {},
         Install(tx[c].pending, Dirty(c)) \/ Install(db, Dirty(c))
  PROVE  /\ Dirty(c) = {KeyOf(c)} /\ KeyOf(c) \in tx[c].reads /\ op[c].pk \in PK /\ Written(c)
         /\ New(c) \in Lease \cup {Absent}
         /\ \/ db' = [db EXCEPT ![KeyOf(c)] = New(c)]
            \/ db' = db
         /\ Install(tx[c].pending, Dirty(c)) => db' = [db EXCEPT ![KeyOf(c)] = New(c)]
         /\ \A p \in PK : db'[lockKeyForPK(p)] \in Lease \cup {Absent}
  <1>1. /\ Dirty(c) = {KeyOf(c)} /\ KeyOf(c) \in tx[c].reads /\ op[c].pk \in PK /\ Written(c)
    <2>1. TxInv(c) /\ OpInv(c) /\ Open(c)
      BY DEF LInv, LCallInv, Open
    <2> QED BY <2>1 DEF TxInv, OpInv
  <1>2. New(c) \in Lease \cup {Absent}
    BY <1>1 DEF Written
  <1>3. db \in [Key -> Content] /\ KeyOf(c) \in Key
    BY <1>1, LockKeys DEF LInv, LTypeOK, TypeOK, KeyOf
  <1>4. Install(tx[c].pending, Dirty(c)) => db' = [db EXCEPT ![KeyOf(c)] = New(c)]
    BY <1>1, <1>3 DEF Install, New
  <1>5. Install(db, Dirty(c)) => db' = db
    BY <1>3 DEF Install
  <1>6. \A p \in PK : db'[lockKeyForPK(p)] \in Lease \cup {Absent}
    BY <1>2, <1>3, <1>4, <1>5, LockKeys DEF LInv, LTypeOK
  <1> QED BY <1>1, <1>2, <1>4, <1>5, <1>6

\* The steps of the manager that end the call.
LEMMA EndKept ==
  ASSUME LInv, IInv', Watch, NEW c \in Client, LManage(c),
         ~(BeginAttempt(c) \/ WriteCheck(c) \/ CommitRetry(c) \/ BackoffElapses(c))
  PROVE  Kept(c)
  <1>1. Manage(c) /\ (pc'[c] = "idle" => Returned(c))
    BY DEF LManage
  <1>2. ASSUME NEW from \in {"begin", "check", "commit", "sleep"}, NEW r \in Results, Return(c, from, r)
        PROVE  Returned(c) /\ pc[c] = from
    BY <1>1, <1>2 DEF Return, Move, LInv, LTypeOK, TypeOK
  <1>3. \A p \in PK : db[lockKeyForPK(p)] \in Lease \cup {Absent}
    BY DEF LInv, LTypeOK
  <1>4. CASE BeginCancelled(c) \/ WriteCancelled(c) \/ CommitGivesUp(c) \/ CommitRefused(c)
             \/ BackoffCancelled(c)
    BY <1>2, <1>3, <1>4, ReturnKept DEF BeginCancelled, WriteCancelled, CommitGivesUp,
       CommitRefused, BackoffCancelled, store, Results
  <1>5. CASE ReadDone(c)
    <2>1. op[c].name = "IsLocked"
      BY <1>5 DEF ReadDone, Return, Move, LInv, LCallInv, OpInv
    <2> QED BY <1>2, <1>3, <1>5, <2>1, ReturnKept DEF ReadDone, store, Results
  <1>6. CASE CommitEmpty(c)
    <2>1. op[c].name \notin {"TryLock", "RenewLock"}
      BY <1>6 DEF CommitEmpty, Return, Move, LInv, LCallInv, TxInv, Open
    <2> QED BY <1>2, <1>3, <1>6, <2>1, ReturnKept DEF CommitEmpty, store, Results
  <1>7. CASE CommitWrites(c)
    <2>1. pc[c] = "commit" /\ Dirty(c) # {} /\ Install(tx[c].pending, Dirty(c)) /\ Return(c, "commit", "ok")
      BY <1>7 DEF CommitWrites, Return, Move
    <2>2. Written(c) /\ \A p \in PK : db'[lockKeyForPK(p)] \in Lease \cup {Absent}
      BY <2>1, CommitEffect
    <2>3. op[c].name \in {"TryLock", "RenewLock"} => New(c) \in Lease /\ New(c).token[1] = c
      BY <2>2 DEF Written
    <2> QED BY <1>2, <2>1, <2>2, <2>3, ReturnKept DEF Results
  <1>8. CASE CommitLost(c)
    <2>1. /\ pc[c] = "commit" /\ Dirty(c) # {} /\ Return(c, "commit", "lost")
          /\ Install(tx[c].pending, Dirty(c)) \/ Install(db, Dirty(c))
      BY <1>8 DEF CommitLost, Return, Move
    <2>2. \A p \in PK : db'[lockKeyForPK(p)] \in Lease \cup {Absent}
      BY <2>1, CommitEffect
    <2> QED BY <1>2, <2>1, <2>2, ReturnKept DEF Results
  <1> QED BY <1>1, <1>4, <1>5, <1>6, <1>7, <1>8 DEF Manage, Attempt, Check, Commit, Backoff

(* Every step of the locker keeps its inductive invariant: one case per     *)
(* action, for the client that moves and for the others.                   *)
LEMMA LNextInv == LInv /\ [LNext]_lvars => LInv'
  <1> SUFFICES ASSUME LInv, [LNext]_lvars PROVE LInv'
    OBVIOUS
  <1>1. IInv'
    BY LockerRefinesManager, NextInv DEF LInv
  <1>2. now \in Nat
    BY DEF LInv, LTypeOK
  <1>3. ASSUME NEW c \in Client, Kept(c), Watch PROVE LInv'
    <2>1. ASSUME NEW d \in Client \ {c} PROVE LCallInv(d)'
      BY <1>2, <1>3, <2>1, LOthersInv DEF Kept
    <2> QED BY <1>1, <1>3, <2>1 DEF Kept, LInv
  <1>4. ASSUME Watch, LTypeOK', now' \in Nat, now' >= now, \A c \in Client : LSame(c) PROVE LInv'
    BY <1>1, <1>4, LOthersInv DEF LInv
  <1>5. CASE UNCHANGED lvars
    <2>1. UNCHANGED <<db, pc, mode, tx, now, op, got, held, watch>>
      BY <1>5 DEF lvars, vars, store
    <2>2. LTypeOK'
      BY <1>1, <2>1 DEF LInv, LTypeOK, IInv
    <2>3. ASSUME NEW c \in Client PROVE LCallInv(c)'
      <3>1. LCallInv(c)
        BY DEF LInv
      <3>2. /\ KeyOf(c)' = KeyOf(c) /\ Old(c)' = Old(c) /\ New(c)' = New(c) /\ Dirty(c)' = Dirty(c)
            /\ Alive(Old(c))' = Alive(Old(c))
        BY <2>1 DEF KeyOf, Old, New, Dirty, Alive
      <3>3. Written(c)' = Written(c)
        BY <2>1, <3>2 DEF Written
      <3> QED BY <2>1, <3>1, <3>2, <3>3 DEF LCallInv, OpInv, TxInv, GotInv, HeldInv, Open, Found
    <2> QED BY <1>1, <2>2, <2>3 DEF LInv
  <1>6. ASSUME Watch, NEW c \in Client, NEW p \in PK,
               \/ \E o \in Owner, t \in TTL : StartTryLock(c, p, o, t)
               \/ StartUnlock(c, p)
               \/ \E t \in TTL : StartRenew(c, p, t)
               \/ StartIsLocked(c, p)
        PROVE  LInv'
    BY <1>1, <1>3, <1>6, StartsKept
  <1>7. ASSUME Watch, NEW c \in Client, Method(c) PROVE LInv'
    BY <1>1, <1>3, <1>7, ReadLockKept, MethodWritesKept, MethodReturnsKept, ClosureFailsKept DEF Method
  <1>8. ASSUME Watch, NEW c \in Client, LManage(c) PROVE LInv'
    BY <1>1, <1>3, <1>8, InsideKept, EndKept
  <1>9. ASSUME Watch, NEW c \in Client, LCancel(c) PROVE LInv'
    <2>1. UNCHANGED <<db, pc, tx, mode, op, got, held, now>>
      BY <1>9 DEF LCancel, Cancel, store
    <2>2. LTypeOK'
      BY <1>1, <1>9, <2>1, WatchType DEF LInv, LTypeOK, IInv
    <2> QED BY <1>2, <1>4, <1>9, <2>1, <2>2 DEF LSame
  <1>10. ASSUME Watch, NEW c \in Client, Abandon(c) PROVE LInv'
    <2>1. /\ UNCHANGED <<db, pc, tx, mode, op, got, now>> /\ pc[c] = "idle"
          /\ held' = [held EXCEPT ![c] = [p \in PK |-> Absent]]
      BY <1>10 DEF Abandon, vars, store
    <2>2. LTypeOK'
      BY <1>1, <1>10, <2>1, WatchType DEF LInv, LTypeOK, IInv
    <2>3. HeldInv(c)' /\ got[c] = NotRead
      BY <2>1 DEF HeldInv, LInv, LTypeOK, LCallInv, GotInv
    <2>4. LCallInv(c)'
      BY <2>1, <2>3, ReturnedInv
    <2> QED BY <1>3, <1>10, <2>1, <2>2, <2>4 DEF Kept, LSame, LInv, LTypeOK
  <1>11. ASSUME Watch, Tick PROVE LInv'
    <2>1. UNCHANGED <<db, pc, tx, mode, op, got, held>> /\ now' = now + 1
      BY <1>11 DEF Tick, vars, store
    <2>2. LTypeOK'
      BY <1>1, <1>2, <1>11, <2>1, WatchType DEF LInv, LTypeOK, IInv
    <2> QED BY <1>2, <1>4, <1>11, <2>1, <2>2 DEF LSame
  <1> QED BY <1>5, <1>6, <1>7, <1>8, <1>9, <1>10, <1>11 DEF LNext, Step

(* The inductive invariant of the locker: the manager's, the types, and per  *)
(* call what it read, wrote and was granted.                               *)
THEOREM LInvariance == LSpec => []LInv
  BY LInitInv, LNextInv, PTL DEF LSpec

(* Every variable of the locker keeps its type; in particular a client     *)
(* never goes by anything but a lease it was granted.                      *)
THEOREM LockerTypeCorrect == LSpec => []LTypeOK
  BY LInvariance, PTL DEF LInv

(* ErrLocked and a TRUE from IsLockedTx are about a lock that was there    *)
(* after the call began, with or without conflict detection.               *)
THEOREM RefusalsAreTrue == LSpec => []RefusedWhenLocked
  <1>1. LInv => RefusedWhenLocked
    BY DEF LInv, LCallInv, GotInv, RefusedWhenLocked
  <1> QED BY <1>1, LInvariance, PTL

-----------------------------------------------------------------------------
(* Mutual exclusion.                                                       *)

\* A lease that nobody can go by any more.
Over(l) == l = Absent \/ l.exp = 0

\* What is left of a step that commits no lock entry: leases are only dropped.
LEMMA NoCommit ==
  ASSUME LInv, LNext, \A c \in Client : ~(LManage(c) /\ (CommitWrites(c) \/ CommitLost(c)))
  PROVE  /\ db' = db
         /\ \A c \in Client, p \in PK : held'[c][p] = held[c][p] \/ Over(held'[c][p])
         /\ now' \in {now, now + 1}
  <1>1. ASSUME NEW c \in Client, NEW p \in PK,
               \/ \E o \in Owner, t \in TTL : StartTryLock(c, p, o, t)
               \/ StartUnlock(c, p)
               \/ \E t \in TTL : StartRenew(c, p, t)
               \/ StartIsLocked(c, p)
        PROVE  db' = db /\ now' = now /\ (held' = held \/ \E l : Over(l) /\ held' = [held EXCEPT ![c][p] = l])
    BY <1>1 DEF StartTryLock, StartUnlock, StartRenew, StartIsLocked, Start, Call, store, Over
  <1>2. ASSUME NEW c \in Client, Returned(c), pc[c] # "idle",
               result'[c] = "ok" => op[c].name \notin {"TryLock", "RenewLock"}
        PROVE  now' = now /\ (held' = held \/ \E l : Over(l) /\ held' = [held EXCEPT ![c][op[c].pk] = l])
    <2>1. held' = [held EXCEPT ![c][op[c].pk] = Granted(c)] /\ now' = now
      BY <1>2 DEF Returned
    <2>2. Over(Granted(c)) \/ Granted(c) = held[c][op[c].pk]
      <3>1. op[c].name = "RenewLock" => held[c][op[c].pk] \in Lease
        BY <1>2 DEF LInv, LTypeOK, LCallInv, OpInv
      <3> QED BY <1>2, <3>1 DEF Granted, Over, Lease
    <2>3. op[c].pk \in PK
      BY <1>2 DEF LInv, LCallInv, OpInv
    <2> QED BY <2>1, <2>2, <2>3 DEF LInv, LTypeOK
  <1>3. ASSUME NEW c \in Client, Method(c)
        PROVE  db' = db /\ now' = now /\ (held' = held \/ \E l : Over(l) /\ held' = [held EXCEPT ![c][op[c].pk] = l])
    <2>1. CASE ReadLock(c) \/ TryLockSet(c) \/ RenewSet(c) \/ UnlockDelete(c) \/ MethodReturns(c)
      BY <2>1 DEF ReadLock, TryLockSet, RenewSet, UnlockDelete, MethodReturns, WriteLease, Get, Put,
         ClosureReturns, store
    <2>2. CASE MethodRefuses(c) \/ ClosureBreaks(c)
      <3>1. Returned(c) /\ db' = db /\ pc[c] = "run" /\ result'[c] = "failed"
        BY <2>2 DEF MethodRefuses, ClosureBreaks, ClosureFails, Return, Move, store, LInv, LTypeOK, TypeOK
      <3> QED BY <1>2, <3>1
    <2> QED BY <1>3, <2>1, <2>2 DEF Method
  <1>4. ASSUME NEW c \in Client, LManage(c)
        PROVE  db' = db /\ now' = now /\ (held' = held \/ \E l : Over(l) /\ held' = [held EXCEPT ![c][op[c].pk] = l])
    <2>1. Manage(c) /\ ~CommitWrites(c) /\ ~CommitLost(c)
      BY <1>4 DEF LManage
    <2>2. db' = db /\ pc[c] # "idle"
      BY <2>1 DEF Manage, Attempt, BeginAttempt, BeginCancelled, Check, ReadDone, WriteCheck,
         WriteCancelled, Commit, CommitEmpty, CommitRetry, CommitGivesUp, CommitRefused, Backoff,
         BackoffElapses, BackoffCancelled, Return, Move, store
    <2>3. CASE pc'[c] # "idle"
      BY <1>4, <2>2, <2>3 DEF LManage
    <2>4. CASE pc'[c] = "idle"
      <3>1. result'[c] = "ok" => ReadDone(c) \/ CommitEmpty(c)
        BY <2>1, <2>4 DEF Manage, Attempt, BeginAttempt, BeginCancelled, Check, WriteCheck,
         WriteCancelled, Commit, CommitRetry, CommitGivesUp, CommitRefused, Backoff,
         BackoffElapses, BackoffCancelled, Return, Move, LInv, LTypeOK, TypeOK
      <3>2. ReadDone(c) => op[c].name = "IsLocked"
        BY DEF ReadDone, Return, Move, LInv, LCallInv, OpInv
      <3>3. CommitEmpty(c) => op[c].name \notin {"TryLock", "RenewLock"}
        BY DEF CommitEmpty, Return, Move, LInv, LCallInv, TxInv, Open
      <3>4. Returned(c)
        BY <1>4, <2>4 DEF LManage
      <3> QED BY <1>2, <2>2, <3>1, <3>2, <3>3, <3>4
    <2> QED BY <2>3, <2>4
  <1>5. ASSUME NEW c \in Client, Abandon(c)
        PROVE  db' = db /\ now' = now /\ held' = [held EXCEPT ![c] = [p \in PK |-> Absent]]
    BY <1>5 DEF Abandon, vars, store
  <1>6. ASSUME NEW c \in Client, LCancel(c) PROVE db' = db /\ now' = now /\ held' = held
    BY <1>6 DEF LCancel, Cancel, store
  <1>7. Tick => db' = db /\ now' = now + 1 /\ held' = held
    BY DEF Tick, vars, store
  <1>8. held \in [Client -> [PK -> Lease \cup {Absent}]]
    BY DEF LInv, LTypeOK
  <1>9. ASSUME NEW c \in Client, NEW p \in PK, NEW l, Over(l), held' = [held EXCEPT ![c][p] = l]
        PROVE  \A d \in Client, q \in PK : held'[d][q] = held[d][q] \/ Over(held'[d][q])
    BY <1>8, <1>9
  <1>10. ASSUME NEW c \in Client, held' = [held EXCEPT ![c] = [p \in PK |-> Absent]]
         PROVE  \A d \in Client, q \in PK : held'[d][q] = held[d][q] \/ Over(held'[d][q])
    BY <1>8, <1>10 DEF Over
  <1>11. ASSUME NEW c \in Client, Method(c) \/ LManage(c) PROVE held' = held \/ op[c].pk \in PK
    <2>1. pc[c] # "idle"
      BY <1>11 DEF Method, ReadLock, TryLockSet, WriteLease, RenewSet, UnlockDelete, MethodReturns,
         MethodRefuses, ClosureBreaks, Get, Put, ClosureReturns, ClosureFails, Return, Move,
         LManage, Manage, Attempt, BeginAttempt, BeginCancelled, Check, ReadDone, WriteCheck,
         WriteCancelled, Commit, CommitEmpty, CommitWrites, CommitRetry, CommitGivesUp,
         CommitRefused, CommitLost, Backoff, BackoffElapses, BackoffCancelled
    <2> QED BY <2>1 DEF LInv, LCallInv, OpInv
  <1> QED BY <1>1, <1>3, <1>4, <1>5, <1>6, <1>7, <1>9, <1>10, <1>11 DEF LNext, Step

\* A step that does commit one finds the store as the operation read it.
LEMMA LockCommit ==
  ASSUME DetectConflicts, LInv, NEW c \in Client, LManage(c), CommitWrites(c) \/ CommitLost(c)
  PROVE  /\ op[c].pk \in PK /\ Written(c) /\ db[KeyOf(c)] = Old(c) /\ KeyOf(c) \in Key
         /\ \/ db' = [db EXCEPT ![KeyOf(c)] = New(c)]
            \/ db' = db /\ result'[c] = "lost"
         /\ held' = [held EXCEPT ![c][op[c].pk] = Granted(c)]
         /\ now' = now /\ result'[c] \in {"ok", "lost"} /\ pc[c] = "commit"
  <1>1. /\ pc[c] = "commit" /\ pc'[c] = "idle" /\ Dirty(c) # {} /\ ~Conflict(c)
        /\ \/ Install(tx[c].pending, Dirty(c)) /\ result'[c] \in {"ok", "lost"}
           \/ Install(db, Dirty(c)) /\ result'[c] = "lost"
    BY DEF CommitWrites, CommitLost, Return, Move, LInv, LTypeOK, TypeOK
  <1>2. /\ KeyOf(c) \in tx[c].reads /\ op[c].pk \in PK /\ Written(c) /\ KeyOf(c) \in Key
    BY <1>1, CommitEffect, LockKeys DEF KeyOf
  <1>3. db[KeyOf(c)] = Old(c)
    <2>1. ver[KeyOf(c)] \in Nat /\ tx[c].readTs \in Nat
      BY <1>2 DEF LInv, LTypeOK, TypeOK, TxType
    <2>2. ver[KeyOf(c)] <= tx[c].readTs
      BY <1>1, <1>2, <2>1 DEF Conflict
    <2> QED BY <1>1, <1>2, <2>2 DEF LInv, IInv, SnapshotCurrent, Old
  <1>4. \/ db' = [db EXCEPT ![KeyOf(c)] = New(c)]
        \/ db' = db /\ result'[c] = "lost"
    <2>1. Install(db, Dirty(c)) => db' = db
      BY DEF Install, LInv, LTypeOK, TypeOK
    <2> QED BY <1>1, <2>1, CommitEffect
  <1> QED BY <1>1, <1>2, <1>3, <1>4 DEF LManage, Returned

(* A step keeps each live lease the stored one: a commit that overwrote it   *)
(* would have read the entry as free, and Conflict refuses it.             *)
LEMMA HolderNext == DetectConflicts /\ LInv /\ LiveHolderOwnsKey /\ [LNext]_lvars => LiveHolderOwnsKey'
  <1> SUFFICES ASSUME DetectConflicts, LInv, LiveHolderOwnsKey, [LNext]_lvars,
                      NEW d \in Client, NEW p \in PK, Alive(held[d][p])'
               PROVE  db'[lockKeyForPK(p)] = held'[d][p]
    BY DEF LiveHolderOwnsKey
  <1>1. held[d][p] \in Lease \cup {Absent} /\ now \in Nat
    BY DEF LInv, LTypeOK
  <1>2. CASE UNCHANGED lvars
    BY <1>2 DEF lvars, vars, store, LiveHolderOwnsKey, Alive
  <1>3. CASE LNext /\ \A c \in Client : ~(LManage(c) /\ (CommitWrites(c) \/ CommitLost(c)))
    <2>1. db' = db /\ held'[d][p] = held[d][p] /\ now' \in {now, now + 1}
      <3>1. db' = db /\ (held'[d][p] = held[d][p] \/ Over(held'[d][p])) /\ now' \in {now, now + 1}
        BY <1>3, NoCommit
      <3> QED BY <1>1, <3>1 DEF Alive, AliveAt, Over
    <2>2. Alive(held[d][p])
      BY <1>1, <2>1, LeaseFacts DEF Alive, AliveAt
    <2> QED BY <2>1, <2>2 DEF LiveHolderOwnsKey
  <1>4. ASSUME NEW c \in Client, LManage(c), CommitWrites(c) \/ CommitLost(c)
        PROVE  db'[lockKeyForPK(p)] = held'[d][p]
    <2> DEFINE q == op[c].pk
    <2>1. /\ q \in PK /\ Written(c) /\ db[KeyOf(c)] = Old(c) /\ KeyOf(c) \in Key
          /\ \/ db' = [db EXCEPT ![KeyOf(c)] = New(c)]
             \/ db' = db /\ result'[c] = "lost"
          /\ held' = [held EXCEPT ![c][q] = Granted(c)]
          /\ now' = now /\ result'[c] \in {"ok", "lost"} /\ pc[c] = "commit"
      BY <1>4, LockCommit
    <2>2. /\ held \in [Client -> [PK -> Lease \cup {Absent}]] /\ db \in [Key -> Content]
          /\ lockKeyForPK(p) \in Key /\ KeyOf(c) = lockKeyForPK(q)
      BY LockKeys DEF LInv, LTypeOK, TypeOK, KeyOf
    <2>3. CASE p # q
      <3>1. held'[d][p] = held[d][p] /\ db'[lockKeyForPK(p)] = db[lockKeyForPK(p)]
        BY <2>1, <2>2, <2>3, LockKeys
      <3> QED BY <2>1, <3>1 DEF LiveHolderOwnsKey, Alive
    <2>4. CASE p = q /\ d # c
      <3>1. held'[d][p] = held[d][p] /\ Alive(held[d][p])
        BY <2>1, <2>2, <2>4 DEF Alive
      <3>2. Old(c) = held[d][p]
        BY <2>1, <2>2, <2>4, <3>1 DEF LiveHolderOwnsKey
      <3>3. Alive(Old(c)) /\ Old(c).token[1] = d
        BY <3>1, <3>2 DEF LInv, LCallInv, HeldInv, Alive, AliveAt
      <3>4. FALSE
        BY <2>1, <2>4, <3>3 DEF Written
      <3> QED BY <3>4
    <2>5. CASE p = q /\ d = c
      <3>1. held'[c][q] = Granted(c) /\ Alive(Granted(c))
        BY <2>1, <2>2, <2>5 DEF Alive
      <3>2. CASE result'[c] = "ok" /\ op[c].name \in {"TryLock", "RenewLock"}
        <4>1. Granted(c) = New(c) /\ db' = [db EXCEPT ![KeyOf(c)] = New(c)]
          BY <2>1, <3>2 DEF Granted, New
        <4> QED BY <2>1, <2>2, <2>5, <3>1, <4>1
      <3>3. CASE ~(result'[c] = "ok" /\ op[c].name \in {"TryLock", "RenewLock"})
        <4>1. Granted(c) = held[c][q] /\ op[c].name # "RenewLock"
          <5>1. op[c].name = "RenewLock" => held[c][q] \in Lease
            BY <2>1, <2>2 DEF LInv, LCallInv, OpInv
          <5>2. op[c].name = "RenewLock" => Granted(c).exp = 0
            BY <3>3, <5>1 DEF Granted, Lease
          <5> QED BY <1>1, <3>1, <3>3, <5>2 DEF Granted, Alive, AliveAt
        <4>2. held[c][q] = Old(c)
          BY <2>1, <2>2, <3>1, <4>1 DEF LiveHolderOwnsKey
        <4>3. op[c].name # "Unlock"
          BY <2>1, <3>1, <4>1 DEF LInv, LCallInv, OpInv, Alive, AliveAt
        <4>4. op[c].name = "TryLock" /\ ~Alive(Old(c))
          BY <2>1, <4>1, <4>3 DEF Written
        <4> QED BY <3>1, <4>1, <4>2, <4>4
      <3> QED BY <3>2, <3>3
    <2> QED BY <2>3, <2>4, <2>5
  <1> QED BY <1>2, <1>3, <1>4

(* With DetectConflicts, for any clients, keys and TTLs, two clients never *)
(* go by a live lease on the same key: each live lease is the stored one.  *)
THEOREM MutualExclusion ==
  ASSUME DetectConflicts
  PROVE  LSpec => []LiveHolderOwnsKey
  <1>1. LInit => LiveHolderOwnsKey
    BY DEF LInit, LiveHolderOwnsKey, Alive, AliveAt
  <1>2. LInv /\ LiveHolderOwnsKey /\ [LNext]_lvars => LiveHolderOwnsKey'
    BY HolderNext
  <1> QED BY <1>1, <1>2, LInvariance, PTL DEF LSpec

-----------------------------------------------------------------------------
(* The lock entries implement LeaseLock.                                   *)

\* The lease of every key, as the refinement maps it.
lease == [p \in PK |-> db[lockKeyForPK(p)]]

\* One step of the locker is one of LeaseLock, or changes neither a lease nor
\* the clock.
LEMMA LockStep ==
  ASSUME DetectConflicts, LInv, LNext
  PROVE  Lock!Next \/ (lease' = lease /\ now' = now)
  <1>1. CASE \A c \in Client : ~(LManage(c) /\ (CommitWrites(c) \/ CommitLost(c)))
    <2>1. lease' = lease /\ now' \in {now, now + 1}
      BY <1>1, NoCommit DEF lease
    <2> QED BY <2>1 DEF Lock!Next, Lock!Tick, lease
  <1>2. ASSUME NEW c \in Client, LManage(c), CommitWrites(c) \/ CommitLost(c)
        PROVE  Lock!Next \/ (lease' = lease /\ now' = now)
    <2> DEFINE q == op[c].pk
    <2>1. /\ q \in PK /\ Written(c) /\ db[KeyOf(c)] = Old(c) /\ KeyOf(c) \in Key
          /\ \/ db' = [db EXCEPT ![KeyOf(c)] = New(c)]
             \/ db' = db
          /\ now' = now
      BY <1>2, LockCommit
    <2>2. db \in [Key -> Content] /\ KeyOf(c) = lockKeyForPK(q)
      BY DEF LInv, LTypeOK, TypeOK, KeyOf
    <2>3. CASE db' = db
      BY <2>1, <2>3 DEF lease
    <2>4. CASE db' = [db EXCEPT ![KeyOf(c)] = New(c)]
      <3>1. lease' = [lease EXCEPT ![q] = New(c)] /\ lease[q] = Old(c)
        BY <2>1, <2>2, <2>4, LockKeys DEF lease
      <3>2. CASE op[c].name = "TryLock"
        <4>1. ~Alive(Old(c)) /\ New(c) \in Lease /\ New(c).token[1] = c
          BY <2>1, <3>2 DEF Written
        <4>2. Lock!Acquire(c, q, New(c))
          BY <2>1, <3>1, <4>1 DEF Lock!Acquire, Lock!Live, Alive, AliveAt, lease
        <4> QED BY <2>1, <4>1, <4>2 DEF Lock!Next
      <3>3. CASE op[c].name = "Unlock"
        <4>1. Old(c) \in Lease /\ Old(c).token[1] = c /\ New(c) = Absent
          BY <2>1, <3>3 DEF Written
        <4>2. Lock!Release(c, q)
          BY <2>1, <3>1, <4>1, LeaseFacts DEF Lock!Release, lease
        <4> QED BY <2>1, <4>2 DEF Lock!Next
      <3>4. CASE op[c].name = "RenewLock"
        <4>1. /\ Old(c) \in Lease /\ Old(c).token[1] = c
              /\ New(c) \in Lease /\ New(c).owner = Old(c).owner /\ New(c).token = Old(c).token
          BY <2>1, <3>4 DEF Written
        <4>2. Lock!Extend(c, q, New(c))
          BY <2>1, <3>1, <4>1, LeaseFacts DEF Lock!Extend, lease
        <4> QED BY <2>1, <4>1, <4>2 DEF Lock!Next
      <3> QED BY <2>1, <3>2, <3>3, <3>4 DEF Written
    <2> QED BY <2>1, <2>3, <2>4
  <1> QED BY <1>1, <1>2

(* With DetectConflicts, TryLock, Unlock and RenewLock over the retried    *)
(* transactions implement LeaseLock: a lease is taken only when no live    *)
(* one is there, and changed only by the client whose token it carries.    *)
THEOREM LockImplementsLease ==
  ASSUME DetectConflicts
  PROVE  LSpec => LockSpec
  <1>1. LInit => Lock!Init
    BY LockKeys DEF LInit, Init, Lock!Init
  <1>2. LInv /\ [LNext]_lvars => [Lock!Next]_<<lease, now>>
    <2> SUFFICES ASSUME LInv, [LNext]_lvars, ~(lease' = lease /\ now' = now) PROVE Lock!Next
      OBVIOUS
    <2>1. CASE UNCHANGED lvars
      BY <2>1 DEF lvars, vars, store, lease
    <2> QED BY <2>1, LockStep
  <1> QED BY <1>1, <1>2, LInvariance, PTL DEF LSpec, LockSpec, Lock!Spec, lease

-----------------------------------------------------------------------------
(* The workers.                                                            *)

\* Where a worker is in its loop says what its call is about and what it holds.
StageInv(c) ==
    /\ at[c] \in Nat \ {0}
    /\ stage[c] \in {"take", "taking", "work", "giving"}
    /\ stage[c] = "take" => pc[c] = "idle"
    /\ stage[c] # "take" => Busy(c)
    /\ stage[c] = "taking" => pc[c] # "idle" /\ op[c].name = "TryLock" /\ op[c].pk = Row(c)
    /\ stage[c] = "giving" => pc[c] # "idle"
    /\ stage[c] = "work" => pc[c] = "idle" /\ held[c][Row(c)] \in Lease

WorkType ==
    /\ at \in [Client -> Nat \ {0}]
    /\ stage \in [Client -> {"take", "taking", "work", "giving"}]

WInv == WorkType /\ \A c \in Client : StageInv(c)

\* A row of the page is a primary key.
LEMMA RowIsKey ==
  ASSUME NEW c \in Client, at[c] \in Nat \ {0}, Busy(c)
  PROVE  Row(c) \in PK
  <1>1. at[c] \in 1 .. Len(Page) /\ Page \in Seq(PK)
    BY PageAssumption DEF Busy
  <1>2. \A i \in 1 .. Len(Page) : Page[i] \in PK
    BY <1>1
  <1> QED BY <1>1, <1>2 DEF Row

\* Every step of the workers is one of the locker, or leaves it alone.
LEMMA WorkersUseLocker == WInv /\ [WStep]_wvars => [LNext]_lvars
  <1> SUFFICES ASSUME WInv, [WStep]_wvars PROVE [LNext]_lvars
    OBVIOUS
  <1>1. CASE UNCHANGED wvars
    BY <1>1 DEF wvars
  <1>2. ASSUME NEW c \in Client, CtxEnds(c) PROVE UNCHANGED lvars
    BY <1>2 DEF CtxEnds
  <1>3. CASE WTick /\ Watch
    BY <1>3 DEF WTick, LNext, Step
  <1>4. ASSUME NEW c \in Client, Watch, Take(c) PROVE LNext
    <2>1. Row(c) \in PK
      BY <1>4, RowIsKey DEF Take, WInv, StageInv
    <2> QED BY <1>4, <2>1 DEF Take, LNext, Step
  <1>5. ASSUME NEW c \in Client, Watch, Work(c) PROVE LNext
    <2>1. Row(c) \in PK
      BY <1>5, RowIsKey DEF Work, WInv, StageInv
    <2> QED BY <1>5, <2>1 DEF Work, LNext, Step
  <1>6. ASSUME NEW c \in Client, Watch, InCall(c) PROVE LNext
    BY <1>6 DEF InCall, LNext, Step
  <1>7. ASSUME NEW c \in Client, Watch, CallEnds(c) PROVE LNext
    BY <1>7 DEF CallEnds, LNext, Step
  <1> QED BY <1>1, <1>2, <1>3, <1>4, <1>5, <1>6, <1>7 DEF WStep, Worker

\* A TryLock that the manager answers "ok" for has granted a lease.
LEMMA TakenIsGranted ==
  ASSUME LInv, NEW c \in Client, Method(c) \/ LManage(c), pc'[c] = "idle",
         result'[c] = "ok", op[c].name = "TryLock"
  PROVE  held'[c][op[c].pk] \in Lease
  <1>1. LManage(c)
    BY DEF Method, ReadLock, TryLockSet, WriteLease, RenewSet, UnlockDelete, MethodReturns,
       MethodRefuses, ClosureBreaks, Get, Put, ClosureReturns, ClosureFails, Return, Move,
       LInv, LTypeOK, TypeOK
  <1>2. pc[c] # "idle"
    BY <1>1 DEF LManage, Manage, Attempt, BeginAttempt, BeginCancelled, Check, ReadDone, WriteCheck,
       WriteCancelled, Commit, CommitEmpty, CommitWrites, CommitRetry, CommitGivesUp,
       CommitRefused, CommitLost, Backoff, BackoffElapses, BackoffCancelled, Return, Move
  <1>3. CommitWrites(c)
    <2>1. ReadDone(c) \/ CommitEmpty(c) \/ CommitWrites(c)
      BY <1>1 DEF LManage, Manage, Attempt, BeginAttempt, BeginCancelled, Check, WriteCheck,
         WriteCancelled, Commit, CommitRetry, CommitGivesUp, CommitRefused, CommitLost, Backoff,
         BackoffElapses, BackoffCancelled, Return, Move, LInv, LTypeOK, TypeOK
    <2>2. ~ReadDone(c)
      BY DEF ReadDone, Return, Move, LInv, LCallInv, OpInv
    <2>3. ~CommitEmpty(c)
      BY DEF CommitEmpty, Return, Move, LInv, LCallInv, TxInv, Open
    <2> QED BY <2>1, <2>2, <2>3
  <1>4. New(c) \in Lease /\ op[c].pk \in PK
    BY <1>2, <1>3 DEF CommitWrites, Return, Move, LInv, LCallInv, TxInv, Open, OpInv, Written
  <1>5. held'[c] = [held[c] EXCEPT ![op[c].pk] = New(c)]
    BY <1>1 DEF LManage, Returned, Granted, New, LInv, LTypeOK
  <1> QED BY <1>4, <1>5 DEF LInv, LTypeOK

\* The steps inside a call are those of a client that is in one ...
LEMMA InACall ==
  ASSUME NEW c \in Client, Method(c) \/ LManage(c)
  PROVE  pc[c] # "idle"
  BY DEF Method, ReadLock, TryLockSet, WriteLease, RenewSet, UnlockDelete, MethodReturns,
     MethodRefuses, ClosureBreaks, Get, Put, ClosureReturns, ClosureFails, Return, Move,
     LManage, Manage, Attempt, BeginAttempt, BeginCancelled, Check, ReadDone, WriteCheck,
     WriteCancelled, Commit, CommitEmpty, CommitWrites, CommitRetry, CommitGivesUp,
     CommitRefused, CommitLost, Backoff, BackoffElapses, BackoffCancelled

\* ... and as long as it is not over, the call is about the same key.
LEMMA CallStaysOrEnds ==
  ASSUME LInv, NEW c \in Client, Method(c) \/ LManage(c), pc'[c] # "idle"
  PROVE  op'[c] = op[c]
  BY DEF Method, ReadLock, TryLockSet, WriteLease, RenewSet, UnlockDelete, MethodReturns,
     MethodRefuses, ClosureBreaks, ClosureFails, Return, Move, LManage, LInv, LTypeOK, TypeOK

\* A worker's stage stays what it was while it is somebody else's turn.
LEMMA StageKept ==
  ASSUME NEW c \in Client, StageInv(c), at'[c] = at[c], stage'[c] = stage[c],
         pc'[c] = pc[c], op'[c] = op[c], held'[c] = held[c]
  PROVE  StageInv(c)'
  BY DEF StageInv, Busy, Row

\* The locker's lemmas for one client's step, together.
LEMMA OwnStepKept ==
  ASSUME LInv, IInv', Watch, NEW c \in Client,
         \/ \E p \in PK : (\E o \in Owner, t \in TTL : StartTryLock(c, p, o, t)) \/ StartUnlock(c, p)
         \/ Method(c) \/ LManage(c)
  PROVE  Kept(c)
  BY StartsKept, ReadLockKept, MethodWritesKept, MethodReturnsKept, ClosureFailsKept, InsideKept,
     EndKept DEF Method

\* One step of one worker: the others' stages are left alone.
LEMMA WorkerStage ==
  ASSUME LInv, IInv', WInv, Watch, NEW c \in Client, Worker(c), WorkType', StageInv(c)',
         \A d \in Client \ {c} : at'[d] = at[d] /\ stage'[d] = stage[d],
         Kept(c) \/ UNCHANGED <<pc, op, held>>
  PROVE  WInv'
  <1>1. ASSUME NEW d \in Client \ {c} PROVE StageInv(d)'
    <2>1. pc'[d] = pc[d] /\ op'[d] = op[d] /\ held'[d] = held[d]
      BY <1>1 DEF Kept, LSame
    <2> QED BY <1>1, <2>1, StageKept DEF WInv
  <1> QED BY <1>1 DEF WInv

\* Before the first row every worker is about to take it.
LEMMA WInitInv == WInit => WInv
  BY DEF WInit, LInit, Init, WInv, WorkType, StageInv

(* Every step keeps the workers' invariant: one case per action of a worker. *)
LEMMA WNextInv == LInv /\ WInv /\ [WStep]_wvars => WInv'
  <1> SUFFICES ASSUME LInv, WInv, [WStep]_wvars PROVE WInv'
    OBVIOUS
  <1>1. IInv'
    BY WorkersUseLocker, LockerRefinesManager, NextInv DEF LInv
  <1>2. WorkType
    BY DEF WInv
  <1>3. ASSUME UNCHANGED <<at, stage, pc, op, held>> PROVE WInv'
    <2>1. ASSUME NEW d \in Client PROVE StageInv(d)'
      BY <1>3, <2>1, StageKept DEF WInv
    <2> QED BY <1>2, <1>3, <2>1 DEF WInv, WorkType
  <1>4. CASE UNCHANGED wvars
    BY <1>3, <1>4 DEF wvars, lvars, vars
  <1>5. CASE (\E c \in Client : CtxEnds(c)) \/ WTick
    BY <1>3, <1>5 DEF CtxEnds, WTick, Tick, lvars, vars
  <1>6. ASSUME NEW c \in Client, Watch, CallEnds(c) PROVE WInv'
    BY <1>3, <1>6 DEF CallEnds, LCancel, Cancel
  <1>7. ASSUME NEW c \in Client, Watch, Take(c) PROVE WInv'
    <2>1. stage' = [stage EXCEPT ![c] = "taking"] /\ at' = at /\ Busy(c)
      BY <1>7 DEF Take
    <2>2. Row(c) \in PK
      BY <2>1, RowIsKey DEF WInv, StageInv
    <2>3. pc'[c] = "begin" /\ op'[c].name = "TryLock" /\ op'[c].pk = Row(c)
      BY <1>7 DEF Take, StartTryLock, Start, Call, Move, LInv, LTypeOK, TypeOK
    <2>4. StageInv(c)' /\ WorkType'
      BY <1>2, <2>1, <2>3 DEF WInv, WorkType, StageInv, Busy, Row
    <2>5. Kept(c)
      BY <1>1, <1>7, <2>2, OwnStepKept DEF Take
    <2> QED BY <1>1, <1>2, <1>7, <2>1, <2>4, <2>5, WorkerStage DEF Worker, WorkType
  <1>8. ASSUME NEW c \in Client, Watch, Work(c) PROVE WInv'
    <2>1. stage' = [stage EXCEPT ![c] = "giving"] /\ at' = at /\ Busy(c)
      BY <1>8 DEF Work, WInv, StageInv
    <2>2. Row(c) \in PK
      BY <2>1, RowIsKey DEF WInv, StageInv
    <2>3. pc'[c] = "begin"
      BY <1>8 DEF Work, StartUnlock, Start, Call, Move, LInv, LTypeOK, TypeOK
    <2>4. StageInv(c)' /\ WorkType'
      BY <1>2, <2>1, <2>3 DEF WInv, WorkType, StageInv, Busy
    <2>5. Kept(c)
      BY <1>1, <1>8, <2>2, OwnStepKept DEF Work
    <2> QED BY <1>1, <1>2, <1>8, <2>1, <2>4, <2>5, WorkerStage DEF Worker, WorkType
  <1>9. ASSUME NEW c \in Client, Watch, InCall(c) PROVE WInv'
    <2>1. Method(c) \/ LManage(c)
      BY <1>9 DEF InCall
    <2>2. Kept(c)
      BY <1>1, <1>9, <2>1, OwnStepKept
    <2>3. ASSUME StageInv(c)', WorkType', \A d \in Client \ {c} : at'[d] = at[d] /\ stage'[d] = stage[d]
          PROVE  WInv'
      BY <1>1, <1>9, <2>2, <2>3, WorkerStage DEF Worker
    <2>4. stage[c] \in {"taking", "giving"} /\ pc[c] # "idle"
      BY <2>1, InACall DEF WInv, StageInv
    <2>5. CASE pc'[c] # "idle"
      <3>1. at' = at /\ stage' = stage
        BY <1>9, <2>5 DEF InCall
      <3>2. op'[c] = op[c]
        BY <2>1, <2>5, CallStaysOrEnds
      <3> QED BY <1>2, <2>3, <2>4, <2>5, <3>1, <3>2 DEF WInv, WorkType, StageInv, Busy, Row
    <2>6. CASE pc'[c] = "idle" /\ stage[c] = "taking" /\ result'[c] = "ok"
      <3>1. stage' = [stage EXCEPT ![c] = "work"] /\ at' = at
        BY <1>9, <2>6 DEF InCall
      <3>2. held'[c][Row(c)] \in Lease
        BY <2>1, <2>6, TakenIsGranted DEF WInv, StageInv
      <3>3. Row(c)' = Row(c) /\ Busy(c)' = Busy(c)
        BY <3>1 DEF Row, Busy
      <3> QED BY <1>2, <2>3, <2>6, <3>1, <3>2, <3>3 DEF WInv, WorkType, StageInv
    <2>7. CASE pc'[c] = "idle" /\ ~(stage[c] = "taking" /\ result'[c] = "ok")
      <3>1. stage' = [stage EXCEPT ![c] = "take"] /\ at' = [at EXCEPT ![c] = @ + 1]
        BY <1>9, <2>7 DEF InCall, NextRow
      <3>2. at[c] + 1 \in Nat \ {0}
        BY <1>2 DEF WorkType
      <3>3. at'[c] = at[c] + 1 /\ stage'[c] = "take"
        BY <1>2, <3>1 DEF WorkType
      <3>4. WorkType'
        BY <1>2, <3>1, <3>2 DEF WorkType
      <3>5. StageInv(c)'
        BY <2>7, <3>2, <3>3 DEF StageInv
      <3>6. \A d \in Client \ {c} : at'[d] = at[d] /\ stage'[d] = stage[d]
        BY <1>2, <3>1 DEF WorkType
      <3> QED BY <2>3, <3>4, <3>5, <3>6
    <2> QED BY <2>5, <2>6, <2>7
  <1> QED BY <1>4, <1>5, <1>6, <1>7, <1>8, <1>9 DEF WStep, Worker

(* The workers' runs are runs of the locker: with DetectConflicts all that *)
(* is proved of leases holds of the demonstration's workers.               *)
THEOREM WorkersAreClients == WSpec => LSpec /\ []WInv
  <1>1. WInit => LInit /\ WInv /\ LInv
    BY WInitInv, LInitInv DEF WInit
  <1>2. LInv /\ WInv /\ [WStep]_wvars => LInv' /\ WInv' /\ [LNext]_lvars
    BY WorkersUseLocker, LNextInv, WNextInv
  <1> QED BY <1>1, <1>2, PTL DEF WSpec, LSpec

(* With DetectConflicts, no two workers work on one row under live leases, *)
(* and none works without one, whatever fails or ends in between.          *)
THEOREM WorkersDoNotMeet ==
  ASSUME DetectConflicts
  PROVE  WSpec => []WorkIsExclusive
  <1>1. LInv /\ WInv /\ LiveHolderOwnsKey => WorkIsExclusive
    <2> SUFFICES ASSUME LInv, WInv, LiveHolderOwnsKey, NEW c \in Client, stage[c] = "work"
                 PROVE  /\ held[c][Row(c)] # Absent
                        /\ \A d \in Client \ {c} :
                              stage[d] = "work" /\ Row(d) = Row(c)
                              => ~Alive(held[c][Row(c)]) \/ ~Alive(held[d][Row(d)])
      BY DEF WorkIsExclusive
    <2>1. Row(c) \in PK /\ held[c][Row(c)] # Absent /\ held[c][Row(c)].token[1] = c
      BY RowIsKey, LeaseFacts DEF WInv, StageInv, LInv, LCallInv, HeldInv
    <2>2. ASSUME NEW d \in Client \ {c}, stage[d] = "work", Row(d) = Row(c),
                 Alive(held[c][Row(c)]), Alive(held[d][Row(d)])
          PROVE  FALSE
      <3>1. held[d][Row(c)].token[1] = d
        BY <2>1, <2>2, LeaseFacts DEF WInv, StageInv, LInv, LCallInv, HeldInv
      <3>2. held[c][Row(c)] = held[d][Row(c)]
        BY <2>1, <2>2 DEF LiveHolderOwnsKey
      <3> QED BY <2>1, <2>2, <3>1, <3>2
    <2> QED BY <2>1, <2>2
  <1> QED BY <1>1, WorkersAreClients, LInvariance, MutualExclusion, PTL

-----------------------------------------------------------------------------
(* No row is forgotten.  A worker skips a row only if its lock entry has    *)
(* been written, and who wrote it works on the row, or has done so, or was  *)
(* told that the commit is lost.                                           *)

Handled(p)    == p \in worked \cup troubled
AtWork(p)     == \E d \in Client : stage[d] = "work" /\ Row(d) = p
EverLocked(p) == ver[lockKeyForPK(p)] > 0

\* What a call has seen of its key: it reads no other, and finds an entry or
\* runs into a conflict only where something has been written.
Saw(c) ==
    /\ Open(c) => tx[c].reads \subseteq {KeyOf(c)}
    /\ Found(c) => EverLocked(op[c].pk)

Gives(c)  == stage[c] = "giving" => op[c].pk = Row(c) /\ Handled(Row(c))
Passed(c) == \A i \in DOMAIN Page : i < at[c] => Handled(Page[i]) \/ EverLocked(Page[i])

BlankInv == \A k \in Key : ver[k] = 0 => db[k] = Absent
LeftInv  == \A p \in PK : EverLocked(p) => Handled(p) \/ AtWork(p)

FInv == BlankInv /\ LeftInv /\ \A c \in Client : Saw(c) /\ Gives(c) /\ Passed(c)

\* A call writes its own key, at the commit that ends it, or nothing.
LEMMA CallWrites ==
  ASSUME LInv, NEW c \in Client, Method(c) \/ LManage(c)
  PROVE  \/ UNCHANGED <<db, ver>>
         \/ /\ pc'[c] = "idle" /\ result'[c] \in {"ok", "lost"} /\ op[c].pk \in PK
            /\ ver'[KeyOf(c)] > 0
            /\ \A k \in Key \ {KeyOf(c)} : db'[k] = db[k] /\ ver'[k] = ver[k]
  <1>1. CASE Method(c)
    BY <1>1 DEF Method, ReadLock, TryLockSet, WriteLease, RenewSet, UnlockDelete, MethodReturns,
       MethodRefuses, ClosureBreaks, Get, Put, ClosureReturns, ClosureFails, store
  <1>2. CASE Manage(c) /\ ~CommitWrites(c) /\ ~CommitLost(c)
    BY <1>2 DEF Manage, Attempt, BeginAttempt, BeginCancelled, Check, ReadDone, WriteCheck,
       WriteCancelled, Commit, CommitEmpty, CommitRetry, CommitGivesUp, CommitRefused, Backoff,
       BackoffElapses, BackoffCancelled, store
  <1>3. CASE CommitWrites(c) \/ CommitLost(c)
    <2>1. /\ pc[c] = "commit" /\ pc'[c] = "idle" /\ result'[c] \in {"ok", "lost"} /\ Dirty(c) # {}
          /\ Install(tx[c].pending, Dirty(c)) \/ Install(db, Dirty(c))
      BY <1>3 DEF CommitWrites, CommitLost, Return, Move, LInv, LTypeOK, TypeOK
    <2>2. Dirty(c) = {KeyOf(c)} /\ op[c].pk \in PK
      BY <2>1, CommitEffect
    <2>3. KeyOf(c) \in Key /\ commitTs \in Nat
      BY <2>2, LockKeys DEF KeyOf, LInv, LTypeOK, TypeOK
    <2>4. ver'[KeyOf(c)] = commitTs + 1
      BY <2>1, <2>2, <2>3 DEF Install
    <2>5. \A k \in Key \ {KeyOf(c)} : db'[k] = db[k] /\ ver'[k] = ver[k]
      BY <2>1, <2>2 DEF Install
    <2> QED BY <2>1, <2>2, <2>3, <2>4, <2>5
  <1> QED BY <1>1, <1>2, <1>3 DEF LManage

\* ... so a key that has been written once has been written for good ...
LEMMA WrittenForGood ==
  ASSUME LInv, UNCHANGED ver \/ \E c \in Client : Method(c) \/ LManage(c), NEW p \in PK, EverLocked(p)
  PROVE  EverLocked(p)'
  <1>1. CASE UNCHANGED ver
    BY <1>1 DEF EverLocked
  <1>2. ASSUME NEW c \in Client, Method(c) \/ LManage(c) PROVE EverLocked(p)'
    BY <1>2, CallWrites, LockKeys DEF EverLocked, KeyOf
  <1> QED BY <1>1, <1>2

\* ... and one that has never been written is empty.
LEMMA BlankKept ==
  ASSUME LInv, BlankInv, UNCHANGED <<db, ver>> \/ \E c \in Client : Method(c) \/ LManage(c)
  PROVE  BlankInv'
  <1>1. CASE UNCHANGED <<db, ver>>
    BY <1>1 DEF BlankInv
  <1>2. ASSUME NEW c \in Client, Method(c) \/ LManage(c) PROVE BlankInv'
    BY <1>2, CallWrites DEF BlankInv
  <1> QED BY <1>1, <1>2

\* The closure's Get finds an entry only if one has been written.
LEMMA ReadSaw ==
  ASSUME LInv, BlankInv, NEW c \in Client, Saw(c), ReadLock(c)
  PROVE  Saw(c)'
  <1>1. /\ pc[c] = "run" /\ pc' = pc /\ op' = op /\ got[c] = NotRead /\ ver' = ver
        /\ op[c].pk \in PK /\ KeyOf(c) \in Key
    BY LockKeys DEF ReadLock, Get, store, LInv, LCallInv, OpInv, KeyOf
  <1>2. Dirty(c) = {} /\ View(c, KeyOf(c)) = Old(c)
    BY <1>1 DEF LInv, LCallInv, GotInv, View, Old
  <1>3. tx'[c].reads \subseteq tx[c].reads \cup {KeyOf(c)}
    BY <1>1 DEF ReadLock, Get, LInv, LTypeOK, TypeOK, TxType
  <1>4. got'[c] = IF Alive(Old(c)) THEN Old(c) ELSE Absent
    BY <1>2 DEF ReadLock, LInv, LTypeOK
  <1>5. ASSUME Found(c)' PROVE EverLocked(op[c].pk)
    <2>1. Old(c) # Absent
      BY <1>4, <1>5 DEF Found
    <2>2. ver[KeyOf(c)] \in Nat /\ tx[c].readTs \in Nat
      BY <1>1 DEF LInv, LTypeOK, TypeOK, TxType
    <2>3. ver[KeyOf(c)] <= tx[c].readTs => Old(c) = db[KeyOf(c)]
      BY <1>1 DEF LInv, IInv, SnapshotCurrent, Old
    <2>4. ver[KeyOf(c)] # 0
      BY <1>1, <2>1, <2>2, <2>3 DEF BlankInv
    <2> QED BY <2>2, <2>4 DEF EverLocked, KeyOf
  <1> QED BY <1>1, <1>3, <1>5 DEF Saw, Open, KeyOf, EverLocked

\* A step inside a call, other than that Get, reads nothing more.
LEMMA CallSaw ==
  ASSUME LInv, BlankInv, NEW c \in Client, Saw(c), Method(c) \/ LManage(c)
  PROVE  Saw(c)'
  <1>1. CASE ReadLock(c)
    BY <1>1, ReadSaw
  <1>2. CASE TryLockSet(c) \/ RenewSet(c) \/ UnlockDelete(c)
    <2>1. pc' = pc /\ op' = op /\ got' = got /\ ver' = ver /\ tx'[c].reads = tx[c].reads
      BY <1>2 DEF TryLockSet, RenewSet, UnlockDelete, WriteLease, Put, store, LInv, LTypeOK,
         TypeOK, TxType
    <2> QED BY <2>1 DEF Saw, Open, KeyOf, Found, EverLocked
  <1>3. CASE MethodReturns(c)
    <2>1. op' = op /\ got' = got /\ ver' = ver /\ tx' = tx /\ pc[c] = "run"
      BY <1>3 DEF MethodReturns, ClosureReturns, Move, store
    <2> QED BY <2>1 DEF Saw, Open, KeyOf, Found, EverLocked
  <1>4. CASE MethodRefuses(c) \/ ClosureBreaks(c)
    BY <1>4 DEF MethodRefuses, ClosureBreaks, ClosureFails, Return, Move, Returned, Saw, Open,
       Found, LInv, LTypeOK, TypeOK
  <1>5. CASE LManage(c)
    <2>1. got'[c] = NotRead
      BY <1>5 DEF LManage, Returned, LInv, LTypeOK
    <2>2. CASE BeginAttempt(c)
      BY <2>1, <2>2 DEF BeginAttempt, Discarded, Saw, Found, LInv, LTypeOK, TypeOK
    <2>3. CASE WriteCheck(c)
      <3>1. pc[c] = "check" /\ pc'[c] = "commit" /\ tx' = tx
        BY <2>3 DEF WriteCheck, Move, LInv, LTypeOK, TypeOK
      <3>2. op' = op
        BY <1>5, <3>1 DEF LManage
      <3> QED BY <2>1, <3>1, <3>2 DEF Saw, Open, Found, KeyOf
    <2>4. CASE ~BeginAttempt(c) /\ ~WriteCheck(c)
      <3>1. ~Open(c)'
        BY <1>5, <2>4 DEF LManage, Manage, Attempt, BeginCancelled, Check, ReadDone,
           WriteCancelled, Commit, CommitEmpty, CommitWrites, CommitRetry, CommitGivesUp,
           CommitRefused, CommitLost, Backoff, BackoffElapses, BackoffCancelled, Return, Move,
           Open, LInv, LTypeOK, TypeOK
      <3> QED BY <2>1, <3>1 DEF Saw, Found
    <2> QED BY <2>2, <2>3, <2>4
  <1> QED BY <1>1, <1>2, <1>3, <1>4, <1>5 DEF Method

\* A TryLock that ends without a lease and without a mishap met an entry.
LEMMA SkippedIsLocked ==
  ASSUME LInv, NEW c \in Client, Saw(c), Method(c) \/ LManage(c), pc'[c] = "idle",
         op[c].name = "TryLock", result'[c] # "ok", ~WentWrong(c)
  PROVE  EverLocked(op[c].pk)
  <1>1. CASE Found(c)
    BY <1>1 DEF Saw
  <1>2. CASE ~Found(c)
    <2>1. result'[c] \notin {"ok", "ctx", "lost", "failed"}
      BY <1>2 DEF WentWrong, Refusal
    <2>2. CommitGivesUp(c)
      <3>1. ~Method(c)
        BY <2>1 DEF Method, ReadLock, TryLockSet, WriteLease, RenewSet, UnlockDelete, MethodReturns,
           MethodRefuses, ClosureBreaks, Get, Put, ClosureReturns, ClosureFails, Return, Move,
           LInv, LTypeOK, TypeOK
      <3> QED BY <2>1, <3>1 DEF LManage, Manage, Attempt, BeginAttempt, BeginCancelled, Check, ReadDone,
             WriteCheck, WriteCancelled, Commit, CommitEmpty, CommitWrites, CommitRetry,
             CommitRefused, CommitLost, Backoff, BackoffElapses, BackoffCancelled, Return, Move,
             LInv, LTypeOK, TypeOK
    <2>3. PICK k \in tx[c].reads : ver[k] > tx[c].readTs
      BY <2>2 DEF CommitGivesUp, Conflict
    <2>4. pc[c] = "commit"
      BY <2>2 DEF CommitGivesUp, Return, Move
    <2>5. k = KeyOf(c) /\ op[c].pk \in PK /\ KeyOf(c) \in Key
      BY <2>3, <2>4, LockKeys DEF Saw, Open, LInv, LCallInv, OpInv, KeyOf
    <2>6. ver[KeyOf(c)] \in Nat /\ tx[c].readTs \in Nat
      BY <2>5 DEF LInv, LTypeOK, TypeOK, TxType
    <2> QED BY <2>3, <2>5, <2>6 DEF EverLocked, KeyOf
  <1> QED BY <1>1, <1>2

\* What the others' part of FInv needs of a step.
LEMMA FKept ==
  ASSUME LInv, WInv, FInv, NEW c \in Client,
         UNCHANGED <<db, ver>> \/ Method(c) \/ LManage(c),
         worked \subseteq worked', troubled \subseteq troubled',
         \A d \in Client \ {c} : LSame(d) /\ at'[d] = at[d] /\ stage'[d] = stage[d],
         LeftInv', Saw(c)', Gives(c)', Passed(c)'
  PROVE  FInv'
  <1>1. \A p \in PK : EverLocked(p) => EverLocked(p)'
    BY WrittenForGood
  <1>2. \A p : Handled(p) => Handled(p)'
    BY DEF Handled
  <1>3. BlankInv'
    BY BlankKept DEF FInv
  <1>4. ASSUME NEW d \in Client \ {c} PROVE Saw(d)' /\ Gives(d)' /\ Passed(d)'
    <2>1. Saw(d) /\ Gives(d) /\ Passed(d)
      BY DEF FInv
    <2>2. /\ pc'[d] = pc[d] /\ tx'[d] = tx[d] /\ op'[d] = op[d] /\ got'[d] = got[d]
          /\ at'[d] = at[d] /\ stage'[d] = stage[d]
      BY <1>4 DEF LSame
    <2>3. Found(d) => op[d].pk \in PK
      BY DEF Found, LInv, LCallInv, GotInv, OpInv
    <2>4. Saw(d)'
      BY <1>1, <2>1, <2>2, <2>3 DEF Saw, Open, KeyOf, Found
    <2>5. Gives(d)'
      BY <1>2, <2>1, <2>2 DEF Gives, Row
    <2>6. \A i \in DOMAIN Page : Page[i] \in PK
      BY PageAssumption
    <2>7. Passed(d)'
      BY <1>1, <1>2, <2>1, <2>2, <2>6 DEF Passed
    <2> QED BY <2>4, <2>5, <2>7
  <1> QED BY <1>3, <1>4 DEF FInv

\* A worker that leaves a row unlocked has handled it, or it has been locked.
LEMMA InCallForgets ==
  ASSUME LInv, IInv', WInv, FInv, Watch, NEW c \in Client, InCall(c)
  PROVE  FInv'
  <1>1. /\ Method(c) \/ LManage(c)
        /\ worked' = worked /\ troubled \subseteq troubled'
        /\ pc'[c] = "idle" /\ WentWrong(c) => Row(c) \in troubled'
    BY DEF InCall
  <1>2. /\ stage[c] \in {"taking", "giving"} /\ op[c].pk = Row(c) /\ Row(c) \in PK
        /\ stage[c] = "giving" => Handled(Row(c))
        /\ pc[c] # "idle"
    BY <1>1, InACall, RowIsKey DEF WInv, StageInv, FInv, Gives
  <1>3. WorkType /\ LTypeOK
    BY DEF WInv, LInv
  <1>4. /\ \A d \in Client \ {c} : at'[d] = at[d] /\ stage'[d] = stage[d]
        /\ pc'[c] # "idle" => at' = at /\ stage' = stage
        /\ pc'[c] = "idle" /\ stage[c] = "taking" /\ result'[c] = "ok"
              => at' = at /\ stage'[c] = "work"
        /\ pc'[c] = "idle" /\ ~(stage[c] = "taking" /\ result'[c] = "ok")
              => at'[c] = at[c] + 1 /\ stage'[c] = "take"
    BY <1>3 DEF InCall, NextRow, WorkType
  <1>5. \A d \in Client \ {c} : LSame(d)
    BY <1>1, OwnStepKept DEF Kept
  <1>6. \A p : Handled(p) => Handled(p)'
    BY <1>1 DEF Handled
  <1>7. \A p \in PK : EverLocked(p) => EverLocked(p)'
    BY <1>1, WrittenForGood
  <1>8. LeftInv'
    <2> SUFFICES ASSUME NEW p \in PK, EverLocked(p)' PROVE Handled(p)' \/ AtWork(p)'
      BY DEF LeftInv
    <2>1. CASE EverLocked(p)
      <3>1. Handled(p) \/ AtWork(p)
        BY <2>1 DEF FInv, LeftInv
      <3>2. AtWork(p) => AtWork(p)'
        BY <1>2, <1>4 DEF AtWork, Row
      <3> QED BY <1>6, <3>1, <3>2
    <2>2. CASE ~EverLocked(p)
      <3>1. pc'[c] = "idle" /\ result'[c] \in {"ok", "lost"} /\ p = op[c].pk
        BY <1>1, <2>2, CallWrites, LockKeys DEF EverLocked, KeyOf
      <3>2. CASE stage[c] = "giving"
        BY <1>2, <1>6, <3>1, <3>2
      <3>3. CASE stage[c] = "taking" /\ result'[c] = "ok"
        <4>1. stage'[c] = "work" /\ Row(c)' = p
          BY <1>2, <1>4, <3>1, <3>3 DEF Row
        <4> QED BY <4>1 DEF AtWork
      <3>4. CASE result'[c] = "lost"
        BY <1>1, <1>2, <3>1, <3>4 DEF WentWrong, Handled
      <3> QED BY <1>2, <3>1, <3>2, <3>3, <3>4
    <2> QED BY <2>1, <2>2
  <1>9. Saw(c)'
    BY <1>1, CallSaw DEF FInv
  <1>10. Gives(c)'
    <2>1. CASE pc'[c] # "idle"
      BY <1>1, <1>2, <1>4, <1>6, <2>1, CallStaysOrEnds DEF Gives, Row
    <2>2. CASE pc'[c] = "idle"
      BY <1>2, <1>4, <2>2 DEF Gives
    <2> QED BY <2>1, <2>2
  <1>11. Passed(c)'
    <2> SUFFICES ASSUME NEW i \in DOMAIN Page, i < at'[c] PROVE Handled(Page[i])' \/ EverLocked(Page[i])'
      BY DEF Passed
    <2>1. Page[i] \in PK /\ i \in Nat /\ at[c] \in Nat
      BY <1>3, PageAssumption DEF WorkType
    <2>2. CASE i < at[c]
      BY <1>6, <1>7, <2>1, <2>2 DEF FInv, Passed
    <2>3. CASE ~(i < at[c])
      <3>1. pc'[c] = "idle" /\ ~(stage[c] = "taking" /\ result'[c] = "ok") /\ i = at[c]
        BY <1>4, <2>1, <2>3
      <3>2. Page[i] = Row(c)
        BY <3>1 DEF Row
      <3>3. CASE stage[c] = "giving"
        BY <1>2, <1>6, <3>2, <3>3
      <3>4. CASE WentWrong(c)
        BY <1>1, <3>1, <3>2, <3>4 DEF Handled
      <3>5. CASE stage[c] = "taking" /\ ~WentWrong(c)
        <4>1. EverLocked(op[c].pk)
          BY <1>1, <3>1, <3>5, SkippedIsLocked DEF FInv, WInv, StageInv
        <4> QED BY <1>2, <1>7, <3>2, <4>1
      <3> QED BY <1>2, <3>3, <3>4, <3>5
    <2> QED BY <2>2, <2>3
  <1> QED BY <1>1, <1>4, <1>5, <1>8, <1>9, <1>10, <1>11, FKept

(* Every step keeps it: one case per action of a worker.                   *)
LEMMA FNextInv == LInv /\ WInv /\ FInv /\ [WStep]_wvars => FInv'
  <1> SUFFICES ASSUME LInv, WInv, FInv, [WStep]_wvars PROVE FInv'
    OBVIOUS
  <1>1. IInv'
    BY WorkersUseLocker, LockerRefinesManager, NextInv DEF LInv
  <1>2. ASSUME UNCHANGED <<db, ver, pc, tx, op, got, at, stage, worked, troubled>> PROVE FInv'
    BY <1>2 DEF FInv, BlankInv, LeftInv, Saw, Gives, Passed, EverLocked, Handled, AtWork, Row, Open,
       KeyOf, Found
  <1>3. CASE UNCHANGED wvars
    BY <1>2, <1>3 DEF wvars, lvars, vars, store
  <1>4. CASE (\E c \in Client : CtxEnds(c)) \/ WTick
    BY <1>2, <1>4 DEF CtxEnds, WTick, Tick, lvars, vars, store
  <1>5. ASSUME NEW c \in Client, CallEnds(c) PROVE FInv'
    BY <1>2, <1>5 DEF CallEnds, LCancel, Cancel, store
  <1>6. ASSUME NEW c \in Client, Watch, Take(c) \/ Work(c) PROVE FInv'
    <2>1. Row(c) \in PK /\ WorkType
      BY <1>6, RowIsKey DEF Take, Work, WInv, StageInv
    <2>2. /\ pc'[c] = "begin" /\ op'[c].pk = Row(c) /\ UNCHANGED <<db, ver, got, at>>
          /\ pc[c] = "idle"
      BY <1>6 DEF Take, Work, StartTryLock, StartUnlock, Start, Call, Move, store, LInv,
         LTypeOK, TypeOK
    <2>3. Kept(c)
      BY <1>1, <1>6, <2>1, OwnStepKept DEF Take, Work
    <2>4. /\ worked \subseteq worked' /\ troubled \subseteq troubled'
          /\ stage[c] = "work" => Handled(Row(c))' /\ stage'[c] = "giving"
          /\ stage[c] # "work" => stage'[c] = "taking"
          /\ \A d \in Client \ {c} : stage'[d] = stage[d]
      BY <1>6, <2>1, <2>2 DEF Take, Work, Handled, Row, WorkType
    <2>5. \A p : Handled(p) => Handled(p)'
      BY <2>4 DEF Handled
    <2>6. LeftInv'
      <3> SUFFICES ASSUME NEW p \in PK, EverLocked(p) PROVE Handled(p)' \/ AtWork(p)'
        BY <2>2 DEF LeftInv, EverLocked
      <3>1. CASE Handled(p)
        BY <2>5, <3>1
      <3>2. ASSUME NEW d \in Client, stage[d] = "work", Row(d) = p PROVE Handled(p)' \/ AtWork(p)'
        <4>1. CASE d = c
          BY <2>2, <2>4, <3>2, <4>1 DEF Handled, Row
        <4>2. CASE d # c
          BY <2>2, <2>4, <3>2, <4>2 DEF AtWork, Row
        <4> QED BY <4>1, <4>2
      <3> QED BY <3>1, <3>2 DEF FInv, LeftInv, AtWork
    <2>7. Saw(c)'
      BY <2>2, LeaseFacts DEF Saw, Open, Found, LInv, LCallInv, GotInv
    <2>8. Gives(c)'
      BY <2>2, <2>4 DEF Gives, Row, Handled
    <2>9. Passed(c)'
      BY <2>2, <2>5 DEF FInv, Passed, EverLocked
    <2> QED BY <2>2, <2>3, <2>4, <2>6, <2>7, <2>8, <2>9, FKept DEF Kept
  <1>7. ASSUME NEW c \in Client, Watch, InCall(c) PROVE FInv'
    BY <1>1, <1>7, InCallForgets
  <1> QED BY <1>3, <1>4, <1>5, <1>6, <1>7 DEF WStep, Worker

\* Before the first step nothing is locked and no row passed.
LEMMA WInitForgets == WInit => FInv
  <1> SUFFICES ASSUME WInit PROVE FInv
    OBVIOUS
  <1>1. BlankInv /\ \A p \in PK : ~EverLocked(p)
    BY LockKeys DEF WInit, LInit, Init, BlankInv, EverLocked
  <1>2. ASSUME NEW c \in Client PROVE Saw(c) /\ Gives(c)
    BY DEF WInit, LInit, Init, Saw, Gives, Open, Found
  <1>3. ASSUME NEW c \in Client PROVE Passed(c)
    BY PageAssumption DEF WInit, Passed
  <1> QED BY <1>1, <1>2, <1>3 DEF FInv, LeftInv

(* As long as there is a worker at all, a page that all workers are through *)
(* with holds no row that each of them left to another: every row has been  *)
(* worked on, or a call or the work on it went wrong.                      *)
THEOREM NoRowForgotten ==
  ASSUME Client # {}
  PROVE  WSpec => []NothingForgotten
  <1>1. WInit => FInv
    BY WInitForgets
  <1>2. LInv /\ WInv /\ FInv /\ [WStep]_wvars => FInv'
    BY FNextInv
  <1>3. WInv /\ FInv => NothingForgotten
    <2> SUFFICES ASSUME WInv, FInv, \A c \in Client : ~Busy(c), NEW i \in DOMAIN Page
                 PROVE  Page[i] \in worked \cup troubled
      BY DEF NothingForgotten
    <2>1. PICK c \in Client : TRUE
      OBVIOUS
    <2>2. Page[i] \in PK /\ i \in Nat /\ i <= Len(Page) /\ at[c] \in Nat /\ Len(Page) \in Nat
      BY PageAssumption DEF WInv, WorkType
    <2>3. i < at[c]
      BY <2>2 DEF Busy
    <2>4. ~AtWork(Page[i])
      BY DEF AtWork, WInv, StageInv
    <2> QED BY <2>2, <2>3, <2>4 DEF FInv, Passed, LeftInv, Handled
  <1> QED BY <1>1, <1>2, <1>3, WorkersAreClients, LInvariance, PTL DEF WSpec

-----------------------------------------------------------------------------
(* No lock is left behind.  Nobody but a worker writes its token, so while  *)
(* a row's lock is a worker's, the entry its Unlock read is still there:    *)
(* Unlock finds it, is not refused, and meets no conflict.                 *)

\* An Unlock with the entry's value works on the entry as it is now.
Fresh(c) ==
    LET k == KeyOf(c) IN
    Open(c) /\ Row(c) \notin troubled /\ db[k] # Absent /\ db[k].token = op[c].token
    => ver[k] <= tx[c].readTs

\* One that writes nothing began with no lock to give back.
Nothing(c) ==
    pc[c] \in {"check", "commit"} /\ op[c].name = "Unlock" /\ Dirty(c) = {} => ~Alive(Old(c))

BackInv(c) ==
    /\ stage[c] = "giving" => op[c].name = "Unlock" /\ op[c].pk = Row(c) /\ Fresh(c)
    /\ Nothing(c)

GiveInv == NoLockLeftBehind /\ \A c \in Client : BackInv(c)

\* What a worker's call is about, whichever of the two it is.
LEMMA CallOfRow ==
  ASSUME LInv, WInv, NEW c \in Client, BackInv(c), pc[c] # "idle"
  PROVE  /\ stage[c] \in {"taking", "giving"} /\ op[c].pk = Row(c) /\ Row(c) \in PK
         /\ op[c].name = IF stage[c] = "taking" THEN "TryLock" ELSE "Unlock"
         /\ KeyOf(c) = lockKeyForPK(Row(c)) /\ KeyOf(c) \in Key
  <1>1. stage[c] \in {"taking", "giving"} /\ Busy(c) /\ at[c] \in Nat \ {0}
    BY DEF WInv, StageInv
  <1>2. Row(c) \in PK
    BY <1>1, RowIsKey
  <1> QED BY <1>1, <1>2, LockKeys DEF WInv, StageInv, BackInv, KeyOf

\* A lock that has run out does not come back by itself.
LEMMA OverStays ==
  ASSUME LInv, now' \in {now, now + 1}, NEW l \in Lease \cup {Absent}, Alive(l)'
  PROVE  Alive(l)
  BY LeaseFacts DEF Alive, AliveAt, LInv, LTypeOK

\* Another's step leaves a worker's invariant, as long as what it commits to
\* the worker's key is not under the worker's token, or the row is in trouble.
LEMMA OthersBack ==
  ASSUME LInv, WInv, NEW d \in Client, BackInv(d), LSame(d), at'[d] = at[d], stage'[d] = stage[d],
         now' \in {now, now + 1}, troubled \subseteq troubled',
         stage[d] = "giving" =>
            \/ db'[KeyOf(d)] = db[KeyOf(d)] /\ ver'[KeyOf(d)] = ver[KeyOf(d)]
            \/ Row(d) \in troubled'
            \/ db'[KeyOf(d)] = Absent
            \/ db'[KeyOf(d)].token[1] # d
  PROVE  BackInv(d)'
  <1>1. /\ pc'[d] = pc[d] /\ op'[d] = op[d] /\ tx'[d] = tx[d] /\ Row(d)' = Row(d)
        /\ KeyOf(d)' = KeyOf(d) /\ Open(d)' = Open(d) /\ Dirty(d)' = Dirty(d) /\ Old(d)' = Old(d)
    BY DEF LSame, Row, KeyOf, Open, Dirty, Old
  <1>2. stage[d] = "giving" => op[d].token[1] = d
    BY DEF WInv, StageInv, BackInv, LInv, LCallInv, OpInv
  <1>3. stage[d] = "giving" => Fresh(d)'
    BY <1>1, <1>2 DEF BackInv, Fresh
  <1>4. Nothing(d)'
    <2>1. pc[d] \in {"check", "commit"} => Old(d) \in Lease \cup {Absent}
      BY DEF LInv, LCallInv, TxInv, Open
    <2>2. pc[d] \in {"check", "commit"} /\ Alive(Old(d))' => Alive(Old(d))
      BY <1>1, <2>1, OverStays DEF Alive
    <2> QED BY <1>1, <2>2 DEF BackInv, Nothing
  <1> QED BY <1>1, <1>3, <1>4 DEF BackInv

\* A lock a worker has not given back stays its own while others make steps
\* that do not touch it.
LEMMA BackKept ==
  ASSUME NEW d \in Client, NEW p \in PK, GivesBack(d, p),
         at'[d] = at[d], stage'[d] = stage[d], op'[d] = op[d], held'[d] = held[d],
         db'[lockKeyForPK(p)] = db[lockKeyForPK(p)]
  PROVE  GivesBack(d, p)'
  BY DEF GivesBack, Expect, Row

\* Inside a call: an attempt's snapshot is of its beginning.
LEMMA InsideBack ==
  ASSUME LInv, WInv, NEW c \in Client, BackInv(c), InCall(c), pc'[c] # "idle"
  PROVE  /\ BackInv(c)'
         /\ UNCHANGED <<db, ver, now, at, stage, troubled>> /\ op'[c] = op[c] /\ held'[c] = held[c]
  <1>1. (Method(c) \/ LManage(c)) /\ UNCHANGED <<at, stage, troubled>> /\ pc[c] # "idle"
    BY InACall DEF InCall
  <1>2. UNCHANGED <<db, ver>> /\ op'[c] = op[c] /\ KeyOf(c)' = KeyOf(c)
    BY <1>1, CallWrites, CallStaysOrEnds DEF KeyOf
  <1>3. now' = now /\ held' = held
    BY <1>1 DEF Method, ReadLock, TryLockSet, WriteLease, RenewSet, UnlockDelete, MethodReturns,
       MethodRefuses, ClosureBreaks, ClosureFails, Return, Move, LManage, LInv, LTypeOK, TypeOK
  <1>4. KeyOf(c) \in Key
    BY <1>1, CallOfRow
  <1>5. CASE BeginAttempt(c)
    <2>1. pc'[c] = "run" /\ tx'[c].readTs = commitTs
      BY <1>5 DEF BeginAttempt, Move, Discarded, LInv, LTypeOK, TypeOK
    <2>2. ver[KeyOf(c)] <= commitTs
      BY <1>4 DEF LInv, IInv, TimestampsInv
    <2> QED BY <1>1, <1>2, <1>3, <2>1, <2>2 DEF BackInv, Fresh, Nothing, Row
  <1>6. CASE ~BeginAttempt(c)
    <2>1. Open(c)' => Open(c) /\ tx'[c].readTs = tx[c].readTs /\ tx'[c].snap = tx[c].snap
      <3>1. CASE Method(c)
        BY <3>1 DEF Method, ReadLock, TryLockSet, WriteLease, RenewSet, UnlockDelete, MethodReturns,
           MethodRefuses, ClosureBreaks, Get, Put, ClosureReturns, ClosureFails, Return, Move,
           LInv, LTypeOK, TypeOK, TxType, Open
      <3>2. CASE Manage(c)
        BY <1>6, <3>2 DEF Manage, Attempt, BeginCancelled, Check, ReadDone, WriteCheck,
           WriteCancelled, Commit, CommitEmpty, CommitWrites, CommitRetry, CommitGivesUp,
           CommitRefused, CommitLost, Backoff, BackoffElapses, BackoffCancelled, Return, Move,
           LInv, LTypeOK, TypeOK, Open
      <3> QED BY <1>1, <3>1, <3>2 DEF LManage
    <2>2. stage[c] = "giving" => Fresh(c)'
      BY <1>1, <1>2, <2>1 DEF BackInv, Fresh, Row
    <2>3. pc'[c] \in {"check", "commit"} =>
             MethodReturns(c) \/ (pc[c] = "check" /\ tx' = tx)
      <3>1. Method(c) => MethodReturns(c) \/ pc'[c] = "run" \/ pc'[c] = "idle"
        BY DEF Method, ReadLock, TryLockSet, WriteLease, RenewSet, UnlockDelete,
           MethodRefuses, ClosureBreaks, Get, Put, ClosureFails, Return, Move, LInv, LTypeOK, TypeOK
      <3>2. Manage(c) => WriteCheck(c) \/ pc'[c] \in {"idle", "begin", "sleep"}
        BY <1>6 DEF Manage, Attempt, BeginCancelled, Check, ReadDone,
           WriteCancelled, Commit, CommitEmpty, CommitWrites, CommitRetry, CommitGivesUp,
           CommitRefused, CommitLost, Backoff, BackoffElapses, BackoffCancelled, Return, Move,
           LInv, LTypeOK, TypeOK
      <3> QED BY <1>1, <3>1, <3>2 DEF LManage, WriteCheck, Move
    <2>4. Nothing(c)'
      <3> SUFFICES ASSUME pc'[c] \in {"check", "commit"}, op[c].name = "Unlock", Dirty(c)' = {}
                   PROVE  ~Alive(Old(c))'
        BY <1>2 DEF Nothing
      <3>1. Alive(Old(c))' = Alive(Old(c))
        BY <1>2, <1>3, <2>1 DEF Alive, Old, Open
      <3>2. CASE pc[c] = "check" /\ tx' = tx
        BY <3>1, <3>2 DEF BackInv, Nothing, Dirty
      <3>3. CASE MethodReturns(c)
        <4>1. tx' = tx
          BY <3>3 DEF MethodReturns, ClosureReturns
        <4>2. got[c] = Absent
          BY <1>4, <3>3, <4>1 DEF MethodReturns, Unwritten, Dirty
        <4> QED BY <3>1, <4>2 DEF LInv, LCallInv, GotInv
      <3> QED BY <2>3, <3>2, <3>3
    <2> QED BY <1>1, <1>2, <1>3, <2>2, <2>4 DEF BackInv, Row
  <1> QED BY <1>1, <1>2, <1>3, <1>5, <1>6

\* An Unlock that ends without writing has found no lock of the worker's, or
\* something went wrong.
LEMMA UnlockFindsIt ==
  ASSUME LInv, WInv, NEW c \in Client, Saw(c), BackInv(c), Method(c) \/ LManage(c),
         pc'[c] = "idle", ~CommitWrites(c), ~CommitLost(c),
         stage[c] = "giving", GivesBack(c, Row(c)), Locked(Row(c)), Row(c) \notin troubled
  PROVE  WentWrong(c)
  <1>1. pc[c] # "idle"
    BY InACall
  <1>2. /\ op[c].name = "Unlock" /\ Fresh(c) /\ KeyOf(c) = lockKeyForPK(Row(c)) /\ KeyOf(c) \in Key
        /\ Row(c) \in PK /\ mode[c] # "ro"
    BY <1>1, CallOfRow DEF BackInv, LInv, LCallInv, OpInv
  <1>3. /\ Alive(db[KeyOf(c)]) /\ db[KeyOf(c)] # Absent
        /\ db[KeyOf(c)].owner = op[c].owner /\ db[KeyOf(c)].token = op[c].token
    BY <1>2 DEF Locked, Alive, AliveAt, GivesBack, Expect
  <1>4. Open(c) => ver[KeyOf(c)] <= tx[c].readTs /\ Old(c) = db[KeyOf(c)]
    BY <1>2, <1>3 DEF Fresh, Open, LInv, IInv, SnapshotCurrent, Old
  <1>5. CASE Method(c)
    <2>1. pc[c] = "run" /\ result'[c] = "failed"
      BY <1>5 DEF Method, ReadLock, TryLockSet, WriteLease, RenewSet, UnlockDelete, MethodReturns,
         MethodRefuses, ClosureBreaks, Get, Put, ClosureReturns, ClosureFails, Return, Move,
         LInv, LTypeOK, TypeOK
    <2>2. Found(c) => got[c] = db[KeyOf(c)]
      BY <1>4, <2>1 DEF Open, LInv, LCallInv, GotInv
    <2>3. ~Refusal(c)
      BY <1>2, <1>3, <2>2 DEF Refusal, Mine
    <2> QED BY <2>1, <2>3 DEF WentWrong
  <1>6. CASE Manage(c)
    <2>1. result'[c] \in {"ctx", "lost"} \/ ReadDone(c) \/ CommitEmpty(c) \/ CommitGivesUp(c)
      BY <1>1, <1>6 DEF Manage, Attempt, BeginAttempt, BeginCancelled, Check, WriteCheck,
         WriteCancelled, Commit, CommitRetry, CommitRefused, Backoff, BackoffElapses,
         BackoffCancelled, Return, Move, LInv, LTypeOK, TypeOK
    <2>2. ~ReadDone(c)
      BY <1>2 DEF ReadDone
    <2>3. ~CommitEmpty(c)
      BY <1>2, <1>3, <1>4 DEF CommitEmpty, Return, Move, BackInv, Nothing, Open
    <2>4. ASSUME CommitGivesUp(c) PROVE FALSE
      <3>1. pc[c] = "commit" /\ Open(c) /\ \E k \in tx[c].reads : ver[k] > tx[c].readTs
        BY <2>4 DEF CommitGivesUp, Conflict, Return, Move, Open
      <3>2. ver[KeyOf(c)] > tx[c].readTs /\ ver[KeyOf(c)] <= tx[c].readTs
        BY <1>4, <3>1 DEF Saw
      <3>3. ver[KeyOf(c)] \in Nat /\ tx[c].readTs \in Nat
        BY <1>2 DEF LInv, LTypeOK, TypeOK, TxType
      <3> QED BY <3>2, <3>3
    <2> QED BY <2>1, <2>2, <2>3, <2>4 DEF WentWrong
  <1> QED BY <1>5, <1>6 DEF LManage

\* The end of a call: the lock it took is the worker's, the one it gave back
\* is gone, and other rows' locks are as they were.
LEMMA EndsBack ==
  ASSUME LInv, IInv', WInv, FInv, GiveInv, Watch, NEW c \in Client, InCall(c), pc'[c] = "idle"
  PROVE  GiveInv'
  <1>1. /\ Method(c) \/ LManage(c)
        /\ troubled \subseteq troubled' /\ (WentWrong(c) => Row(c) \in troubled')
    BY DEF InCall
  <1>2. /\ BackInv(c) /\ Saw(c) /\ pc[c] # "idle" /\ WorkType
    BY <1>1, InACall DEF GiveInv, FInv, WInv
  <1>3. /\ stage[c] \in {"taking", "giving"} /\ op[c].pk = Row(c) /\ Row(c) \in PK
        /\ op[c].name = IF stage[c] = "taking" THEN "TryLock" ELSE "Unlock"
        /\ KeyOf(c) = lockKeyForPK(Row(c)) /\ KeyOf(c) \in Key
    BY <1>2, CallOfRow
  <1>4. /\ \A d \in Client \ {c} : at'[d] = at[d] /\ stage'[d] = stage[d]
        /\ stage'[c] \in {"work", "take"}
        /\ stage[c] = "taking" /\ result'[c] = "ok" => stage'[c] = "work" /\ at' = at
    BY <1>2 DEF InCall, NextRow, WorkType
  <1>5. \A d \in Client \ {c} : LSame(d)
    BY <1>1, OwnStepKept DEF Kept
  <1>6. Returned(c) /\ now' = now
    BY <1>1 DEF Method, ReadLock, TryLockSet, WriteLease, RenewSet, UnlockDelete, MethodReturns,
       MethodRefuses, ClosureBreaks, Get, Put, ClosureReturns, ClosureFails, Return, Move,
       LManage, Returned, LInv, LTypeOK, TypeOK
  <1>7. BackInv(c)'
    BY <1>4 DEF BackInv, Nothing
  <1>8. ASSUME NEW p \in PK \ troubled', Locked(p), p # Row(c), db'[lockKeyForPK(p)] = db[lockKeyForPK(p)]
        PROVE  \E d \in Client : GivesBack(d, p)'
    <2>1. PICK d \in Client : GivesBack(d, p)
      BY <1>1, <1>8 DEF GiveInv, NoLockLeftBehind
    <2>2. d # c
      BY <1>8, <2>1 DEF GivesBack
    <2> QED BY <1>4, <1>5, <1>8, <2>1, <2>2, BackKept DEF LSame
  <1>9. CASE ~CommitWrites(c) /\ ~CommitLost(c)
    <2>1. UNCHANGED <<db, ver>>
      BY <1>1, <1>9 DEF LManage, Manage, Attempt, BeginAttempt, BeginCancelled, Check, ReadDone,
         WriteCheck, WriteCancelled, Commit, CommitEmpty, CommitRetry, CommitGivesUp, CommitRefused,
         Backoff, BackoffElapses, BackoffCancelled, store, Method, ReadLock, TryLockSet, WriteLease,
         RenewSet, UnlockDelete, MethodReturns, MethodRefuses, ClosureBreaks, Get, Put,
         ClosureReturns, ClosureFails
    <2>2. ASSUME NEW p \in PK \ troubled', Locked(p)' PROVE \E d \in Client : GivesBack(d, p)'
      <3>1. Locked(p) /\ p \notin troubled
        BY <1>1, <1>6, <2>1, <2>2 DEF Locked, Alive
      <3>2. PICK d \in Client : GivesBack(d, p)
        BY <3>1 DEF GiveInv, NoLockLeftBehind
      <3>3. CASE d # c
        BY <1>4, <1>5, <2>1, <3>2, <3>3, BackKept DEF LSame
      <3>4. CASE d = c
        <4>1. stage[c] = "giving" /\ p = Row(c)
          BY <1>3, <3>2, <3>4 DEF GivesBack
        <4>2. WentWrong(c)
          BY <1>1, <1>2, <1>9, <3>1, <3>2, <3>4, <4>1, UnlockFindsIt
        <4> QED BY <1>1, <2>2, <4>1, <4>2
      <3> QED BY <3>3, <3>4
    <2>3. ASSUME NEW d \in Client \ {c} PROVE BackInv(d)'
      BY <1>1, <1>4, <1>5, <1>6, <2>1, <2>3, OthersBack DEF GiveInv, KeyOf
    <2> QED BY <1>7, <2>2, <2>3 DEF GiveInv, NoLockLeftBehind
  <1>10. CASE CommitWrites(c) \/ CommitLost(c)
    <2>1. /\ pc[c] = "commit" /\ Dirty(c) # {}
          /\ Install(tx[c].pending, Dirty(c)) \/ Install(db, Dirty(c))
          /\ CommitWrites(c) => Install(tx[c].pending, Dirty(c)) /\ result'[c] = "ok"
          /\ CommitLost(c) => result'[c] = "lost"
      BY <1>10 DEF CommitWrites, CommitLost, Return, Move, LInv, LTypeOK, TypeOK
    <2>2. Written(c) /\ Dirty(c) = {KeyOf(c)}
      BY <2>1, CommitEffect
    <2>3. \A k \in Key \ {KeyOf(c)} : db'[k] = db[k] /\ ver'[k] = ver[k]
      BY <2>1, <2>2 DEF Install
    <2>4. CommitWrites(c) => db'[KeyOf(c)] = New(c)
      BY <1>3, <2>1, <2>2 DEF Install, New
    <2>5. CommitLost(c) => Row(c) \in troubled'
      BY <1>1, <2>1 DEF WentWrong
    <2>6. New(c) = Absent \/ New(c).token[1] = c
      BY <1>3, <2>2 DEF Written
    <2>7. ASSUME NEW p \in PK \ troubled', Locked(p)' PROVE \E d \in Client : GivesBack(d, p)'
      <3>1. CASE p # Row(c)
        <4>1. db'[lockKeyForPK(p)] = db[lockKeyForPK(p)]
          BY <1>3, <2>3, <3>1, LockKeys
        <4>2. Locked(p)
          BY <1>6, <2>7, <4>1 DEF Locked, Alive
        <4> QED BY <1>8, <3>1, <4>1, <4>2
      <3>2. CASE p = Row(c)
        <4>1. CommitWrites(c)
          BY <1>10, <2>5, <2>7, <3>2
        <4>2. db'[lockKeyForPK(p)] = New(c) /\ New(c) # Absent
          BY <1>3, <2>4, <2>7, <3>2, <4>1 DEF Locked, Alive, AliveAt
        <4>3. stage[c] = "taking" /\ New(c) \in Lease
          BY <1>3, <2>2, <4>2 DEF Written
        <4>4. stage'[c] = "work" /\ Row(c)' = p
          BY <1>4, <2>1, <3>2, <4>1, <4>3 DEF Row
        <4>5. held'[c][p] = New(c)
          BY <1>3, <1>6, <2>1, <3>2, <4>1, <4>3 DEF Returned, Granted, New, LInv, LTypeOK
        <4>6. GivesBack(c, p)'
          BY <4>2, <4>4, <4>5 DEF GivesBack, Expect
        <4> QED BY <4>6
      <3> QED BY <3>1, <3>2
    <2>8. ASSUME NEW d \in Client \ {c} PROVE BackInv(d)'
      <3>1. BackInv(d) /\ LSame(d) /\ at'[d] = at[d] /\ stage'[d] = stage[d]
        BY <1>4, <1>5, <2>8 DEF GiveInv
      <3>2. stage[d] = "giving" =>
               \/ db'[KeyOf(d)] = db[KeyOf(d)] /\ ver'[KeyOf(d)] = ver[KeyOf(d)]
               \/ Row(d) \in troubled'
               \/ db'[KeyOf(d)] = Absent
               \/ db'[KeyOf(d)].token[1] # d
        <4> SUFFICES ASSUME stage[d] = "giving" PROVE
               \/ db'[KeyOf(d)] = db[KeyOf(d)] /\ ver'[KeyOf(d)] = ver[KeyOf(d)]
               \/ Row(d) \in troubled'
               \/ db'[KeyOf(d)] = Absent
               \/ db'[KeyOf(d)].token[1] # d
          OBVIOUS
        <4>1. KeyOf(d) = lockKeyForPK(Row(d)) /\ KeyOf(d) \in Key
          BY <3>1, CallOfRow DEF WInv, StageInv
        <4>2. CASE KeyOf(d) # KeyOf(c)
          BY <2>3, <4>1, <4>2
        <4>3. CASE KeyOf(d) = KeyOf(c)
          <5>1. Row(d) = Row(c)
            BY <1>3, <4>1, <4>3, LockKeys
          <5> QED BY <1>10, <2>4, <2>5, <2>6, <2>8, <4>3, <5>1
        <4> QED BY <4>2, <4>3
      <3> QED BY <1>1, <1>6, <3>1, <3>2, OthersBack
    <2> QED BY <1>7, <2>7, <2>8 DEF GiveInv, NoLockLeftBehind
  <1> QED BY <1>9, <1>10

(* Every step keeps it: one case per action of a worker, and the clock.     *)
LEMMA GiveNext == LInv /\ WInv /\ FInv /\ GiveInv /\ [WStep]_wvars => GiveInv'
  <1> SUFFICES ASSUME LInv, WInv, FInv, GiveInv, [WStep]_wvars PROVE GiveInv'
    OBVIOUS
  <1>1. IInv'
    BY WorkersUseLocker, LockerRefinesManager, NextInv DEF LInv
  <1>2. ASSUME UNCHANGED <<db, ver, pc, mode, tx, op, got, held, at, stage, troubled>>, now' \in {now, now + 1}
        PROVE  GiveInv'
    <2>1. ASSUME NEW d \in Client PROVE BackInv(d)'
      BY <1>2, OthersBack DEF GiveInv, LSame, KeyOf
    <2>2. ASSUME NEW p \in PK \ troubled', Locked(p)' PROVE \E d \in Client : GivesBack(d, p)'
      <3>1. db[lockKeyForPK(p)] \in Lease \cup {Absent}
        BY <2>2 DEF LInv, LTypeOK
      <3>2. Locked(p) /\ p \in PK \ troubled
        BY <1>2, <2>2, <3>1, OverStays DEF Locked, Alive
      <3>3. PICK d \in Client : GivesBack(d, p)
        BY <3>2 DEF GiveInv, NoLockLeftBehind
      <3> QED BY <1>2, <3>2, <3>3, BackKept
    <2> QED BY <2>1, <2>2 DEF GiveInv, NoLockLeftBehind
  <1>3. CASE UNCHANGED wvars
    BY <1>2, <1>3 DEF wvars, lvars, vars, store
  <1>4. CASE (\E c \in Client : CtxEnds(c)) \/ WTick
    BY <1>2, <1>4 DEF CtxEnds, WTick, Tick, lvars, vars, store
  <1>5. ASSUME NEW c \in Client, CallEnds(c) PROVE GiveInv'
    BY <1>2, <1>5 DEF CallEnds, LCancel, Cancel, store
  <1>6. ASSUME NEW c \in Client, Watch, Take(c) \/ Work(c) PROVE GiveInv'
    <2>1. Row(c) \in PK /\ WorkType
      BY <1>6, RowIsKey DEF Take, Work, WInv, StageInv
    <2>2. /\ pc'[c] = "begin" /\ op'[c].pk = Row(c) /\ UNCHANGED <<db, ver, now, at, troubled>>
          /\ pc[c] = "idle" /\ stage[c] \in {"take", "work"}
          /\ stage'[c] = IF stage[c] = "take" THEN "taking" ELSE "giving"
          /\ \A d \in Client \ {c} : stage'[d] = stage[d]
          /\ stage[c] = "work" =>
                op'[c].name = "Unlock" /\ op'[c].owner = held[c][Row(c)].owner
                /\ op'[c].token = held[c][Row(c)].token
      BY <1>6, <2>1 DEF Take, Work, StartTryLock, StartUnlock, Start, Call, Move, store, LInv,
         LTypeOK, TypeOK, WorkType
    <2>3. Kept(c)
      BY <1>1, <1>6, <2>1, OwnStepKept DEF Take, Work
    <2>4. BackInv(c)'
      BY <2>2 DEF BackInv, Nothing, Fresh, Open, Row
    <2>5. ASSUME NEW d \in Client \ {c} PROVE BackInv(d)'
      BY <2>2, <2>3, <2>5, OthersBack DEF GiveInv, Kept, LSame, KeyOf
    <2>6. ASSUME NEW p \in PK \ troubled', Locked(p)' PROVE \E d \in Client : GivesBack(d, p)'
      <3>1. Locked(p) /\ p \in PK \ troubled
        BY <2>2, <2>6 DEF Locked, Alive
      <3>2. PICK d \in Client : GivesBack(d, p)
        BY <3>1 DEF GiveInv, NoLockLeftBehind
      <3>3. CASE d # c
        BY <2>2, <2>3, <3>2, <3>3, BackKept DEF Kept, LSame
      <3>4. CASE d = c
        BY <2>2, <3>2, <3>4 DEF GivesBack, Expect, Row
      <3> QED BY <3>3, <3>4
    <2> QED BY <2>4, <2>5, <2>6 DEF GiveInv, NoLockLeftBehind
  <1>7. ASSUME NEW c \in Client, Watch, InCall(c) PROVE GiveInv'
    <2>1. CASE pc'[c] = "idle"
      BY <1>1, <1>7, <2>1, EndsBack
    <2>2. CASE pc'[c] # "idle"
      <3>1. /\ BackInv(c)'
            /\ UNCHANGED <<db, ver, now, at, stage, troubled>> /\ op'[c] = op[c] /\ held'[c] = held[c]
        BY <1>7, <2>2, InsideBack DEF GiveInv
      <3>2. \A d \in Client \ {c} : LSame(d)
        BY <1>1, <1>7, OwnStepKept DEF InCall, Kept
      <3>3. ASSUME NEW d \in Client \ {c} PROVE BackInv(d)'
        BY <3>1, <3>2, <3>3, OthersBack DEF GiveInv
      <3>4. ASSUME NEW p \in PK \ troubled', Locked(p)' PROVE \E d \in Client : GivesBack(d, p)'
        <4>1. Locked(p) /\ p \in PK \ troubled
          BY <3>1, <3>4 DEF Locked, Alive
        <4>2. PICK d \in Client : GivesBack(d, p)
          BY <4>1 DEF GiveInv, NoLockLeftBehind
        <4>3. op'[d] = op[d] /\ held'[d] = held[d]
          BY <3>1, <3>2 DEF LSame
        <4> QED BY <3>1, <4>1, <4>2, <4>3, BackKept
      <3> QED BY <3>1, <3>3, <3>4 DEF GiveInv, NoLockLeftBehind
    <2> QED BY <2>1, <2>2
  <1> QED BY <1>3, <1>4, <1>5, <1>6, <1>7 DEF WStep, Worker

(* For any page, workers, owners, TTLs and retries, with or without        *)
(* conflict detection: a lock that is still running on a row none of whose *)
(* calls went wrong is that of a worker who is there to give it back.      *)
THEOREM LocksAreGivenBack == WSpec => []NoLockLeftBehind
  <1>1. WInit => GiveInv
    BY LockKeys DEF WInit, LInit, Init, GiveInv, NoLockLeftBehind, BackInv, Nothing, Locked, Alive, AliveAt
  <1>2. LInv /\ WInv /\ FInv /\ GiveInv /\ [WStep]_wvars => GiveInv'
    BY GiveNext
  <1>3. WSpec => []FInv
    BY WInitForgets, FNextInv, WorkersAreClients, LInvariance, PTL DEF WSpec
  <1>4. GiveInv => NoLockLeftBehind
    BY DEF GiveInv
  <1> QED BY <1>1, <1>2, <1>3, <1>4, WorkersAreClients, LInvariance, PTL DEF WSpec

=============================================================================
