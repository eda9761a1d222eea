----------------------------- MODULE LockedWork -----------------------------
(***************************************************************************)
(* The workers of demonstration.go that share the rows of a page out among *)
(* themselves with the locker: for every row one call of the manager that  *)
(* takes its lock, the work outside of any transaction, and one call that  *)
(* gives the lock back, all under one context.  Every step is a step of    *)
(* PkLocker or of nothing but the workers' own variables.                  *)
(***************************************************************************)
EXTENDS PkLocker, Sequences

CONSTANT Page   \* the primary keys of the page, in its order

ASSUME PageAssumption == Page \in Seq(PK)

VARIABLES
    at,        \* the loop variable i of each worker
    stage,     \* "take", "taking", "work" or "giving"
    ctxDone,   \* the worker's context is done
    worked,    \* the rows somebody has come to work on
    troubled   \* the rows one of whose calls went wrong

wvars == <<lvars, at, stage, ctxDone, worked, troubled>>

WInit ==
    /\ LInit
    /\ at = [c \in Client |-> 1]
    /\ stage = [c \in Client |-> "take"]
    /\ ctxDone = [c \in Client |-> FALSE]
    /\ worked = {} /\ troubled = {}

Busy(c) == at[c] <= Len(Page)
Row(c)  == Page[at[c]]

-----------------------------------------------------------------------------
Take(c) ==
    /\ stage[c] = "take"
    /\ Busy(c)
    /\ \E o \in Owner, t \in TTL : StartTryLock(c, Row(c), o, t)
    /\ stage' = [stage EXCEPT ![c] = "taking"]
    /\ UNCHANGED <<at, ctxDone, worked, troubled>>

\* continue, or the end of the loop's body.
NextRow(c) ==
    /\ stage' = [stage EXCEPT ![c] = "take"]
    /\ at' = [at EXCEPT ![c] = @ + 1]

\* Mutant of Work: a row that cannot be decoded is left with its lock.
WorkKeepsLock(c) ==
    /\ stage[c] = "work"
    /\ NextRow(c)
    /\ worked' = worked \cup {Row(c)}
    /\ UNCHANGED <<vars, now, op, got, held, ctxDone, troubled>>

\* The row is done, or it cannot be decoded: the lock is given back.
Work(c) ==
    /\ stage[c] = "work"
    /\ StartUnlock(c, Row(c))
    /\ stage' = [stage EXCEPT ![c] = "giving"]
    /\ worked' = worked \cup {Row(c)}
    /\ UNCHANGED <<at, ctxDone, troubled>>

\* Neither done nor refused: the key that is locked and the conflict that is
\* left after the last retry are somebody else's doing.
WentWrong(c) ==
    \/ result'[c] \in {"ctx", "lost"}
    \/ result'[c] = "failed" /\ ~Refusal(c)

\* A step of the call under way.  Once the context is done, the call's is.
InCall(c) ==
    /\ ctxDone[c] => cancelled[c]
    /\ Method(c) \/ LManage(c)
    /\ IF pc'[c] # "idle" THEN UNCHANGED <<at, stage, troubled>>
       ELSE /\ IF stage[c] = "taking" /\ result'[c] = "ok"
               THEN stage' = [stage EXCEPT ![c] = "work"] /\ UNCHANGED at
               ELSE NextRow(c)
            /\ troubled' = IF WentWrong(c) THEN troubled \cup {Row(c)} ELSE troubled
    /\ UNCHANGED <<ctxDone, worked>>

\* The ten seconds of Demonstrate's context are over.
CtxEnds(c) ==
    /\ ~ctxDone[c]
    /\ ctxDone' = [ctxDone EXCEPT ![c] = TRUE]
    /\ UNCHANGED <<lvars, at, stage, worked, troubled>>

CallEnds(c) ==
    /\ ctxDone[c]
    /\ LCancel(c)
    /\ UNCHANGED <<at, stage, ctxDone, worked, troubled>>

Worker(c) == Take(c) \/ Work(c) \/ InCall(c) \/ CallEnds(c)

WTick == Tick /\ UNCHANGED <<at, stage, ctxDone, worked, troubled>>

WStep == \/ \E c \in Client : (Worker(c) /\ Watch) \/ CtxEnds(c)
         \/ WTick /\ Watch

WSpec == WInit /\ [][WStep]_wvars

-----------------------------------------------------------------------------
(* A worker works on a row under a lease it was granted on it, and no two   *)
(* work on one row as long as those leases have not run out meanwhile      *)
(* (demonstration.go:458-482).                                             *)
WorkIsExclusive ==
    \A c \in Client : stage[c] = "work" =>
        /\ held[c][Row(c)] # Absent
        /\ \A d \in Client \ {c} :
              stage[d] = "work" /\ Row(d) = Row(c)
              => ~Alive(held[c][Row(c)]) \/ ~Alive(held[d][Row(d)])

(* A worker skips a row that is locked or whose lock it failed to get in a *)
(* conflict, and no row is forgotten for that: once all have finished, each *)
(* has been worked on, or a call or the work on it went wrong.             *)
NothingForgotten ==
    (\A c \in Client : ~Busy(c)) =>
        \A i \in DOMAIN Page : Page[i] \in worked \cup troubled

\* The lock value "owner|token" by which a worker can give its row back, from
\* the lock to the end of Unlock's call (expect, lock.go:67).
Expect(c) ==
    IF stage[c] = "giving" THEN <<op[c].owner, op[c].token>>
    ELSE <<held[c][Row(c)].owner, held[c][Row(c)].token>>

GivesBack(c, p) ==
    /\ stage[c] \in {"work", "giving"}
    /\ Row(c) = p
    /\ Expect(c) = <<db[lockKeyForPK(p)].owner, db[lockKeyForPK(p)].token>>

(* No lock is left behind: as long as none of a row's calls went wrong, a  *)
(* lock on it that has not run out is that of a worker who is still at the *)
(* row and can give it back, whether the row could be decoded or not       *)
(* (demonstration.go:479), and however often Unlock is run.                *)
NoLockLeftBehind ==
    \A p \in PK \ troubled : Locked(p) => \E c \in Client : GivesBack(c, p)

=============================================================================
