----------------------------- MODULE TxnHistory -----------------------------
(***************************************************************************)
(* TxnManager with a record of what happened: every content the store has  *)
(* had, when each call began, what it answered and how often its writes    *)
(* were installed.  The recorded variables only watch; they are what the   *)
(* abstract SerialStore and the promises of a call are stated about.       *)
(***************************************************************************)
EXTENDS TxnManager, Sequences

VARIABLES
    hist,     \* the contents of the store after 0, 1, 2, ... commits
    began,    \* Len(hist) when the client's current or last call began
    out,      \* what that call answered, from which reads, with which writes
    applied,  \* how many times that call's writes were installed
    doomed    \* its context was done before it had passed its last check

recorded == <<hist, began, out, applied, doomed>>
hvars    == <<vars, recorded>>

NoKeys == [k \in {} |-> Absent]

HInit ==
    /\ Init
    /\ hist = <<db>>
    /\ began = [c \in Client |-> 1]
    /\ out = [c \in Client |-> [status |-> "idle", reads |-> NoKeys, writes |-> NoKeys]]
    /\ applied = [c \in Client |-> 0]
    /\ doomed = [c \in Client |-> FALSE]

\* What a returning call answers: it stands on the keys it read if it wrote
\* any, and on its whole snapshot if it did not.
Answered(c) ==
    CASE result'[c] = "ok" /\ Dirty(c) # {} ->
            [status |-> "ok", reads |-> [k \in tx[c].reads |-> tx[c].snap[k]],
             writes |-> [k \in Dirty(c) |-> tx[c].pending[k]]]
      [] result'[c] = "ok" /\ Dirty(c) = {} ->
            [status |-> "ok", reads |-> tx[c].snap, writes |-> NoKeys]
      [] result'[c] = "lost" /\ commitTs' # commitTs ->
            [status |-> "lost", reads |-> NoKeys, writes |-> NoKeys]
      [] OTHER ->
            [status |-> "failed", reads |-> NoKeys, writes |-> NoKeys]

Begins(c)   == pc[c] = "idle" /\ pc'[c] # "idle"
Ends(c)     == pc[c] # "idle" /\ pc'[c] = "idle"

\* Only a client's own step at "commit" installs its pending writes.
Installs(c) == pc[c] = "commit" /\ pc'[c] # "commit" /\ commitTs' # commitTs

Record ==
    /\ hist' = IF commitTs' # commitTs THEN Append(hist, db') ELSE hist
    /\ began' = [c \in Client |-> IF Begins(c) THEN Len(hist) ELSE began[c]]
    /\ out' = [c \in Client |->
                 CASE Begins(c) -> [status |-> "open", reads |-> NoKeys, writes |-> NoKeys]
                   [] Ends(c)   -> Answered(c)
                   [] OTHER     -> out[c]]
    /\ applied' = [c \in Client |->
                     CASE Begins(c)   -> 0
                       [] Installs(c) -> applied[c] + 1
                       [] OTHER       -> applied[c]]
    /\ doomed' = [c \in Client |->
                     /\ ~Begins(c)
                     /\ \/ doomed[c]
                        \/ cancelled'[c] /\ pc'[c] \notin {"idle", "commit"}]

HNext == Next /\ Record

HSpec == HInit /\ [][HNext]_hvars

-----------------------------------------------------------------------------
(* The promise of ExecuteReadWithContext and ExecuteReadWriteWithContext   *)
(* under DetectConflicts (engine.go:53-62, "protected, with retries"): the *)
(* committed calls are strictly serializable, and a call that reports a    *)
(* failure other than a lost commit has changed nothing.                   *)
Serial == INSTANCE SerialStore
SerialSpec == Serial!Spec

(* The loop runs the closure again and again, yet its writes are installed *)
(* at most once, and not at all when the call answers that it failed,      *)
(* was cancelled or gave up: no retry follows a commit that may have taken *)
(* effect.                                                                 *)
AtMostOnce ==
    \A c \in Client :
        /\ applied[c] <= 1
        /\ pc[c] # "idle" \/ result[c] \in {"failed", "ctx", "conflict"} => applied[c] = 0

(* A conflict is reported only after Retries + 1 attempts each lost to a   *)
(* commit of somebody else made while the call was under way: the loop     *)
(* never burns an attempt on a conflict it has already seen.               *)
RetryBudget ==
    \A c \in Client :
        /\ pc[c] # "idle" => attempt[c] <= commitTs + 1 - began[c]
        /\ result[c] = "conflict" => commitTs + 1 - began[c] >= Retries + 1

(* A call whose context ends before it has passed the check in front of    *)
(* Commit (txn_manager.go:103) changes nothing and says so, whether the    *)
(* context ends in the closure, between attempts or as the timer fires.    *)
StoppedByContext ==
    \A c \in Client : doomed[c] =>
        /\ applied[c] = 0
        /\ pc[c] = "idle" => result[c] \in {"ctx", "failed"}

=============================================================================
