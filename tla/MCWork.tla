------------------------------- MODULE MCWork -------------------------------
(* Two workers with one owner name and a page of one row: rows have lock    *)
(* entries of their own, and a worker is at one row at a time.              *)
EXTENDS LockedWork, TLC

CONSTANT p1

MCKey   == {lockKeyForPK(p) : p \in PK}
MCValue == Lease
OneRow  == <<p1>>

\* What the last call answered and what an idle one looked at is all one, as
\* are, of the timestamps, all but whether a key that an open transaction read
\* was committed since.
InTx   == {c \in Client : pc[c] \in {"run", "check", "commit"}}
Behind == {ck \in InTx \X Key : ver[ck[2]] > tx[ck[1]].readTs}
Seen   == [c \in Client |-> <<tx[c].snap, tx[c].reads, tx[c].pending>>]

Relevant ==
    <<db, commitTs, pc, attempt, cancelled, Seen, Behind, now, op, got, held,
      at, stage, ctxDone, worked, troubled>>

=============================================================================
