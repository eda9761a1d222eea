------------------------------ MODULE MCLocker ------------------------------
(* Clients with one owner name that lock one primary key.                  *)
EXTENDS PkLocker, TLC

MCKey   == {lockKeyForPK(p) : p \in PK}
MCValue == Lease

\* Nothing tells clients, keys or owners apart.
Symmetry == Permutations(Client) \cup Permutations(PK) \cup Permutations(Owner)

\* What no step and no property looks at: what an idle client's last call was
\* and answered, and of the timestamps all but the latest and whether a key was
\* committed after an open transaction's snapshot.
Open   == {c \in Client : pc[c] \in {"run", "check", "commit"}}
Behind == {ck \in Open \X Key : ver[ck[2]] > tx[ck[1]].readTs}
Seen   == [c \in Client |-> <<tx[c].snap, tx[c].reads, tx[c].pending>>]

Relevant ==
    <<db, commitTs, pc, attempt, cancelled, Seen, Behind, now, op, got, held, watch>>

=============================================================================
