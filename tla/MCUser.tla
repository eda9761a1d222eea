------------------------------- MODULE MCUser -------------------------------
(* One user that is upserted and one that is inserted, by two goroutines.  *)
(* From one user to the next the type changes, its case only or also, or   *)
(* the office alone; one user has no type.                                 *)
EXTENDS UserIndex, TLC

U(t, o)   == [type |-> t, office |-> o]
MCUsers   == {U("admin", "507"), U("ADMIN", "507"), U("admin", "508"), U("", "507")}
MCNorm(u) == IF u.type = "ADMIN" THEN [u EXCEPT !.type = "admin"] ELSE u
MCKey      == UserKeys
MCValue    == UserValues
MCInserted == U("admin", "508")

\* Nothing tells the clients apart.
Symmetry == Permutations(Client)

\* What a step or a property looks at: of an open transaction's snapshot the
\* row its closure is about to read, and of the timestamps whether a key it
\* read has been committed since.
Seen(c) ==
    <<IF pc[c] = "run" /\ want[c].id \in UpsertId THEN tx[c].snap[PKKey(want[c].id)] ELSE Absent,
      IF pc[c] \in {"run", "check", "commit"}
      THEN \E k \in {PKKey(i) : i \in UpsertId} : ver[k] > tx[c].readTs ELSE FALSE,
      tx[c].reads, tx[c].pending>>

Relevant == <<db, commitTs, pc, attempt, [c \in Client |-> Seen(c)], want, step, rowless>>

=============================================================================
