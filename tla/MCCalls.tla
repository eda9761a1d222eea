------------------------------ MODULE MCCalls ------------------------------
(* Against rivals that never tire.  Of the timestamps the manager          *)
(* and Badger only ever ask whether a key was committed after an open      *)
(* transaction's snapshot, and a new commit is later than every snapshot:  *)
(* states that agree on the rest and on those answers behave the same, so  *)
(* TLC takes them for one, and the number of commits needs no small bound. *)
EXTENDS TxnManager

Open == {c \in Client : pc[c] \in {"run", "check", "commit"}}

Unstamped == [c \in Client |-> [tx[c] EXCEPT !.readTs = 0]]
Behind    == {ck \in Open \X Key : ver[ck[2]] > tx[ck[1]].readTs}

Untimed == <<db, pc, mode, attempt, cancelled, result, Unstamped, Behind>>

=============================================================================
