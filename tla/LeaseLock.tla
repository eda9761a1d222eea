------------------------------ MODULE LeaseLock ------------------------------
(***************************************************************************)
(* What PkLocker promises: at most one lease per primary key, taken only   *)
(* when the last one is gone or has expired, and changed afterwards only   *)
(* by the client whose token it carries.                                   *)
(***************************************************************************)
EXTENDS Integers

CONSTANTS Client, PK, Lease, NoLease

VARIABLES lease, now

Init == lease = [p \in PK |-> NoLease] /\ now \in Nat

Live(p) == lease[p] # NoLease /\ lease[p].exp > now

Acquire(c, p, l) ==
    /\ ~Live(p)
    /\ l.token[1] = c
    /\ lease' = [lease EXCEPT ![p] = l]
    /\ UNCHANGED now

\* The same owner and token with another expiry.
Extend(c, p, l) ==
    /\ lease[p] # NoLease
    /\ lease[p].token[1] = c
    /\ l.owner = lease[p].owner
    /\ l.token = lease[p].token
    /\ lease' = [lease EXCEPT ![p] = l]
    /\ UNCHANGED now

Release(c, p) ==
    /\ lease[p] # NoLease
    /\ lease[p].token[1] = c
    /\ lease' = [lease EXCEPT ![p] = NoLease]
    /\ UNCHANGED now

Tick == now' = now + 1 /\ UNCHANGED lease

Next ==
    \/ \E c \in Client, p \in PK :
          \/ \E l \in Lease : Acquire(c, p, l) \/ Extend(c, p, l)
          \/ Release(c, p)
    \/ Tick

Spec == Init /\ [][Next]_<<lease, now>>

=============================================================================
