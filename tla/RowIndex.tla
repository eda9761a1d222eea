------------------------------ MODULE RowIndex ------------------------------
(***************************************************************************)
(* What UserIndex promises of its rows: an upsert takes effect at once and *)
(* on the row as it then is, the inserts write a row and its entry.        *)
(***************************************************************************)
CONSTANTS
    Id, User, NoUser,
    Blank,       \* what an insert leaves in a row whose user it lost
    Norm(_)      \* the parts of a user that its index entries spell out

VARIABLES
    row,         \* the user every id has
    composite,   \* the composite entries that name it
    unique       \* the unique entries that name it

rvars == <<row, composite, unique>>

Init ==
    /\ row = [i \in Id |-> NoUser]
    /\ composite = [i \in Id |-> {}]
    /\ unique = [i \in Id |-> {}]

\* A user without a type has no entries.
Indexed(x) == IF x \in User /\ x.type # "" THEN {Norm(x)} ELSE {}

\* The entry of the old user goes if the type changed, and comes again if
\* the new user's entry is the same.
Upsert(i, u) ==
    LET old  == row[i]
        gone == {n \in Indexed(old) : old.type # u.type}
    IN  /\ row' = [row EXCEPT ![i] = u]
        /\ composite' = [composite EXCEPT ![i] = (@ \ gone) \cup Indexed(u)]
        /\ unique' = [unique EXCEPT ![i] = @ \cup Indexed(u)]

\* The entry is that of the user who was meant.
Insert(i, u) ==
    /\ \E r \in {u, Blank} : row' = [row EXCEPT ![i] = r]
    /\ composite' = [composite EXCEPT ![i] = @ \cup {Norm(u)}]
    /\ UNCHANGED unique

\* An insert without a transaction writes one after the other.
Row(i, u) ==
    /\ row' = [row EXCEPT ![i] = u]
    /\ UNCHANGED <<composite, unique>>

Entry(i, u) ==
    /\ composite' = [composite EXCEPT ![i] = @ \cup {Norm(u)}]
    /\ UNCHANGED <<row, unique>>

Next ==
    \E i \in Id, u \in User : Upsert(i, u) \/ Insert(i, u) \/ Row(i, u) \/ Entry(i, u)

Spec == Init /\ [][Next]_rvars

=============================================================================
