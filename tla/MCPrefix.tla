----------------------------- MODULE MCPrefix ------------------------------
(* The instance TLC checks of PrefixIterator.                              *)
EXTENDS PrefixIterator

\* A walk over the rows themselves never looks at an index entry, and what the
\* entries are when it is over is what they might have been from the start:
\* states that differ only there are one state.
WalkedOver ==
    IF kind = "pk" /\ phase # "idle" THEN <<rows, snap.rows>> ELSE <<Now, snap>>

Relevant == <<WalkedOver, writes, walk, phase, cursor, at, page, seen, stable>>

=============================================================================
