------------------------------- MODULE MCTxn -------------------------------
(* Two goroutines over two keys: the instance TLC checks of TxnHistory.    *)
EXTENDS TxnHistory, FiniteSets, TLC

CONSTANT MaxTouches   \* bound: how many reads and writes a closure makes

\* Clients, keys and values are interchangeable: nothing orders or picks them.
Symmetry == Permutations(Client) \cup Permutations(Key) \cup Permutations(Value)

\* Two touches of two keys are what write skew, lost updates and snapshots
\* that mix two instants take.
SmallClosures ==
    \A c \in Client : Cardinality(tx[c].reads) + Cardinality(Dirty(c)) <= MaxTouches

=============================================================================
