---------------------------- MODULE MCConnections ----------------------------
(* Everything an engine can be asked to do beside its directories, once in *)
(* memory and once on one directory; and every choice of directories for   *)
(* engines whose goroutines, which never look at directories, stay off.    *)
EXTENDS Connections

OneDirectory ==
    {c \in Conns : c.kind = "mem" \/ (c.kind = "fs" /\ c.Dir \in Shared /\ c.ValueDir = NoPath)}
NoGoroutines == {o \in Options : o.GCInterval = 0 /\ ~o.WithMetrics}

MCTried == (Options \X OneDirectory) \cup (NoGoroutines \X Conns)

=============================================================================
