--------------------------- MODULE EngineLifecycle ---------------------------
(***************************************************************************)
(* engine.go, gc.go, metrics.go and runtime_utils.go: what open starts and *)
(* Close stops.  The actors are the goroutines of GoRecover, one running   *)
(* runGC and one running runFileModeMonitoring, the callers of Close, and  *)
(* whoever holds the context given to open.  BadgerDB is external: it runs *)
(* one value-log GC at a time, its Close waits for a running one, and from *)
(* then on RunValueLogGC is rejected.                                      *)
(***************************************************************************)
EXTENDS Integers

CONSTANTS
    Closer,     \* the goroutines that may call Close
    MaxRuns     \* maxRuns of runGC: passes for one tick of the timer

ASSUME LifecycleAssumption == MaxRuns \in Nat \ {0}

VARIABLES
    opts,      \* the options open looks at
    db,        \* badger.DB: "none", "open", "failed" or "closed"
    ctxDone,   \* the context given to open is done
    stopGC,    \* engine.stopGC is closed
    gc,        \* the GC goroutine
    mon,       \* the monitoring goroutine
    ticked,    \* runGC's timer has fired
    passes,    \* passes made for this tick
    running,   \* RunValueLogGC is rewriting a file
    closer     \* where each caller of Close is

gcvars == <<gc, ticked, passes, running>>
evars  == <<opts, db, ctxDone, stopGC, gcvars, mon, closer>>

Options == [GCInterval : {0, 1}, ReadOnly : BOOLEAN, InMemory : BOOLEAN, WithMetrics : BOOLEAN]

Init ==
    /\ opts \in Options
    /\ db = "none"
    /\ ctxDone = FALSE
    /\ stopGC = FALSE
    /\ gc = "off" /\ mon = "off"
    /\ ticked = FALSE /\ passes = 0 /\ running = FALSE
    /\ closer = [c \in Closer |-> "idle"]

-----------------------------------------------------------------------------
Open ==
    /\ db = "none"
    /\ db' = "open"
    /\ gc' = IF opts.GCInterval > 0 /\ ~opts.ReadOnly THEN "spawned" ELSE "off"
    /\ mon' = IF opts.WithMetrics /\ ~opts.InMemory THEN "spawned" ELSE "off"
    /\ UNCHANGED <<opts, ctxDone, stopGC, ticked, passes, running, closer>>

\* badger.Open fails: nothing is started, and there is no engine to close.
OpenFails ==
    /\ db = "none"
    /\ db' = "failed"
    /\ UNCHANGED <<opts, ctxDone, stopGC, gcvars, mon, closer>>

Cancel ==
    /\ ~ctxDone
    /\ ctxDone' = TRUE
    /\ UNCHANGED <<opts, db, stopGC, gcvars, mon, closer>>

-----------------------------------------------------------------------------
(* runGC under GoRecover.                                                  *)

\* Mutant of GcStart: in-memory engines are not turned away.
GcStartAlways ==
    /\ gc = "spawned"
    /\ gc' = IF ctxDone THEN "ended" ELSE "select"
    /\ UNCHANGED <<opts, db, ctxDone, stopGC, ticked, passes, running, mon, closer>>

GcStart ==
    /\ gc = "spawned"
    /\ gc' = IF ctxDone \/ opts.InMemory THEN "ended" ELSE "select"
    /\ UNCHANGED <<opts, db, ctxDone, stopGC, ticked, passes, running, mon, closer>>

\* The timer runs while runGC waits for it.
TimerFires ==
    /\ gc = "select"
    /\ ~ticked
    /\ ticked' = TRUE
    /\ UNCHANGED <<opts, db, ctxDone, stopGC, gc, passes, running, mon, closer>>

\* Mutant of SelectStop: runGC listens to its context only.
SelectCtxOnly ==
    /\ gc = "select"
    /\ ctxDone
    /\ gc' = "ended"
    /\ UNCHANGED <<opts, db, ctxDone, stopGC, ticked, passes, running, mon, closer>>

\* The cases of the select; when several are ready, either is taken.
SelectStop ==
    /\ gc = "select"
    /\ ctxDone \/ stopGC
    /\ gc' = "ended"
    /\ UNCHANGED <<opts, db, ctxDone, stopGC, ticked, passes, running, mon, closer>>

SelectTick ==
    /\ gc = "select"
    /\ ticked
    /\ gc' = "pass"
    /\ ticked' = FALSE
    /\ passes' = 0
    /\ UNCHANGED <<opts, db, ctxDone, stopGC, running, mon, closer>>

PassBegins ==
    /\ gc = "pass"
    /\ ~running
    /\ db = "open"
    /\ running' = TRUE
    /\ UNCHANGED <<opts, db, ctxDone, stopGC, gc, ticked, passes, mon, closer>>

\* After Close, RunValueLogGC answers ErrRejected.
PassRejected ==
    /\ gc = "pass"
    /\ ~running
    /\ db = "closed"
    /\ gc' = "select"
    /\ UNCHANGED <<opts, db, ctxDone, stopGC, ticked, passes, running, mon, closer>>

\* Mutant of PassRewrote: one pass too many.
PassRewroteOnceMore ==
    /\ running
    /\ running' = FALSE
    /\ passes' = passes + 1
    /\ gc' = IF passes + 1 <= MaxRuns THEN "pass" ELSE "select"
    /\ UNCHANGED <<opts, db, ctxDone, stopGC, ticked, mon, closer>>

\* A file was rewritten: on to the next pass, at most MaxRuns of them.
PassRewrote ==
    /\ running
    /\ running' = FALSE
    /\ passes' = passes + 1
    /\ gc' = IF passes + 1 < MaxRuns THEN "pass" ELSE "select"
    /\ UNCHANGED <<opts, db, ctxDone, stopGC, ticked, mon, closer>>

\* ErrNoRewrite or another error: no more passes until the next tick.
PassStops ==
    /\ running
    /\ running' = FALSE
    /\ gc' = "select"
    /\ UNCHANGED <<opts, db, ctxDone, stopGC, ticked, passes, mon, closer>>

\* GoRecover recovers a panic, and the goroutine is gone for good.
GcPanics ==
    /\ running
    /\ running' = FALSE
    /\ gc' = "ended"
    /\ UNCHANGED <<opts, db, ctxDone, stopGC, ticked, passes, mon, closer>>

PassEnds == PassRewrote \/ PassStops \/ GcPanics

-----------------------------------------------------------------------------
(* runFileModeMonitoring under GoRecover: it looks at nothing but its      *)
(* context, and reads the database whether or not that has been closed.    *)

MonStart ==
    /\ mon = "spawned"
    /\ mon' = IF ctxDone THEN "ended" ELSE "select"
    /\ UNCHANGED <<opts, db, ctxDone, stopGC, gcvars, closer>>

MonTick ==
    /\ mon = "select"
    /\ mon' = "stats"
    /\ UNCHANGED <<opts, db, ctxDone, stopGC, gcvars, closer>>

MonStats ==
    /\ mon = "stats"
    /\ mon' \in {"select", "ended"}    \* ended: it panicked
    /\ UNCHANGED <<opts, db, ctxDone, stopGC, gcvars, closer>>

\* Mutant of MonStop: it listens to Close instead of its context.
MonStopOnClose ==
    /\ mon = "select"
    /\ stopGC
    /\ mon' = "ended"
    /\ UNCHANGED <<opts, db, ctxDone, stopGC, gcvars, closer>>

MonStop ==
    /\ mon = "select"
    /\ ctxDone
    /\ mon' = "ended"
    /\ UNCHANGED <<opts, db, ctxDone, stopGC, gcvars, closer>>

-----------------------------------------------------------------------------
(* Close.                                                                  *)

CloseStops(c) ==
    /\ db = "open"
    /\ closer[c] = "idle"
    /\ ~stopGC
    /\ stopGC' = TRUE
    /\ closer' = [closer EXCEPT ![c] = "closing"]
    /\ UNCHANGED <<opts, db, ctxDone, gcvars, mon>>

\* close of a closed channel.
ClosePanics(c) ==
    /\ closer[c] = "idle"
    /\ stopGC
    /\ closer' = [closer EXCEPT ![c] = "panicked"]
    /\ UNCHANGED <<opts, db, ctxDone, stopGC, gcvars, mon>>

\* Mutant of CloseDb: Close waits until the GC goroutine has reported its end.
CloseDbJoinsGC(c) ==
    /\ closer[c] = "closing"
    /\ gc = "ended"
    /\ db' = "closed"
    /\ closer' = [closer EXCEPT ![c] = "returned"]
    /\ UNCHANGED <<opts, ctxDone, stopGC, gcvars, mon>>

\* db.Close waits for the GC pass under way.
CloseDb(c) ==
    /\ closer[c] = "closing"
    /\ ~running
    /\ db' = "closed"
    /\ closer' = [closer EXCEPT ![c] = "returned"]
    /\ UNCHANGED <<opts, ctxDone, stopGC, gcvars, mon>>

Gc  == \/ GcStart \/ SelectStop \/ SelectTick
       \/ PassBegins \/ PassRejected \/ PassEnds
Mon == MonStart \/ MonTick \/ MonStats \/ MonStop

\* What goes on beside the opening and the closing of the database.
Beside == \/ Cancel \/ Gc \/ TimerFires \/ Mon
          \/ \E c \in Closer : CloseStops(c) \/ ClosePanics(c)

Next == Open \/ OpenFails \/ Beside \/ \E c \in Closer : CloseDb(c)

Spec == Init /\ [][Next]_evars

\* The goroutines are scheduled.  A ready case of a select is taken in the
\* end, since Go picks among the ready ones at random; and Close's turn for
\* Badger's GC slot comes, since waiting senders are served in order.
Fairness ==
    /\ WF_evars(GcStart) /\ SF_evars(SelectStop) /\ WF_evars(SelectTick)
    /\ WF_evars(PassBegins \/ PassRejected) /\ WF_evars(PassEnds)
    /\ WF_evars(MonStart) /\ SF_evars(MonStop) /\ WF_evars(MonStats)
    /\ \A c \in Closer : SF_evars(CloseDb(c))

FairSpec == Spec /\ Fairness

-----------------------------------------------------------------------------
(* Every variable keeps its type, and a GC pass is under way only inside   *)
(* the goroutine that started it.                                          *)
TypeOK ==
    /\ opts \in Options
    /\ db \in {"none", "open", "failed", "closed"}
    /\ ctxDone \in BOOLEAN /\ stopGC \in BOOLEAN /\ ticked \in BOOLEAN
    /\ gc \in {"off", "spawned", "select", "pass", "ended"}
    /\ mon \in {"off", "spawned", "select", "stats", "ended"}
    /\ passes \in 0 .. MaxRuns
    /\ running \in BOOLEAN
    /\ running => gc = "pass" /\ passes < MaxRuns
    /\ closer \in [Closer -> {"idle", "closing", "returned", "panicked"}]

(* Value-log GC runs only on an engine that writes to disk: the check in    *)
(* open and the one in runGC leave no combination of options out.           *)
GcOnlyOnDisk == running => opts.GCInterval > 0 /\ ~opts.ReadOnly /\ ~opts.InMemory /\ db = "open"

(* Close, like the end of the context, ends the GC goroutine, even when it  *)
(* is between passes or its timer fires at the same moment.                 *)
GcStops == stopGC \/ ctxDone ~> gc \in {"off", "ended"}

(* The first Close returns, though a GC may be running or start once more.  *)
CloseReturns == \A c \in Closer : closer[c] = "closing" ~> closer[c] = "returned"

(* The monitoring goroutine ends with the context given to open.            *)
MonitorStops == ctxDone ~> mon \in {"off", "ended"}

=============================================================================
