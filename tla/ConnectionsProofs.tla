-------------------------- MODULE ConnectionsProofs --------------------------
(***************************************************************************)
(* Theorems about Connections and the engine lifecycle in it, for any      *)
(* callers of Close, any number of GC passes and any directories.          *)
(***************************************************************************)
EXTENDS Connections, TLAPS

(* The GC goroutine beyond its first look at the options belongs to an     *)
(* engine that writes to disk, and Close comes after Open.                 *)
GcInv ==
    /\ gc # "off" => opts.GCInterval > 0 /\ ~opts.ReadOnly
    /\ gc \in {"select", "pass"} => ~opts.InMemory
    /\ running => db = "open"
    /\ gc = "pass" => passes < MaxRuns
    /\ gc # "off" => db \in {"open", "closed"}
    /\ stopGC => db \in {"open", "closed"}
    /\ \A c \in Closer : closer[c] # "idle" => stopGC

LifeInv == TypeOK /\ GcInv

\* What a pass of the GC loop counts stays below MaxRuns.
LEMMA Counts ==
  /\ 0 \in 0 .. MaxRuns /\ 0 < MaxRuns
  /\ \A n \in 0 .. MaxRuns : n < MaxRuns => n + 1 \in 0 .. MaxRuns
  BY LifecycleAssumption

\* The engine starts with nothing running.
LEMMA LifeInitInv == Init => LifeInv
  <1> SUFFICES ASSUME Init PROVE LifeInv
    OBVIOUS
  <1>1. closer \in [Closer -> {"idle", "closing", "returned", "panicked"}]
    BY DEF Init
  <1>2. \A c \in Closer : closer[c] = "idle"
    BY DEF Init
  <1> QED BY <1>1, <1>2, Counts DEF Init, LifeInv, TypeOK, GcInv

\* Every step of the engine keeps the invariant.
LEMMA LifeNextInv == LifeInv /\ [Next]_evars => LifeInv'
  <1> SUFFICES ASSUME LifeInv, [Next]_evars PROVE LifeInv'
    OBVIOUS
  <1> USE DEF LifeInv, TypeOK, GcInv
  <1>1. CASE UNCHANGED evars
    BY <1>1 DEF evars, gcvars
  <1>2. CASE Open
    BY <1>2 DEF Open, Options
  <1>3. CASE OpenFails
    BY <1>3 DEF OpenFails, gcvars
  <1>4. CASE Cancel
    BY <1>4 DEF Cancel, gcvars
  <1>5. CASE GcStart
    BY <1>5 DEF GcStart, Options
  <1>6. CASE SelectStop
    BY <1>6 DEF SelectStop
  <1>7. CASE SelectTick
    BY <1>7, Counts DEF SelectTick
  <1>8. CASE TimerFires
    BY <1>8 DEF TimerFires
  <1>9. CASE PassBegins
    BY <1>9 DEF PassBegins
  <1>10. CASE PassRejected
    BY <1>10 DEF PassRejected
  <1>11. CASE PassRewrote
    <2>1. passes + 1 \in 0 .. MaxRuns
      BY <1>11, Counts DEF PassRewrote
    <2> QED BY <1>11, <2>1 DEF PassRewrote
  <1>12. CASE PassStops
    BY <1>12 DEF PassStops
  <1>13. CASE GcPanics
    BY <1>13 DEF GcPanics
  <1>14. CASE Mon
    BY <1>14 DEF Mon, MonStart, MonTick, MonStats, MonStop, gcvars
  <1>15. ASSUME NEW c \in Closer, CloseStops(c) PROVE LifeInv'
    <2>1. /\ closer' \in [Closer -> {"idle", "closing", "returned", "panicked"}]
          /\ db = "open" /\ db' = "open" /\ stopGC'
      BY <1>15 DEF CloseStops
    <2> QED BY <1>15, <2>1 DEF CloseStops, gcvars
  <1>16. ASSUME NEW c \in Closer, ClosePanics(c) PROVE LifeInv'
    <2>1. /\ closer' \in [Closer -> {"idle", "closing", "returned", "panicked"}]
          /\ stopGC' /\ db' \in {"open", "closed"}
      BY <1>16 DEF ClosePanics
    <2> QED BY <1>16, <2>1 DEF ClosePanics, gcvars
  <1>17. ASSUME NEW c \in Closer, CloseDb(c) PROVE LifeInv'
    <2>1. /\ closer' \in [Closer -> {"idle", "closing", "returned", "panicked"}]
          /\ stopGC' /\ db' = "closed"
      BY <1>17 DEF CloseDb
    <2> QED BY <1>17, <2>1 DEF CloseDb, gcvars
  <1> QED BY <1>1, <1>2, <1>3, <1>4, <1>5, <1>6, <1>7, <1>8, <1>9, <1>10, <1>11, <1>12, <1>13,
         <1>14, <1>15, <1>16, <1>17
      DEF Next, Beside, Gc, PassEnds

(* An engine's variables keep their types, GC makes at most MaxRuns passes *)
(* for a tick and only inside its goroutine.                               *)
THEOREM EngineTypeCorrect == Spec => []TypeOK
  <1>1. Init => LifeInv
    BY LifeInitInv
  <1>2. LifeInv /\ [Next]_evars => LifeInv'
    BY LifeNextInv
  <1>3. LifeInv => TypeOK
    BY DEF LifeInv
  <1> QED BY <1>1, <1>2, <1>3, PTL DEF Spec

-----------------------------------------------------------------------------
\* Every step of the connections is a step of the engine or none of its.
LEMMA CNextIsNext == [CNext]_cvars => [Next]_evars
  BY DEF CNext, cvars, BeginCall, MakeDir, MakeValueDir, MakeFails, Cleanup, RemoveDir,
     RemoveValueDir, RemoveRefused, RemoveFails, RemoveAll, OpenStore, OpenStoreFails, CloseStore,
     OtherOpens, OtherCloses, OtherRemoves, Others, Next

(* Where the call is, and what is left in the directories of a temporary   *)
(* store on its way to open.                                               *)
FsInv ==
    /\ conn \in Conns
    /\ phase \in {"call", "mkDir", "mkValue", "rmDir", "rmValue", "open", "ready", "refused"}
    /\ place \in [Path \cup {Root} -> Place]
    /\ db \in {"open", "closed"} => phase \in {"ready", "rmDir", "rmValue"}
    /\ db = "none" => phase # "ready"
    /\ db = "failed" => phase = "refused"
    /\ phase \in {"rmDir", "rmValue"} => conn.kind = "temp"
    /\ phase \in {"mkDir", "mkValue"} => Makes
    /\ phase \in {"mkValue", "rmValue"} => HasValueDir
    /\ phase = "mkDir" => conn.Dir # NoPath
    /\ phase = "rmValue" => conn.Dir \in Path
    /\ phase = "open" /\ conn.kind = "temp" =>
          Named \subseteq Path
    /\ db = "none" /\ phase = "rmValue" => "old" \notin place[conn.Dir].files
    /\ db = "none" /\ phase = "open" /\ conn.kind = "temp" =>
          \A p \in Named : "old" \notin place[p].files

CInv == LifeInv /\ FsInv

\* What the directories of a call are.
LEMMA ConnFacts ==
  /\ NoPath \notin Path /\ Root \notin Path /\ NoPath # Root
  /\ Gone \in Place /\ OldStore \in Place
  /\ \A c \in Conns : /\ {c.Dir, c.ValueDir} \subseteq Path \cup {NoPath, Root}
                      /\ c.kind \in {"mem", "fs", "temp"}
                      /\ c.kind = "mem" => c.Dir = NoPath /\ c.ValueDir = NoPath
  BY ConnectionsAssumption DEF Conns, Gone, OldStore, Place

\* Every call starts with a typed place at every path.
LEMMA CInitInv == CInit => CInv
  <1> SUFFICES ASSUME CInit PROVE CInv
    OBVIOUS
  <1>1. LifeInv
    BY LifeInitInv DEF CInit
  <1>2. place \in [Path \cup {Root} -> Place]
    BY ConnFacts DEF CInit
  <1> QED BY <1>1, <1>2 DEF CInit, CInv, FsInv, Init

\* What is at a place changes there and nowhere else.
LEMMA PlaceType ==
  ASSUME FsInv, NEW p \in Path \cup {Root}, NEW x \in Place, place' = [place EXCEPT ![p] = x]
  PROVE  place' \in [Path \cup {Root} -> Place]
  BY DEF FsInv

\* Steps of the connection that leave the engine alone.
LEMMA CallInv ==
  ASSUME CInv, UNCHANGED <<evars, conn>>,
         \/ BeginCall \/ MakeDir \/ MakeValueDir \/ MakeFails \/ Cleanup
  PROVE  FsInv'
  <1> USE DEF CInv, FsInv
  <1>1. conn \in Conns /\ HasValueDir' = HasValueDir /\ Makes' = Makes /\ Named' = Named /\ db' = db
    BY DEF HasValueDir, Makes, Named, evars
  <1>2. ASSUME NEW p \in Path \cup {Root}, Make(p) PROVE place' \in [Path \cup {Root} -> Place]
    <2>1. [place[p] EXCEPT !.exists = TRUE] \in Place
      <3>1. place[p] \in Place
        OBVIOUS
      <3> QED BY <3>1 DEF Place
    <2> QED BY <1>2, <2>1 DEF Make
  <1>3. CASE BeginCall
    BY <1>1, <1>3, ConnFacts DEF BeginCall, Prepared, Makes
  <1>4. CASE MakeDir
    <2>1. conn.Dir \in Path \cup {Root}
      BY <1>4, ConnFacts DEF MakeDir
    <2> QED BY <1>1, <1>2, <1>4, <2>1, ConnFacts DEF MakeDir, Prepared, Makes
  <1>5. CASE MakeValueDir
    <2>1. conn.ValueDir \in Path \cup {Root}
      BY <1>5, ConnFacts DEF MakeValueDir, HasValueDir
    <2> QED BY <1>1, <1>2, <1>5, <2>1, ConnFacts DEF MakeValueDir, Prepared, Makes
  <1>6. CASE MakeFails
    BY <1>1, <1>6 DEF MakeFails
  <1>7. CASE Cleanup
    BY <1>1, <1>7 DEF Cleanup
  <1> QED BY <1>3, <1>4, <1>5, <1>6, <1>7

\* Removing the directories keeps the invariant.
LEMMA RemoveInv ==
  ASSUME CInv, \/ RemoveDir \/ RemoveValueDir \/ RemoveRefused \/ RemoveFails
  PROVE  FsInv'
  <1> USE DEF CInv, FsInv
  <1>0. /\ UNCHANGED <<db, opts, conn>> /\ db \in {"none", "open", "closed"}
        /\ conn \in Conns /\ conn.kind = "temp" /\ phase \in {"rmDir", "rmValue"}
    BY DEF RemoveDir, RemoveValueDir, RemoveRefused, RemoveFails, RemoveAll, evars,
       LifeInv, TypeOK
  <1>1. HasValueDir' = HasValueDir /\ Makes' = Makes /\ Named' = Named
    BY <1>0 DEF HasValueDir, Makes, Named
  <1>2. ASSUME NEW p \in Path, RemoveAll(p)
        PROVE  place' \in [Path \cup {Root} -> Place] /\ place'[p].files = {}
    BY <1>2, ConnFacts DEF RemoveAll, Gone
  <1>3. CASE RemoveDir
    <2>1. conn.Dir \in Path /\ RemoveAll(conn.Dir)
      BY <1>3 DEF RemoveDir
    <2>2. ~HasValueDir => Named = {conn.Dir}
      BY <2>1, ConnFacts DEF HasValueDir, Named
    <2> QED BY <1>0, <1>1, <1>2, <1>3, <2>1, <2>2 DEF RemoveDir, Removed
  <1>4. CASE RemoveValueDir
    <2>1. conn.ValueDir \in Path /\ RemoveAll(conn.ValueDir) /\ conn.Dir \in Path
      BY <1>4 DEF RemoveValueDir
    <2>2. Named = {conn.Dir, conn.ValueDir} /\ conn.ValueDir # conn.Dir
      BY <1>4, <2>1, ConnFacts DEF HasValueDir, Named, RemoveValueDir
    <2>3. place'[conn.Dir] = place[conn.Dir]
      BY <2>1, <2>2 DEF RemoveAll
    <2> QED BY <1>0, <1>1, <1>2, <1>4, <2>1, <2>2, <2>3 DEF RemoveValueDir, Removed
  <1>5. CASE RemoveRefused
    BY <1>0, <1>1, <1>5 DEF RemoveRefused, NotRemoved
  <1>6. CASE RemoveFails
    <2>1. PICK p \in Path : place' \in {place, [place EXCEPT ![p].files = {}]}
      BY <1>6 DEF RemoveFails
    <2>2. [place[p] EXCEPT !.files = {}] \in Place
      <3>1. place[p] \in Place
        OBVIOUS
      <3> QED BY <3>1 DEF Place
    <2>3. place' \in [Path \cup {Root} -> Place]
      BY <2>1, <2>2
    <2> QED BY <1>0, <1>1, <1>6, <2>3 DEF RemoveFails, NotRemoved
  <1> QED BY <1>3, <1>4, <1>5, <1>6

\* So does opening the store in them.
LEMMA OpenStoreInv ==
  ASSUME CInv, OpenStore \/ OpenStoreFails
  PROVE  FsInv'
  <1> USE DEF CInv, FsInv
  <1>0. ASSUME NEW p \in Path \cup {Root}, NEW l \in {"free", "engine"}
        PROVE  Begun(p, l) \in Place
    <2>1. place[p] \in Place
      OBVIOUS
    <2>2. place[p].files \subseteq {"old", "new"}
      BY <2>1 DEF Place
    <2> QED BY <2>2 DEF Place, Begun
  <1>1. CASE OpenStore
    <2>1. conn \in Conns /\ conn' = conn /\ phase' = "ready" /\ db' = "open"
      BY <1>1 DEF OpenStore, Open
    <2>2. place' \in [Path \cup {Root} -> Place]
      BY <1>0, <1>1 DEF OpenStore
    <2> QED BY <2>1, <2>2
  <1>2. CASE OpenStoreFails
    <2>1. conn' = conn /\ phase' = "refused" /\ db' = "failed"
      BY <1>2 DEF OpenStoreFails, OpenFails
    <2>2. place' \in [Path \cup {Root} -> Place]
      BY <1>0, <1>2 DEF OpenStoreFails
    <2> QED BY <2>1, <2>2
  <1> QED BY <1>1, <1>2

\* So does closing it.
LEMMA CloseStoreInv ==
  ASSUME CInv, NEW c \in Closer, CloseStore(c)
  PROVE  FsInv'
  <1> USE DEF CInv, FsInv
  <1>1. /\ conn' = conn /\ phase' = phase /\ db' = "closed" /\ opts' = opts
        /\ db \in {"open", "closed"}
    BY DEF CloseStore, CloseDb, LifeInv, TypeOK, GcInv
  <1>2. ASSUME NEW p \in Path \cup {Root} PROVE [place[p] EXCEPT !.lock = "free"] \in Place
    <2>1. place[p] \in Place
      OBVIOUS
    <2> QED BY <2>1 DEF Place
  <1>3. place' \in [Path \cup {Root} -> Place]
    BY <1>2 DEF CloseStore
  <1>4. HasValueDir' = HasValueDir /\ Makes' = Makes
    BY <1>1 DEF HasValueDir, Makes
  <1> QED BY <1>1, <1>3, <1>4

\* Steps beside the directories, and steps of the others, who bring no files
\* of earlier times.
LEMMA BesideInv ==
  ASSUME CInv, Beside, UNCHANGED dirvars
  PROVE  FsInv'
  <1>1. db' = db /\ opts' = opts /\ UNCHANGED <<conn, phase, place>>
    BY DEF Beside, Cancel, Gc, GcStart, SelectStop, SelectTick, PassBegins, PassRejected, PassEnds,
       PassRewrote, PassStops, GcPanics, TimerFires, Mon, MonStart, MonTick, MonStats, MonStop,
       CloseStops, ClosePanics, dirvars
  <1> QED BY <1>1 DEF CInv, FsInv, Makes, HasValueDir, Named

\* So does whatever the others do to a place.
LEMMA OthersInv ==
  ASSUME CInv, NEW p \in Path, OtherOpens(p) \/ OtherCloses(p) \/ OtherRemoves(p)
  PROVE  FsInv'
  <1> USE DEF CInv, FsInv
  <1>1. UNCHANGED <<db, opts, conn, phase>>
    BY DEF OtherOpens, OtherCloses, OtherRemoves, Others, evars
  <1>2. place[p] \in Place
    OBVIOUS
  <1>3. PICK x \in Place : place' = [place EXCEPT ![p] = x] /\ ("old" \in x.files => "old" \in place[p].files)
    <2>1. CASE OtherOpens(p)
      <3> DEFINE x == [exists |-> TRUE, files |-> place[p].files \cup {"new"}, lock |-> "other"]
      <3>1. x \in Place
        BY <1>2 DEF Place
      <3>2. place' = [place EXCEPT ![p] = x]
        BY <2>1 DEF OtherOpens
      <3> QED BY <3>1, <3>2
    <2>2. CASE OtherCloses(p)
      <3> DEFINE x == [place[p] EXCEPT !.lock = "free"]
      <3>1. x \in Place /\ x.files = place[p].files
        BY <1>2 DEF Place
      <3>2. place' = [place EXCEPT ![p] = x]
        BY <2>2 DEF OtherCloses
      <3> QED BY <3>1, <3>2
    <2>3. CASE OtherRemoves(p)
      BY <2>3, ConnFacts DEF OtherRemoves, Gone
    <2> QED BY <2>1, <2>2, <2>3
  <1>4. place' \in [Path \cup {Root} -> Place]
    BY <1>3
  <1>5. \A q \in Path : "old" \in place'[q].files => "old" \in place[q].files
    BY <1>3
  <1>6. HasValueDir' = HasValueDir /\ Makes' = Makes /\ Named' = Named
    BY <1>1 DEF HasValueDir, Makes, Named
  <1> QED BY <1>1, <1>4, <1>5, <1>6

\* Every step keeps the invariant.
LEMMA CNextInv == CInv /\ [CNext]_cvars => CInv'
  <1> SUFFICES ASSUME CInv, [CNext]_cvars PROVE CInv'
    OBVIOUS
  <1>1. LifeInv'
    BY CNextIsNext, LifeNextInv DEF CInv
  <1>2. CASE UNCHANGED cvars
    BY <1>1, <1>2 DEF CInv, FsInv, cvars, dirvars, evars, Makes, HasValueDir, Named
  <1>3. CASE BeginCall \/ MakeDir \/ MakeValueDir \/ MakeFails \/ Cleanup
    <2>1. UNCHANGED <<evars, conn>>
      BY <1>3 DEF BeginCall, MakeDir, MakeValueDir, MakeFails, Cleanup
    <2> QED BY <1>1, <1>3, <2>1, CallInv DEF CInv
  <1>4. CASE RemoveDir \/ RemoveValueDir \/ RemoveRefused \/ RemoveFails
    BY <1>1, <1>4, RemoveInv DEF CInv
  <1>5. CASE OpenStore \/ OpenStoreFails
    BY <1>1, <1>5, OpenStoreInv DEF CInv
  <1>6. ASSUME NEW c \in Closer, CloseStore(c) PROVE CInv'
    BY <1>1, <1>6, CloseStoreInv DEF CInv
  <1>7. CASE Beside /\ UNCHANGED dirvars
    BY <1>1, <1>7, BesideInv DEF CInv
  <1>8. ASSUME NEW p \in Shared, OtherOpens(p) \/ OtherCloses(p) \/ OtherRemoves(p) PROVE CInv'
    BY <1>1, <1>8, OthersInv, ConnectionsAssumption DEF CInv
  <1> QED BY <1>2, <1>3, <1>4, <1>5, <1>6, <1>7, <1>8 DEF CNext

\* The invariant of the connection functions.
LEMMA CInvariance == CSpec => []CInv
  BY CInitInv, CNextInv, PTL DEF CSpec

(* The variables of engine and connection keep their types, and an open    *)
(* engine has gone through the whole of its function.                      *)
THEOREM ConnectionsTypeCorrect == CSpec => []CTypeOK
  <1>1. CInv => CTypeOK
    BY DEF CInv, LifeInv, FsInv, CTypeOK
  <1> QED BY <1>1, CInvariance, PTL

(* Value-log GC runs only on an engine that writes to disk and is open,    *)
(* whichever function opened it.                                           *)
THEOREM GcStaysOnDisk == CSpec => []GcOnlyOnDisk
  <1>1. CInv => GcOnlyOnDisk
    BY DEF CInv, LifeInv, TypeOK, GcInv, GcOnlyOnDisk
  <1> QED BY <1>1, CInvariance, PTL

-----------------------------------------------------------------------------
\* Of the steps in the directories only removals take files away.
LEMMA NothingLost ==
  ASSUME CInv, [CNext]_cvars, NEW p \in Path \cup {Root}, Lost(p) # {}
  PROVE  \/ RemoveDir /\ p = conn.Dir
         \/ RemoveValueDir /\ p = conn.ValueDir
         \/ RemoveFails /\ p = IF phase = "rmDir" THEN conn.Dir ELSE conn.ValueDir
         \/ p \in Shared /\ OtherRemoves(p)
  <1> USE DEF Lost
  <1>0. place \in [Path \cup {Root} -> Place] /\ place'[p].files # place[p].files
    BY DEF CInv, FsInv
  <1>1. ASSUME NEW q, Make(q) PROVE FALSE
    BY <1>0, <1>1 DEF Make
  <1>2. ~(UNCHANGED place)
    BY <1>0
  <1>3. ~(BeginCall \/ MakeFails \/ Cleanup \/ RemoveRefused)
    BY <1>2 DEF BeginCall, MakeFails, Cleanup, RemoveRefused
  <1>4. ~MakeDir /\ ~MakeValueDir
    BY <1>1 DEF MakeDir, MakeValueDir
  <1>5. ASSUME RemoveDir PROVE p = conn.Dir
    BY <1>0, <1>5 DEF RemoveDir, RemoveAll
  <1>6. ASSUME RemoveValueDir PROVE p = conn.ValueDir
    BY <1>0, <1>6 DEF RemoveValueDir, RemoveAll
  <1>7. ASSUME RemoveFails PROVE p = IF phase = "rmDir" THEN conn.Dir ELSE conn.ValueDir
    BY <1>0, <1>7 DEF RemoveFails
  <1>8. ~OpenStore /\ ~OpenStoreFails
    <2> SUFFICES ASSUME OpenStore \/ OpenStoreFails PROVE place[p].files \subseteq place'[p].files
      BY DEF Lost
    <2>1. p \in DOMAIN place
      BY <1>0
    <2> QED BY <2>1 DEF OpenStore, OpenStoreFails, Begun
  <1>9. ASSUME NEW c \in Closer, CloseStore(c) PROVE FALSE
    BY <1>0, <1>9 DEF CloseStore
  <1>10. ASSUME NEW q \in Shared, OtherOpens(q) PROVE FALSE
    <2>1. place[p].files \subseteq place'[p].files
      BY <1>0, <1>10 DEF OtherOpens
    <2> QED BY <2>1
  <1>11. ASSUME NEW q \in Shared, OtherCloses(q) PROVE FALSE
    BY <1>0, <1>11 DEF OtherCloses
  <1>12. ASSUME NEW q \in Shared, OtherRemoves(q) PROVE p = q
    BY <1>0, <1>12 DEF OtherRemoves
  <1>13. ~(Beside /\ UNCHANGED dirvars) /\ ~(UNCHANGED cvars)
    BY <1>2 DEF cvars, dirvars
  <1> QED BY <1>3, <1>4, <1>5, <1>6, <1>7, <1>8, <1>9, <1>10, <1>11, <1>12, <1>13 DEF CNext

(* Files go only where a temporary open, or its cleanup function, was given *)
(* their directory, or where somebody else removed them; "/" never goes.   *)
THEOREM FilesAreSafe == CSpec => FilesSurvive
  <1>1. ASSUME CInv, [CNext]_cvars, NEW p \in Path \cup {Root}, Lost(p) # {}
        PROVE  \/ conn.kind = "temp" /\ phase \in {"rmDir", "rmValue"}
                  /\ conn.Dir \in Path /\ p \in Named \ {Root}
               \/ p \in Shared /\ OtherRemoves(p)
    <2>1. CASE RemoveDir /\ p = conn.Dir
      BY <1>1, <2>1, ConnFacts DEF RemoveDir, CInv, FsInv, Named
    <2>2. CASE RemoveValueDir /\ p = conn.ValueDir
      BY <1>1, <2>2, ConnFacts DEF RemoveValueDir, CInv, FsInv, Named
    <2>3. CASE RemoveFails /\ p = IF phase = "rmDir" THEN conn.Dir ELSE conn.ValueDir
      BY <1>1, <2>3, ConnFacts DEF RemoveFails, CInv, FsInv, Named
    <2> QED BY <1>1, <2>1, <2>2, <2>3, NothingLost
  <1>2. CInv /\ [CNext]_cvars =>
          [\A p \in Path \cup {Root} : Lost(p) # {} =>
              \/ conn.kind = "temp" /\ phase \in {"rmDir", "rmValue"}
                 /\ conn.Dir \in Path /\ p \in Named \ {Root}
              \/ p \in Shared /\ OtherRemoves(p)]_cvars
    BY <1>1
  <1> QED BY <1>2, CInvariance, PTL DEF CSpec, FilesSurvive

(* A temporary store opens on none of the files that were in its           *)
(* directories when the call began.                                        *)
THEOREM TempStoresAreFresh == CSpec => TempOpensFresh
  <1>1. ASSUME CInv, [CNext]_cvars, conn.kind = "temp", db = "none", db' = "open"
        PROVE  \A p \in Used : "old" \notin place'[p].files
    <2>1. OpenStore
      <3>1. db' # db
        BY <1>1
      <3>2. ~(UNCHANGED evars) /\ ~(\E c \in Closer : CloseStore(c)) /\ ~OpenStoreFails
        BY <1>1 DEF evars, CloseStore, CloseDb, OpenStoreFails, OpenFails
      <3>3. ~Beside
        BY <1>1 DEF Beside, Cancel, Gc, GcStart, SelectStop, SelectTick, PassBegins, PassRejected,
           PassEnds, PassRewrote, PassStops, GcPanics, TimerFires, Mon, MonStart, MonTick, MonStats,
           MonStop, CloseStops, ClosePanics
      <3> QED BY <1>1, <3>2, <3>3 DEF CNext, cvars, BeginCall, MakeDir, MakeValueDir, MakeFails,
              Cleanup, RemoveDir, RemoveValueDir, RemoveRefused, RemoveFails, RemoveAll,
              OtherOpens, OtherCloses, OtherRemoves, Others
    <2>2. phase = "open" /\ Named \subseteq Path /\ \A p \in Named : "old" \notin place[p].files
      BY <1>1, <2>1 DEF OpenStore, CInv, FsInv
    <2>3. SUFFICES ASSUME NEW p \in Used PROVE "old" \notin place'[p].files
      OBVIOUS
    <2>4. p \in Named /\ p \in DOMAIN place
      BY <1>1, <2>2, <2>3 DEF Used, CInv, FsInv
    <2> QED BY <2>1, <2>2, <2>4 DEF OpenStore, Begun
  <1>2. CInv /\ [CNext]_cvars =>
          [conn.kind = "temp" /\ db = "none" /\ db' = "open" =>
              \A p \in Used : "old" \notin place'[p].files]_cvars
    BY <1>1
  <1> QED BY <1>2, CInvariance, PTL DEF CSpec, TempOpensFresh

=============================================================================
