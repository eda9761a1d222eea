----------------------------- MODULE Connections -----------------------------
(***************************************************************************)
(* engine.go: the three Open...Connection functions and what they do to    *)
(* directories before they call open, and the cleanup function that        *)
(* OpenTempFSConnection leaves with its caller.  The engine is that of     *)
(* EngineLifecycle.  Beside it, others use the same directories through    *)
(* the same functions: they open and close stores there and, by temporary  *)
(* opens and cleanups of their own, remove them.  The file system and      *)
(* Badger's use of it are external: Badger creates missing directories,    *)
(* locks those it opens, and needs the files if it is to read only.        *)
(***************************************************************************)
EXTENDS EngineLifecycle

CONSTANTS
    Path,     \* directories a configuration may name
    Shared,   \* those of them that others use
    NoPath,   \* the empty string
    Root,     \* "/"
    Calls     \* the options and connections tried

VARIABLES
    conn,     \* the function called, and the Dir and ValueDir it hands to open
    phase,    \* where the call, or later the cleanup function, is
    place     \* what is at each path

dirvars == <<conn, phase, place>>
cvars   == <<evars, dirvars>>

\* A place holds files from before the call, or files written since, and
\* its directory may be locked by somebody.
Place == [exists : BOOLEAN, files : SUBSET {"old", "new"}, lock : {"free", "engine", "other"}]
Gone     == [exists |-> FALSE, files |-> {}, lock |-> "free"]
OldStore == [exists |-> TRUE, files |-> {"old"}, lock |-> "free"]

\* OpenOnlyInMemoryConnection leaves both directories out of its options.
Conns == [kind : {"mem"}, Dir : {NoPath}, ValueDir : {NoPath}]
             \cup [kind : {"fs", "temp"}, Dir : Path \cup {NoPath, Root},
                   ValueDir : Path \cup {NoPath, Root}]

ASSUME ConnectionsAssumption ==
    /\ Root \notin Path /\ NoPath \notin Path \cup {Root}
    /\ Shared \subseteq Path
    /\ Calls \subseteq Options \X Conns

Named       == {conn.Dir, conn.ValueDir} \ {NoPath}
HasValueDir == conn.ValueDir \notin {NoPath, conn.Dir}

CInit ==
    /\ Init
    /\ conn \in Conns
    /\ <<opts, conn>> \in Calls
    /\ phase = "call"
    /\ place \in [Path \cup {Root} -> {Gone, OldStore}]
    /\ place[Root] = OldStore

-----------------------------------------------------------------------------
(* From the call to open: directories are made, then those of a temporary  *)
(* store removed again.                                                    *)

\* Only a store that will write to disk has its directories made.
Makes    == conn.kind # "mem" /\ ~opts.InMemory /\ ~opts.ReadOnly
Prepared == IF conn.kind = "temp" THEN "rmDir" ELSE "open"

Make(p) == place' = [place EXCEPT ![p].exists = TRUE]

BeginCall ==
    /\ phase = "call"
    /\ phase' = IF ~Makes THEN Prepared ELSE IF conn.Dir = NoPath THEN "refused" ELSE "mkDir"
    /\ UNCHANGED <<evars, conn, place>>

MakeDir ==
    /\ phase = "mkDir"
    /\ Make(conn.Dir)
    /\ phase' = IF HasValueDir THEN "mkValue" ELSE Prepared
    /\ UNCHANGED <<evars, conn>>

MakeValueDir ==
    /\ phase = "mkValue"
    /\ Make(conn.ValueDir)
    /\ phase' = Prepared
    /\ UNCHANGED <<evars, conn>>

MakeFails ==
    /\ phase \in {"mkDir", "mkValue"}
    /\ phase' = "refused"
    /\ UNCHANGED <<evars, conn, place>>

-----------------------------------------------------------------------------
(* removeTempFSArtefacts, for the open under way or, later, as the cleanup *)
(* function of an engine that is open or closed.                           *)

Removed    == IF db = "none" THEN "open" ELSE "ready"
NotRemoved == IF db = "none" THEN "refused" ELSE "ready"

RemoveAll(p) ==
    /\ place' = [place EXCEPT ![p] = Gone]
    /\ UNCHANGED <<evars, conn>>

Cleanup ==
    /\ phase = "ready"
    /\ conn.kind = "temp"
    /\ phase' = "rmDir"
    /\ UNCHANGED <<evars, conn, place>>

\* Mutant of RemoveDir: "/" is not refused.
RemoveDirUnchecked ==
    /\ phase = "rmDir"
    /\ conn.Dir # NoPath
    /\ RemoveAll(conn.Dir)
    /\ phase' = IF HasValueDir THEN "rmValue" ELSE Removed

\* Mutant of RemoveDir: a directory of its own for values is forgotten.
RemoveDirOnly ==
    /\ phase = "rmDir"
    /\ conn.Dir \in Path
    /\ RemoveAll(conn.Dir)
    /\ phase' = Removed

RemoveDir ==
    /\ phase = "rmDir"
    /\ conn.Dir \in Path
    /\ RemoveAll(conn.Dir)
    /\ phase' = IF HasValueDir THEN "rmValue" ELSE Removed

RemoveValueDir ==
    /\ phase = "rmValue"
    /\ conn.ValueDir \in Path
    /\ RemoveAll(conn.ValueDir)
    /\ phase' = Removed

\* ValueDir is looked at only after Dir has been removed.
RemoveRefused ==
    /\ \/ phase = "rmDir" /\ conn.Dir \notin Path
       \/ phase = "rmValue" /\ conn.ValueDir \notin Path
    /\ phase' = NotRemoved
    /\ UNCHANGED <<evars, conn, place>>

\* os.RemoveAll answers with an error, with the files gone or not.
RemoveFails ==
    LET p == IF phase = "rmDir" THEN conn.Dir ELSE conn.ValueDir
    IN  /\ phase \in {"rmDir", "rmValue"}
        /\ p \in Path
        /\ place' \in {place, [place EXCEPT ![p].files = {}]}
        /\ phase' = NotRemoved
        /\ UNCHANGED <<evars, conn>>

-----------------------------------------------------------------------------
(* badger.Open and db.Close, as far as directories go.                     *)

OnDisk == ~opts.InMemory
Used   == IF OnDisk THEN Named ELSE {}

\* A place that Badger opens or, failing to, has begun to write in.
Begun(p, l) == [exists |-> TRUE, lock |-> l,
                files |-> place[p].files \cup (IF opts.ReadOnly THEN {} ELSE {"new"})]

\* A store on disk needs a directory; one in memory is refused if it is
\* given any.
OpenStore ==
    /\ phase = "open"
    /\ Open
    /\ IF OnDisk THEN conn.Dir # NoPath ELSE Named = {}
    /\ \A p \in Used : place[p].lock = "free" /\ (opts.ReadOnly => place[p].files # {})
    /\ place' = [p \in DOMAIN place |->
                    IF p \in Used THEN Begun(p, "engine") ELSE place[p]]
    /\ phase' = "ready"
    /\ UNCHANGED conn

OpenStoreFails ==
    /\ phase = "open"
    /\ OpenFails
    /\ phase' = "refused"
    /\ \E begun \in SUBSET {p \in Used : place[p].lock = "free"} :
          place' = [p \in DOMAIN place |-> IF p \in begun THEN Begun(p, "free") ELSE place[p]]
    /\ UNCHANGED conn

CloseStore(c) ==
    /\ CloseDb(c)
    /\ place' = [p \in DOMAIN place |->
                    IF place[p].lock = "engine" THEN [place[p] EXCEPT !.lock = "free"] ELSE place[p]]
    /\ UNCHANGED <<conn, phase>>

-----------------------------------------------------------------------------
(* The others.                                                             *)

Others == UNCHANGED <<evars, conn, phase>>

OtherOpens(p) ==
    /\ place[p].lock = "free"
    /\ place' = [place EXCEPT ![p] = [exists |-> TRUE, files |-> @.files \cup {"new"}, lock |-> "other"]]
    /\ Others

OtherCloses(p) ==
    /\ place[p].lock = "other"
    /\ place' = [place EXCEPT ![p].lock = "free"]
    /\ Others

OtherRemoves(p) ==
    /\ place[p].exists
    /\ place' = [place EXCEPT ![p] = Gone]
    /\ Others

CNext ==
    \/ BeginCall \/ MakeDir \/ MakeValueDir \/ MakeFails
    \/ Cleanup \/ RemoveDir \/ RemoveValueDir \/ RemoveRefused \/ RemoveFails
    \/ OpenStore \/ OpenStoreFails
    \/ \E c \in Closer : CloseStore(c)
    \/ Beside /\ UNCHANGED dirvars
    \/ \E p \in Shared : OtherOpens(p) \/ OtherCloses(p) \/ OtherRemoves(p)

CSpec == CInit /\ [][CNext]_cvars

\* Nothing obliges anybody to open, to close or to clean up.
FairCSpec == CSpec /\ Fairness

-----------------------------------------------------------------------------
(* Every variable keeps its type; an engine that is open went through the  *)
(* whole of its function, and only a cleanup can be under way beside it.   *)
CTypeOK ==
    /\ TypeOK
    /\ conn \in Conns
    /\ phase \in {"call", "mkDir", "mkValue", "rmDir", "rmValue", "open", "ready", "refused"}
    /\ place \in [Path \cup {Root} -> Place]
    /\ db \in {"open", "closed"} => phase \in {"ready", "rmDir", "rmValue"}
    /\ phase \in {"rmDir", "rmValue"} => conn.kind = "temp"

\* Files that a step takes away from a place.
Lost(p) == place[p].files \ place'[p].files

(* Files survive: those of an engine that is open or has been closed, and  *)
(* those of earlier times.  They go only where a temporary open or its     *)
(* cleanup function was given their directory: the caller's own, or        *)
(* somebody else's, who is not stopped by an engine being open there       *)
(* (engine.go:232).  "/" never goes, and nothing goes if Dir is unsafe; an *)
(* unsafe ValueDir is found out when Dir is gone (engine.go:250-260).      *)
FilesSurvive ==
    [][\A p \in Path \cup {Root} : Lost(p) # {} =>
          \/ conn.kind = "temp" /\ phase \in {"rmDir", "rmValue"}
             /\ conn.Dir \in Path /\ p \in Named \ {Root}
          \/ p \in Shared /\ OtherRemoves(p)]_cvars

(* A temporary store opens on nothing that was in its directories when the *)
(* call began, whatever failed or was in the way: its cleanup runs before  *)
(* open and stops the call if it fails (engine.go:224-240).                *)
TempOpensFresh ==
    [][conn.kind = "temp" /\ db = "none" /\ db' = "open" =>
          \A p \in Used : "old" \notin place'[p].files]_cvars

(* "With InMemory=true it is ignored" (config.go:54, 58 and 62, of Dir and *)
(* ValueDir): opening an engine in memory takes no file from the disk.     *)
InMemoryIgnoresDirs ==
    [][opts.InMemory => \A p \in Path : Lost(p) = {} \/ OtherRemoves(p)]_cvars

=============================================================================
