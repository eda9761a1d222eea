# A TLA+ model of badger-wrapper

badger-wrapper is a Go package (`badger_sdk`) around BadgerDB: an engine that opens the
database and runs its housekeeping, a transaction manager with retries, leases on primary
keys, prefix walks over rows and index entries, and a calculator of memory limits. The files
here model that code, check it with TLC and prove its central properties with TLAPS.
BadgerDB itself is external: it is modelled from how the code uses it (snapshots, conflict
detection at commit, expiring entries, iterators, one value-log GC at a time).

## The system

| component | source | state it keeps | operations | hard part |
|---|---|---|---|---|
| Transaction manager | `txn_manager.go` | nothing shared; per call: attempt, transaction, context | `ExecuteReadWithContext`, `ExecuteReadWriteWithContext`, `sleepWithJitter` | conflicts and retries, cancellation at every point, commits that fail after they took effect |
| Primary-key locker | `lock.go` | entries `lock:<pk>` = `owner\|token` with a TTL | `TryLock`, `Unlock`, `RenewLock`, `IsLockedTx`, all inside a caller's transaction | check-then-set, expiry while a call retries, one owner name for all workers, lost tokens |
| Prefix iterator | `iterator.go` | a cursor the caller keeps between pages | pages, iterations, scans, first, last, by primary key and by index | every page is a snapshot of its own, and others write in between; dangling entries |
| Engine lifecycle | `engine.go`, `gc.go`, `metrics.go`, `runtime_utils.go` | `stopGC`, two goroutines | `open`, `Close`, `runGC`, `runFileModeMonitoring`, `GoRecover` | stop against tick against Close; panics; options in all combinations |
| Operations without a transaction | `engine.go` | none | `Set`, `Get`, `Delete`, `SetObject`, `GetObject` | blind writes conflict with nobody |
| Rows and index entries | `demonstration.go` | a row, a composite and a unique entry per user | upsert, transactional insert, insert without a transaction | the three writes must agree under conflicts and failures; entries spell a user's fields normalized |
| Memory preset | `config.go`, `engine.go` | none (pure) | `ComputeMemoryPreset[WithClamp]`, what `open` makes of a `MemoryLimit` | floors, caps, alignment, a loop that gives up memtables, parts rounded to zero |
| Workers under locks | `demonstration.go` | a page, the row a worker is at | the loop of `DemonstrateTryLockUnlockByPkPrefix` | rows skipped because they are locked; a context that ends between lock and unlock |
| Key builders | `index.go`, `lock.go` | none (pure) | `BuildPKKey`, `BuildPKPrefix`, `BuildComposite...`, `lockKeyForPK` | separators and capitals in names, prefixes without an end, byte order of numbers |
| Keyspace audit | `demonstration.go` | a report | `AuditKeyspace`, `spaceFromKey` | kinds are told apart by text; one View beside writers |
| Directories of a store | `engine.go` | what is at Dir and ValueDir | `OpenOnlyInMemoryConnection`, `OpenFSConnection`, `OpenTempFSConnection`, `removeTempFSArtefacts`, the cleanup function | partial removal, somebody else's store in the same place |
| Encoders, generated message | `encoding.go`, `helper.go`, `protobuf_example/` | none | json, msgpack, protobuf | none |

The locker and the row-keeping code run as closures inside the transaction manager's loop, so
a closure may run several times, and what it hands out of itself may belong to an attempt that
did not commit. Set, SetObject and Delete go past the manager. The iterator opens a View for
each page. The background goroutines share only the database, the context and `stopGC` with
the rest. `PROJECT.json` lists the hazards of each component at the line where they bite.

## Modules

**TxnManager** has one action per step of the two Execute functions: the check of the context
in front of an attempt (`BeginAttempt`, `BeginCancelled`), the closure (`Get`, `Put`,
`ClosureReturns`, `ClosureFails`), the second check (`ReadDone`, `WriteCheck`,
`WriteCancelled`), each outcome of Commit, and the backoff. The closure is any sequence of
reads and writes. The store is the latest content of each key (`db`) and the timestamp of
its last write (`ver`); a transaction is a copy of `db` (`snap`), its read set and its pending
writes. `Conflict` is Badger's rule: a key that was *read* has been committed since the
snapshot. A commit that reports another error may have installed its writes, or used a
timestamp for nothing, or neither (`CommitLost`, `CommitRefused`). `DirectWrite` is Engine.Set,
SetObject and Delete.

**TxnHistory** adds variables that only watch: the store's contents over time, when each call
began, what it answered, how often its writes were installed, and whether its context ended in
time. **SerialStore** is the abstract promise: every call takes effect, if at all, at one
instant between its invocation and its return. TxnHistory implements it (`SerialSpec`).

**PkLocker** extends TxnManager: its steps are steps of the manager with the closure narrowed
to one locker method, or a tick of the clock. `op` holds the call's arguments, `got` what the
closure's Get returned, `held` the lease each client goes by; a client whose RenewLock failed still has its
token, and may unlock with it, but counts on no time any more. The clock counts whole seconds,
as Badger's expiry does; expiry is judged by the present clock against the *snapshot's* entry.
**LeaseLock** is its abstract promise, implemented by `db` restricted to the lock keys.

**PrefixIterator** reduces keys to their position under the prefix. One View is a snapshot and
a loop (`OpenView`, `SkipDangling`, `TakeRow`, `EndView`); `LanesDone` is the rest of an
iteration's round. Writers change rows and entries between any two steps. `seen` and `stable`
watch for the properties.

**LockedWork** extends PkLocker with the workers of `DemonstrateTryLockUnlockByPkPrefix`: for each
row of the page one manager call that takes the lock (`Take`), the work outside any transaction,
which may find that the row cannot be decoded, and in either case one call that gives the lock back
(`Work`), and on to the next row whatever the calls answered. One context covers a worker's whole page; when it ends (`CtxEnds`), so does the context of
the call under way (`CallEnds`), and later calls return at their first check. Every step is one of
PkLocker's or changes the workers' own variables only.

**EngineLifecycle** has the GC goroutine, the monitoring goroutine, the callers of Close and
the context as actors, over every combination of the options that `open` looks at.
**Connections** extends it with the three connection functions: making the directories, removing
them for a temporary store, `open`, and the cleanup function, which the caller may use at any time
and again. Each may fail, `os.RemoveAll` half-way too. A place is a path with its files (from
before the call, or written since) and its lock. Badger wants a directory for a store on disk and refuses one for a
store in memory, so that a temporary open in memory removes what is in its directories and then fails. Beside the modelled engine, others open, close and
remove stores in the directories that are `Shared`, by the same functions.

**UserIndex** extends TxnManager with the upsert, the inserts and the insert without a
transaction of `Demonstrate`. A closure's reads and writes are made in one step, which nobody
can tell from several: only its own transaction sees them until the commit. `Norm` is what
normalize leaves of a user's fields in an index entry. A user may have no type, and then gets a row and no
entries; the inserts drop Marshal's error, and then store a row that holds no user (`Blank`), with its entry. **RowIndex** is its abstract promise:
an upsert takes effect at once, on the row as it then is, and only the entry of that row goes;
the store, seen as rows and the entries that name them, implements it (`RowsSpec`).

**KeySpace** has the builders of index.go and `lockKeyForPK` as operators on sequences of bytes, a
store that is written through them, and `AuditKeyspace` as one View walked in key order beside
the writers. An entry remembers what it was made for (`of`), with names and values normalized,
and the properties compare that with the bytes. `Cut` takes decimal digits off a number one by one:
fmt's padding is defined by it, and so the order of padded numbers can be proved.

**MemoryPreset** is `ComputeMemoryPresetWithClamp` with its loop as a state machine, and
`open`'s choice between the limits it is given and Badger's defaults. Sizes are whole numbers of a unit
of which `MiB` make a MiB, and fractions are rounded down to a unit: the model with `MiB` = 2^20 is the code's own
arithmetic in bytes. The theorems hold for every `MiB`; the run takes 8, in which a limit of 85 MiB has
its budget of 63.75 MiB and its panic, as in the code.

`MCTxn`, `MCCalls`, `MCLocker`, `MCWork`, `MCPrefix`, `MCConnections`, `MCUser`, `MCKeySpace` and `MCPreset` fix
constants, symmetries, a constraint and views for TLC. `TxnManagerProofs`, `TxnHistoryProofs`,
`LockedWorkProofs` (the locker's too), `PrefixIteratorProofs`, `ConnectionsProofs`, `UserIndexProofs`,
`KeySpaceProofs` and `MemoryPresetProofs` hold the theorems. LockedWork over PkLocker over TxnManager, UserIndex over
TxnManager and Connections over EngineLifecycle are compositions: a step of the outer module is a
step of the inner one or leaves its variables alone.

## What the runs check

| run | shows | bounds |
|---|---|---|
| txn_history | type invariant; writes are installed at most once; a conflict is answered only after Retries + 1 commits of others; a context that ends in time stops the call; SerialStore is implemented | 2 clients, 2 keys, 1 value, 1 retry, `MaxCommits` = 1, 2 reads and writes per closure |
| txn_calls | every call returns; no lost update | 2 clients, 1 key, 1 retry, commits without end |
| locker | at most one live holder; refusals are true; LeaseLock is implemented | 2 clients, 1 key, 1 owner name, TTL 1 or 2, clock to 3, `MaxCommits` = 2 |
| locked_work | no two workers on one row under live leases; a row is skipped only if another worker does it or something went wrong; a lock that runs is that of a worker who can give it back, unless a call went wrong | 2 workers, a page of 1 row, 1 owner name, TTL 1 or 2, clock to 4, `MaxCommits` = 5, contexts that end at any moment |
| prefix_walks | a View returns exactly what it was asked for; keys come in order and once; nothing that stays is skipped; walks end | 2 rows, 3 entries, limits 0 to 2, 2 writes during each walk |
| engine_lifecycle | GC runs only on a writable disk store; GC and monitoring stop; Close returns; files go only where a temporary store or a cleanup was sent; a temporary store opens on nothing old | 2 closers, 3 passes per tick, all options with one place for the files, and all directories (2 paths, `/`, none) with the goroutines off; one path is shared with others |
| user_index | each upsert takes effect at once on the row it finds; each row with a type is found through both entries; entries dangle only after a failed SetObject | 2 clients, users that differ in the type's case, in the type and in the office, one without a type, 3 commits |
| key_space | keys collide only for the same thing; prefixes reach exactly what they should, and `office=50` those of 507; padded numbers lie in order; the audit counts exactly, locks under the space `d` | 5 names, 8 lists of parts, 6 ids, width 2, 3 keys in the store |
| memory_preset | the split uses up the budget exactly, after `open`'s defaults too; no panic with a clamp of a GiB or more; caches keep their share | 18 limits at and around the thresholds in eighths of a MiB, two of them with a fraction of a MiB, all clamp orders, 6 wishes, 3 profiles |

Why the bounds are enough. `MaxCommits` limits only when calls may *start*: calls under way
still commit, so with `MaxCommits` = 1 and two clients three commits can meet, which lets one
call lose its first attempt to a direct write and its second to the other client, the deepest
case one retry has. Two keys are needed for write skew and for a snapshot that mixes two
instants, and two reads and writes of a closure (`MaxTouches`) make either. One value beside "absent" is enough because every property compares contents
for equality with what was installed at an instant, and deletion is a content too. Two seconds
of TTL within three clock readings let a lease run out before, during and after a call and be
renewed in between; for the workers, a fourth reading leaves time to take and give back the row when another's
lease on it has run out under a call that is still to give it back. Three entries over two rows give dangling entries before, between and after
visible ones, two entries of one row, and pages that end on each of them. `MaxRuns` is
the code's own 3. Locks of different rows are different keys and a worker is at one row at a time,
so one row in the page shows every race of two workers; five commits are two locks, two unlocks and
one to lose. Three keys are two things and the row an entry of theirs refers to. The texts of
`MCKeySpace` are chosen to collide if anything is left unescaped: names whose letters and colons
are the same in another division, values that contain `:`, `=` and `#i=`, ids that differ in case.

Whether calls return is asked against rivals that commit for ever: a bound on commits
would end every retry loop by itself. `MCCalls` therefore gives TLC a view in place of
timestamps: of those the manager and Badger only ask whether a key was committed after
an open transaction's snapshot, and a new commit is later than every snapshot, so states that
agree on these answers and on the rest have the same continuations. `MaxCommits` is then
a number the 120,050 states never come near. `MCPrefix` has a view too: a walk over rows never
looks at index entries, and it may begin with any. `MCLocker`, `MCWork` and `MCUser` leave out
timestamps the same way, and what idle clients were last answered.

Three more runs must be violated, and each is a finding:

- **locker_stale**: lock.go:127 promises true while the lock exists; a lease renewed after the
  snapshot looks expired in it, and IsLockedTx says free for a key locked all along.
- **user_stale**: README.md:43 and engine.go:48 ask for the old indexes to be deleted; the upsert deletes
  the composite entry only when the type changed, and the unique entry never.
- **temp_ignored**: config.go:54, 58 and 62 say that an in-memory engine ignores Dir and ValueDir;
  OpenTempFSConnection removes both before it opens anything (engine.go:232), and does so for a
  ReadOnly store too, whose files config.go:68-69 requires.

Smaller differences between comment and code have no run of their own:

- config.go:140 calls DetectConflicts write-write detection. Badger compares what a transaction
  *read*: a blind write commits over anything. (`SerialSpec` shows that calls are serializable all the same.)
- demonstration.go:182 prints a failed SetObject and writes the entry anyway, so the audit at
  demonstration.go:218 ends the program. `DanglingOnlyAfterFailure` says that this is the only way.
- demonstration.go:479 says the lock must be released even after an error; under a context that has
  ended, Unlock's call returns before it begins, and only the TTL ends the lock. `NoLockLeftBehind` says that
  a lock is left behind in no other way than by a call that went wrong.
- demonstration.go:159 and 170 drop Marshal's error: a row without a user is stored and indexed, and the audit sees nothing
  wrong, since the entry has its row.
- demonstration.go:66 shows a composite prefix with a `#` at its end; BuildCompositeIndexPrefix puts none there
  (index.go:94), and `PrefixesReach` says what that lets through.
- demonstration.go:341 takes the second segment of a key for its database; that of a lock is `d`.
- config.go:161 says at most 2 memtables while ComputeMemoryPreset asks for 3 and may return them.
- OpenOnlyInMemoryConnection opens in memory only if the configuration says so; otherwise it fails for want of a directory.
- A second Close panics (`ClosePanics`).
- config.go:428 gives the caches what the memtables leave of the budget; with a clamp below one GiB and a limit whose budget is one
  memtable exactly (89478485 bytes, 85⅓ MiB), nothing is left for the caches, and for a cache of 0 `open` keeps Badger's
  default of 256 MiB on top (engine.go:306-320). `BudgetUsedUp` leaves that corner out and says so.

Symmetry is used only in runs without liveness, over sets whose members nothing orders or
picks. Deadlock is checked everywhere but in engine_lifecycle (and temp_ignored), where an engine that is closed
and whose context is done has nothing left to do, and in locked_work, where all workers may be through
with their page; MemoryPreset stutters when its function has returned.

### Fairness

- `TxnManager`: weak fairness of each client's own steps in the manager and of its
  closure's end. Goroutines are scheduled, timers fire, and a closure that never returns
  is its author's. Nobody is obliged to call, cancel or write.
- `PrefixIterator`: weak fairness of the walking goroutine and of `onLanes`. Its writers are
  bounded (`MaxWrites`): against writers that insert ahead of the cursor forever no walk ends.
- `EngineLifecycle`: weak fairness of each goroutine's step. Strong fairness of `SelectStop` and
  `MonStop`, since a Go select chooses uniformly among its ready cases, so a stop that stays
  ready is taken in the end; and of `CloseDb`, since waiting senders on Badger's GC slot are
  served in order. The timer is under no fairness, nor is anything that `Connections` adds:
  nobody is obliged to open, to close or to clean up.

## What is proved

The theorems hold for any clients, keys, values, owners, TTLs, retry limits, pages, rows, entries,
directories, users and memory limits, from the assumptions named in the modules (constants have their
types, markers are not values, lock entries are keys and leases values, the root is not among the
paths). TLC evaluates these assumptions in the runs.

- `TypeCorrect` and `LostUpdateFree` (the second under DetectConflicts)
  rest on `IInv`: the types; timestamps of keys and transactions not in the future; a
  client that backs off has a retry left, without which the loop variable's bound is
  not inductive; and snapshots that agree with the store on every key not
  committed since. Lost updates follow: a commit that passed `Conflict` stands on unchanged keys.
- `InstalledAtMostOnce`, `RetriesArePaid`, `CancelledCallsStop` and `Serializable` (under
  DetectConflicts) rest on `HInv`: the recorded history has one content per timestamp, the
  snapshot of an open transaction is the content at its timestamp, and a call's attempts are
  at most the commits between its beginning and that timestamp. The refinement takes a writing
  call's instant at its commit and a reading call's at the beginning of its last attempt.
  `CancelledCallsStop` adds `DoomInv`: a call whose context ended in time is still under it and not at its commit.
- `LockerTypeCorrect`, `RefusalsAreTrue`, `MutualExclusion` and `LockImplementsLease` (the last
  two under DetectConflicts) rest on `LInv`, which ties each call's read set, pending write and
  `got` to its operation. Every locker step is a manager step, so `IInv` carries over. A commit
  that replaced a live lease would have read the entry as free at an earlier second; the entry
  is unchanged, by `Conflict`, and an entry that was expired then is expired now.
- `WorkersAreClients`, `WorkersDoNotMeet` (the second under DetectConflicts): every step of
  LockedWork is one of PkLocker's or a stutter, so `LSpec` and with it all of the locker's theorems
  hold of the workers. `WInv` adds which call a worker's stage goes with and that a worker at work
  holds a lease on its row; two live leases on one row would both be the stored one, and a client
  holds only tokens of its own.
- `NoRowForgotten`: every row a worker has gone past is worked on, or in trouble, or in the hands of
  another worker (`FInv`). A worker skips a row because its snapshot shows a lock, and then a client
  that has not given it back wrote that lock; or because its commit met a conflict on the lock's entry,
  and then another's commit to that entry came in between. Either way the other worker is at the row or has
  been. There must be a worker at all (`Client # {}`): a page nobody works on is not worked on.
- `LocksAreGivenBack` rests on `GiveInv`: nobody but a worker writes its token, so the entry that its Unlock read is still
  the stored one (`Fresh`), Unlock is neither refused nor in conflict, and one that writes nothing found a lock that had
  run out (`Nothing`). It needs no DetectConflicts.
- `WalksTypeCorrect`, `KeysComeOnce` and `WalksSkipNothing` rest on `PInv`: the caller's keys are in order
  and none is beyond the cursor (`SeenInv`); a View goes up from the cursor and every visible key of
  its snapshot beyond the cursor is in the page or not yet passed (`PageInv`); a stable key is visible
  in every snapshot and, up to the cursor, with the caller (`StableInv`). NothingSkipped alone is not
  inductive, since it says nothing of a walk under way. That a seek ends at the *least* key
  takes the well-foundedness of `<` on the natural numbers.
- `ViewsAreExact` adds `ViewInv`: a View has on its page only keys it is asked for, going up without a gap as far
  as it has got, going down none that it wants behind it; it closes early only with a full page. In order, a
  page has as many keys as it is long (`PageSize`), and a full one has the least `limit` of them.
- `GcStaysOnDisk`, `FilesAreSafe`, `TempStoresAreFresh` and the types rest on `CInv`: which goroutines
  can be there for which options and state of the database, and, between the removal of the
  directories and `open`, that no place in use holds old files.
- `UsersTypeCorrect`, `RowsStayIndexed`, `OnlyFailuresDangle` and `UpsertsImplementRows` (the last under
  DetectConflicts) rest on `UInv`: every transaction's pending writes are those of its call, made from
  the row in its snapshot; an insert's row is written before its entry or has failed. An upsert
  commits only if the row it read is still the row, so its commit is RowIndex's `Upsert`.
  Rows without a type and blank rows are among those the theorems are about.
- `KeysAreNames` and `PrefixesMatch` hold for any ASCII texts. An escaped text contains none of `:`, `=`,
  `#`, so that of two that are each followed by a separator or by the end, neither goes on where the other stops
  (`EscSplit`); `esc` can be undone byte for byte (`EscParse`); so each part of a key can be read back, from the
  first on (`SpaceParse`, `TailsParse`). A prefix of parts is such a beginning, but for its last value, which
  has no separator behind it. `StoreInv` says that what is in the store was made by the builders.
- `NumbersLieInOrder`: digits in front of the first that differs are the same, so what is left when all behind
  it are cut off decides (`SameDigits`), and a smaller rest is of a smaller number (`CutRises`).
- `CountsAreExact`, `KeySpaceTypes` and `AuditsAreExact` rest on `CountInv`: as far as the walk has
  come, the report is right about the keys passed. AuditIsExact alone speaks of finished walks only. That the audit
  finds the kind and the database in a key is `ColumnIsRead` and `SpaceIsRead`.
- `PresetTypeCorrect`, `OneMemtableFits`, `BudgetIsUsedUp` and `SharesAreKept` rest on `MInv`: the number of
  memtables stays positive because one always fits (a memtable's share of the budget is at least 64 MiB and at
  most a quarter of it, out of 768 MiB or more), what leaves the loop fits, and the two caches are what
  the memtables leave, of which squeezing and rounding take nothing away.

Recursive functions of the community modules (`FlattenSeq`) and of KeySpace (`Cut`) are reasoned about by an
induction over *sets* of numbers (`AllNumbers`, from the well-foundedness of `<`), which needs no operator
as a parameter.

Every invariant and every action property of the runs, and each of the four refinements, is proved. Only
model-checked are the liveness properties (CallReturns, WalkEnds, GcStops, CloseReturns, MonitorStops),
as the prover does not reason about fairness and ENABLED.

## Not modelled

- Encoders and generated code: stateless; their failures are error steps of the callers.
- What `open` copies into Badger's options, logging, printing, metrics' numbers.
- Texts beyond ASCII: `strings.ToLower` and `TrimSpace` know Unicode letters and blanks.
- TTLs of rows. The length of the backoff: it is a timer that fires.
- A crash of the process: the code keeps nothing of its own on disk, and what Badger
  recovers is Badger's. Locks left behind by a crash are those of `Abandon`.
- The object that a worker processes under a lock (its value was read before the lock was
  taken, demonstration.go:477): nothing in the code ties the value to the lock.
- Faults of the file system other than a call that fails, and paths that lie in one another.

## Plan

Done in this order, by importance: TxnManager and its history, the locker, the proofs of both,
the iterator, the lifecycle, the user index, the memory preset; then the connection functions, the
keys and the audit, the workers under locks, and the proofs of all of these. To come: the safety half of
what the liveness properties rest on, such as bounds on the steps a call or a walk has left, which is
the part of them a proof can state.
