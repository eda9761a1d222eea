---------------------------- MODULE MemoryPreset ----------------------------
(***************************************************************************)
(* config.go: ComputeMemoryPresetWithClamp, which splits a memory limit    *)
(* into a safety reserve, memtables and the two caches, and what open of   *)
(* engine.go makes of the outcome.  Sizes are whole numbers of a unit, to  *)
(* which every fraction of a size is rounded down: the byte in the code,   *)
(* where MiB is 2^20; the model takes any number of units to a MiB.        *)
(* Fractions are in thousandths.                                           *)
(***************************************************************************)
EXTENDS Integers

CONSTANTS
    MiB,         \* how many units a MiB has
    Limits,      \* memoryLimitBytes
    ClampMins,   \* clampMinGiB
    ClampMaxs,   \* clampMaxGiB
    Wants        \* wantMemtables; 0 leaves the number to the function

ASSUME UnitAssumption == MiB \in Nat \ {0}

ASSUME ArgumentsAssumption ==
    /\ Limits \subseteq Nat
    /\ ClampMins \subseteq Int /\ ClampMaxs \subseteq Int /\ Wants \subseteq Int

GiB   == 1024 * MiB
ALIGN == 64 * MiB
minMemtableSize == 64 * MiB
maxMemtableSize == 2 * GiB

\* The three entries of loadMap; any other name gets "read-write".
loadMap ==
    [read  |-> [ratios |-> <<80, 100, 125>>, num |-> 3, den |-> 4,
                minBlock |-> 512 * MiB, minIndex |-> 256 * MiB, minCache |-> 700],
     write |-> [ratios |-> <<150, 200, 250>>, num |-> 1, den |-> 2,
                minBlock |-> 256 * MiB, minIndex |-> 128 * MiB, minCache |-> 400],
     both  |-> [ratios |-> <<125, 150, 200>>, num |-> 2, den |-> 3,
                minBlock |-> 256 * MiB, minIndex |-> 128 * MiB, minCache |-> 600]]

VARIABLES
    args,      \* the arguments of the call
    phase,     \* "start", "loop", "split", "done", "panic" or "open"
    count,     \* memtableCount
    limits,    \* the MemoryLimit returned
    handed     \* what open hands Badger

mvars == <<args, phase, count, limits, handed>>

NoLimits == [BlockCacheSize |-> 0, IndexCacheSize |-> 0, MemTableSize |-> 0, NumMemtables |-> 0]

AtMost(x, m)  == IF x > m THEN m ELSE x
AtLeast(x, m) == IF x < m THEN m ELSE x
Part(x, f)    == (x * f) \div 1000
alignDownTo(x) == (x \div ALIGN) * ALIGN

-----------------------------------------------------------------------------
(* What the function derives from its arguments before the loop.           *)

profile == loadMap[args.profile]

\* Mutant of clampMin: a clamp below one GiB is taken as it is.
clampMinUnchecked == args.clampMin

clampMin == AtLeast(args.clampMin, 1)
clampMax == AtMost(args.clampMax, 128)

\* The clamps change places when they are the wrong way round.
totalLimit ==
    LET lo == AtMost(clampMin, clampMax)
        hi == AtLeast(clampMax, clampMin)
    IN  AtMost(AtLeast(args.limit, lo * GiB), hi * GiB)

safetyReserve == AtMost(AtLeast(Part(totalLimit, 100), 128 * MiB), Part(totalLimit, 250))

workingBudget ==
    LET rest == totalLimit - safetyReserve
    IN  IF rest < 0 THEN totalLimit ELSE rest

memtableRatio ==
    profile.ratios[IF totalLimit >= 12 * GiB THEN 3 ELSE IF totalLimit >= 6 * GiB THEN 2 ELSE 1]

memtableBudget == AtLeast(Part(workingBudget, memtableRatio), minMemtableSize)

maxMemtablesByBudget == AtLeast(workingBudget \div minMemtableSize, 1)

autoMemtables == IF memtableBudget < 2 * minMemtableSize THEN 1
                 ELSE AtMost(2, maxMemtablesByBudget)

minCacheBudget == AtLeast(Part(workingBudget, profile.minCache), 0)

Init ==
    /\ args \in [limit : Limits, clampMin : ClampMins, clampMax : ClampMaxs,
                 profile : DOMAIN loadMap, want : Wants]
    /\ phase = "start"
    /\ count = 0
    /\ limits = NoLimits
    /\ handed = NoLimits

Begin ==
    /\ phase = "start"
    /\ phase' = "loop"
    /\ count' = IF args.want > 0 THEN AtMost(args.want, maxMemtablesByBudget) ELSE autoMemtables
    /\ UNCHANGED <<args, limits, handed>>

-----------------------------------------------------------------------------
(* The loop that gives up memtables until the rest fits.                   *)

\* Mutant of bytesPerMemtable: no upper bound.
bytesPerMemtableUncapped == alignDownTo(AtLeast(memtableBudget \div count, minMemtableSize))

\* Aligned down, a table between its two bounds is never empty.
bytesPerMemtable ==
    alignDownTo(AtMost(AtLeast(memtableBudget \div count, minMemtableSize), maxMemtableSize))

totalMemtables == bytesPerMemtable * count
cacheBudget    == workingBudget - totalMemtables

\* Mutant of Fits: the caches' share is not looked at.
FitsBudgetOnly == totalMemtables <= workingBudget

\* One memtable is enough of a concession to the caches.
Fits == /\ totalMemtables <= workingBudget
        /\ cacheBudget >= minCacheBudget \/ count = 1

Fewer ==
    /\ phase = "loop"
    /\ count > 0
    /\ ~Fits
    /\ count' = count - 1
    /\ UNCHANGED <<args, phase, limits, handed>>

Panic ==
    /\ phase = "loop"
    /\ count <= 0
    /\ phase' = "panic"
    /\ UNCHANGED <<args, count, limits, handed>>

Leave ==
    /\ phase = "loop"
    /\ count > 0
    /\ Fits
    /\ phase' = "split"
    /\ UNCHANGED <<args, count, limits, handed>>

-----------------------------------------------------------------------------
(* The caches.                                                             *)

\* Mutant of blockCache: the floors hold even where they do not fit.
blockCacheUnsqueezed ==
    AtLeast((cacheBudget * profile.num) \div profile.den, profile.minBlock)

\* By the profile's ratio, not below the floors, and squeezed in proportion
\* when both floors together do not fit.
blockCache ==
    LET block == (cacheBudget * profile.num) \div profile.den
        b     == AtLeast(block, profile.minBlock)
        i     == AtLeast(cacheBudget - block, profile.minIndex)
    IN  IF b + i > cacheBudget THEN (b * cacheBudget) \div (b + i) ELSE b

\* Only the index cache stays aligned: what alignment leaves over goes back
\* to the block cache.
Split ==
    LET index == AtLeast(alignDownTo(cacheBudget - blockCache), 0)
        block == alignDownTo(blockCache)
    IN  /\ phase = "split"
        /\ phase' = "done"
        /\ limits' = [BlockCacheSize |-> AtLeast(block + AtLeast(cacheBudget - (block + index), 0), 0),
                      IndexCacheSize |-> index,
                      MemTableSize   |-> bytesPerMemtable,
                      NumMemtables   |-> count]
        /\ UNCHANGED <<args, count, handed>>

-----------------------------------------------------------------------------
(* open, with the preset or, at the start, with a MemoryLimit left empty.  *)

\* External: what Badger takes where it is told nothing.
BadgerDefaults ==
    [BlockCacheSize |-> 256 * MiB, IndexCacheSize |-> 0, MemTableSize |-> 64 * MiB, NumMemtables |-> 5]

\* A limit that is not positive counts as not given.  The Options come next,
\* but no caller of open sets the sizes in them.
Open ==
    /\ phase \in {"start", "done"}
    /\ phase' = "open"
    /\ handed' = [f \in DOMAIN limits |-> IF limits[f] > 0 THEN limits[f] ELSE BadgerDefaults[f]]
    /\ UNCHANGED <<args, count, limits>>

Finished == phase \in {"open", "panic"} /\ UNCHANGED mvars

Next == Begin \/ Fewer \/ Panic \/ Leave \/ Split \/ Open \/ Finished

Spec == Init /\ [][Next]_mvars

-----------------------------------------------------------------------------
(* Every variable keeps its type, and a memtable is a whole number of      *)
(* 64 MiB blocks, 2 GiB at most.                                           *)
MTypeOK ==
    /\ phase \in {"start", "loop", "split", "done", "panic", "open"}
    /\ count \in Nat
    /\ {limits, handed} \subseteq
           [BlockCacheSize : Nat, IndexCacheSize : Nat, MemTableSize : Nat, NumMemtables : Nat]
    /\ limits.MemTableSize % ALIGN = 0
    /\ limits.MemTableSize <= maxMemtableSize

(* An engine opened with a preset gets memtables and caches that use up    *)
(* the working budget to the byte and not a byte more: floors, squeezing,  *)
(* alignment and the leftover add up, and no part is rounded to nothing,   *)
(* for which open would put Badger's default (engine.go:306-336).  The     *)
(* reserve stays free.  A clamp below one GiB lets a caller ask for a      *)
(* limit whose budget is one memtable and nothing else (89478485 bytes,    *)
(* 85 1/3 MiB); then Badger's default does come on top.                    *)
BudgetUsedUp ==
    phase = "open" /\ count > 0 /\ (args.clampMax >= 1 \/ cacheBudget > 0) =>
        handed.BlockCacheSize + handed.IndexCacheSize
            + handed.MemTableSize * handed.NumMemtables = workingBudget

(* "Not enough memory for even one memtable" cannot happen to a caller who *)
(* clamps to at least one GiB, whatever limit is asked for.                *)
NoPanic == phase = "panic" => args.clampMax < 1

(* More than one memtable is kept only if the caches get their share of    *)
(* the budget (MinCacheFraction), and never more than were asked for.      *)
CachesKeepShare ==
    phase = "done" =>
        /\ limits.NumMemtables > 1 =>
              limits.BlockCacheSize + limits.IndexCacheSize >= minCacheBudget
        /\ args.want > 0 => limits.NumMemtables \in 1 .. args.want

=============================================================================
