------------------------- MODULE MemoryPresetProofs -------------------------
(***************************************************************************)
(* Theorems about MemoryPreset, for every memory limit, every pair of      *)
(* clamps, every number of memtables asked for and any number of units to  *)
(* a MiB, so for sizes in bytes too: the types, that one memtable always   *)
(* fits, that the caches are not starved for the sake of a second one, and *)
(* that what Badger is handed adds up to the budget.                       *)
(***************************************************************************)
EXTENDS MemoryPreset, TLAPS

Sizes == [BlockCacheSize : Nat, IndexCacheSize : Nat, MemTableSize : Nat, NumMemtables : Nat]

ArgsOK == args \in [limit : Nat, clampMin : Int, clampMax : Int,
                    profile : DOMAIN loadMap, want : Int]

(* A caller who clamps to a GiB at least starts the loop with a memtable   *)
(* and never gives up the last one; what leaves the loop fits.             *)
CountInv ==
    /\ phase \in {"loop", "split", "done"} => count >= 1 \/ args.clampMax < 1
    /\ phase \in {"loop", "split"} /\ args.want > 0 => count <= args.want
    /\ phase = "split" => count >= 1 /\ Fits
    /\ NoPanic
    /\ CachesKeepShare

\* limits shares out the working budget, and leaves the block cache something
\* unless the memtables took it all.
Divided ==
    /\ count >= 1 /\ Fits
    /\ limits.BlockCacheSize + limits.IndexCacheSize = cacheBudget
    /\ cacheBudget > 0 => limits.BlockCacheSize > 0
    /\ limits.MemTableSize = bytesPerMemtable
    /\ limits.NumMemtables = count

(* Only a call that went through the loop has memtables, and what it       *)
(* returns is all of the budget.                                           *)
ShareInv ==
    /\ phase = "start" => count = 0
    /\ phase = "done" => Divided
    /\ BudgetUsedUp

MInv == ArgsOK /\ MTypeOK /\ CountInv /\ ShareInv

-----------------------------------------------------------------------------
(* The arithmetic.                                                         *)

\* A size aligned down is a whole number of blocks, and no greater.
LEMMA AlignedDown ==
  ASSUME NEW x \in Int
  PROVE  /\ alignDownTo(x) \in Int /\ alignDownTo(x) <= x /\ alignDownTo(x) % ALIGN = 0
         /\ x >= 0 => alignDownTo(x) >= 0
         /\ x >= ALIGN => alignDownTo(x) >= ALIGN
         /\ x >= 0 /\ x < ALIGN => alignDownTo(x) = 0
  <1>1. PICK a \in Nat : a = ALIGN /\ a > 0
    BY UnitAssumption DEF ALIGN
  <1>2. PICK q \in Int : q = x \div a
    BY <1>1
  <1>3. PICK y \in Int : y = q * a
    BY <1>1, <1>2
  <1>4. y <= x /\ x < y + a
    <2>1. q * a <= x /\ x < (q + 1) * a
      BY <1>1, <1>2
    <2>2. (q + 1) * a = q * a + a
      BY <1>1, <1>2
    <2> QED BY <1>3, <2>1, <2>2
  <1>5. y % a = 0
    <2>1. PICK p \in Int, r \in 0 .. a - 1 : p = y \div a /\ r = y % a /\ y = p * a + r
      BY <1>1, <1>3
    <2>2. ASSUME p < q PROVE FALSE
      <3>1. (p + 1) * a <= q * a
        BY <1>1, <1>2, <2>2
      <3> QED BY <1>1, <1>3, <2>1, <3>1
    <2>3. ASSUME p > q PROVE FALSE
      <3>1. (q + 1) * a <= p * a
        BY <1>1, <1>2, <2>3
      <3> QED BY <1>1, <1>2, <1>3, <2>1, <3>1
    <2> QED BY <1>1, <1>2, <1>3, <2>1, <2>2, <2>3
  <1>6. x >= 0 => q >= 0
    BY <1>1, <1>2
  <1>7. q >= 0 => y >= 0
    BY <1>1, <1>2, <1>3
  <1>8. x >= a => y >= a
    <2> SUFFICES ASSUME x >= a PROVE q >= 1
      BY <1>1, <1>2, <1>3
    <2> QED BY <1>1, <1>2
  <1>9. x >= 0 /\ x < a => y = 0
    <2> SUFFICES ASSUME x >= 0, x < a PROVE q = 0
      BY <1>1, <1>3
    <2> QED BY <1>1, <1>2
  <1> QED BY <1>1, <1>2, <1>3, <1>4, <1>5, <1>6, <1>7, <1>8, <1>9 DEF alignDownTo

\* What the loop gets: natural numbers, and a memtable's share of the budget
\* that is not above it once a GiB at least is to be had.
LEMMA BudgetFacts ==
  ASSUME ArgsOK
  PROVE  /\ workingBudget \in Int /\ memtableBudget \in Nat /\ memtableBudget >= 64 * MiB
         /\ minCacheBudget \in Nat /\ maxMemtablesByBudget >= 1 /\ maxMemtablesByBudget \in Nat
         /\ autoMemtables \in 1 .. 2
         /\ args.clampMax >= 1 => /\ workingBudget >= 768 * MiB /\ memtableBudget < workingBudget
                                /\ minCacheBudget > 0
  <1>0. MiB \in Nat /\ MiB > 0
    BY UnitAssumption
  <1>1. /\ args.limit \in Nat /\ args.clampMin \in Int /\ args.clampMax \in Int
        /\ args.profile \in {"read", "write", "both"}
    BY DEF ArgsOK, loadMap
  <1>2. PICK t \in Int : t = totalLimit /\ (args.clampMax >= 1 => t >= 1024 * MiB)
    <2>1. PICK g \in Nat : g = GiB /\ g = 1024 * MiB /\ g > 0
      BY <1>0 DEF GiB
    <2>2. PICK lo, hi \in Int : /\ lo = AtMost(clampMin, clampMax) /\ hi = AtLeast(clampMax, clampMin)
                                /\ (args.clampMax >= 1 => lo >= 1 /\ hi >= 1)
      BY <1>1 DEF clampMin, clampMax, AtMost, AtLeast
    <2>3. PICK l, h \in Int : l = lo * g /\ h = hi * g /\ (args.clampMax >= 1 => l >= g /\ h >= g)
      <3>1. lo * g \in Int /\ hi * g \in Int
        BY <2>1, <2>2
      <3>2. \A n \in Int : n >= 1 => n * g >= g
        BY <2>1
      <3> QED BY <2>2, <3>1, <3>2
    <2>4. totalLimit = AtMost(AtLeast(args.limit, l), h)
      BY <2>1, <2>2, <2>3 DEF totalLimit
    <2> QED BY <1>1, <2>1, <2>3, <2>4 DEF AtMost, AtLeast
  <1>3. PICK w \in Int : w = workingBudget /\ (t >= 1024 * MiB => w >= 768 * MiB /\ w <= t)
    <2>1. PICK r \in Int : r = safetyReserve /\ r <= (t * 250) \div 1000 /\ (t >= 1024 * MiB => r >= 0)
      BY <1>0, <1>2 DEF safetyReserve, Part, AtMost, AtLeast
    <2>2. workingBudget = IF t - r < 0 THEN t ELSE t - r
      BY <1>2, <2>1 DEF workingBudget
    <2> QED BY <1>0, <2>1, <2>2
  <1>4. PICK m \in Int : m = memtableRatio /\ m \in 0 .. 250
    <2>1. profile.ratios \in {<<80, 100, 125>>, <<150, 200, 250>>, <<125, 150, 200>>}
      BY <1>1 DEF profile, loadMap
    <2>2. \A i \in 1 .. 3 : profile.ratios[i] \in 0 .. 250
      BY <2>1
    <2>3. \E i \in 1 .. 3 : memtableRatio = profile.ratios[i]
      <3>1. 1 \in 1 .. 3 /\ 2 \in 1 .. 3 /\ 3 \in 1 .. 3
        OBVIOUS
      <3> QED BY <3>1, Zenon DEF memtableRatio
    <2>4. PICK i \in 1 .. 3 : memtableRatio = profile.ratios[i]
      BY <2>3
    <2>5. memtableRatio \in 0 .. 250
      BY <2>2, <2>4
    <2> QED BY <2>5
  <1>5. PICK p \in Int : p = Part(w, m) /\ (w > 0 => p < w)
    <2>1. PICK x \in Int : x = w * m /\ (w >= 0 => x <= w * 250)
      BY <1>3, <1>4
    <2>2. Part(w, m) = x \div 1000
      BY <2>1 DEF Part
    <2> QED BY <1>3, <2>1, <2>2
  <1>6. memtableBudget \in Nat /\ memtableBudget >= 64 * MiB /\ (w > 64 * MiB => memtableBudget < w)
    BY <1>0, <1>3, <1>4, <1>5 DEF memtableBudget, AtLeast, minMemtableSize
  <1>7. maxMemtablesByBudget \in Nat /\ maxMemtablesByBudget >= 1
    <2>1. workingBudget \div minMemtableSize \in Int
      BY <1>0, <1>3 DEF minMemtableSize
    <2> QED BY <2>1 DEF maxMemtablesByBudget, AtLeast
  <1>8. autoMemtables \in 1 .. 2
    BY <1>7 DEF autoMemtables, AtMost
  <1>9. minCacheBudget \in Nat /\ (w >= 768 * MiB => minCacheBudget > 0)
    <2>1. profile.minCache \in {700, 400, 600}
      BY <1>1 DEF profile, loadMap
    <2> QED BY <1>0, <1>3, <2>1 DEF minCacheBudget, Part, AtLeast
  <1> QED BY <1>0, <1>2, <1>3, <1>6, <1>7, <1>8, <1>9

\* One memtable's bytes, in whole blocks and within its bounds.
LEMMA TableFacts ==
  ASSUME ArgsOK, count \in Nat, count >= 1
  PROVE  /\ bytesPerMemtable \in Nat /\ bytesPerMemtable % ALIGN = 0 /\ bytesPerMemtable >= ALIGN
         /\ bytesPerMemtable <= maxMemtableSize
         /\ totalMemtables \in Int /\ cacheBudget \in Int
         /\ count = 1 => bytesPerMemtable <= memtableBudget /\ totalMemtables = bytesPerMemtable
  <1>0. MiB \in Nat /\ MiB > 0
    BY UnitAssumption
  <1>1. PICK b \in Nat : b = memtableBudget /\ b >= 64 * MiB
    BY BudgetFacts
  <1>2. PICK d \in Int : d = b \div count /\ (count = 1 => d = b)
    <2>1. b \div count \in Int
      BY <1>1
    <2>2. b \div 1 = b
      BY <1>1
    <2> QED BY <2>1, <2>2
  <1>3. PICK x \in Nat : /\ x = AtMost(AtLeast(d, 64 * MiB), 2048 * MiB)
                         /\ x >= 64 * MiB /\ x <= 2048 * MiB /\ (d = b => x <= b)
    BY <1>0, <1>1, <1>2 DEF AtMost, AtLeast
  <1>4. bytesPerMemtable = alignDownTo(x)
    <2>1. 2048 * MiB = 2 * (1024 * MiB)
      BY <1>0
    <2> QED BY <1>1, <1>2, <1>3, <2>1 DEF bytesPerMemtable, minMemtableSize, maxMemtableSize, GiB
  <1>5. /\ bytesPerMemtable \in Nat /\ bytesPerMemtable <= x /\ bytesPerMemtable % ALIGN = 0
        /\ bytesPerMemtable >= ALIGN
    BY <1>0, <1>3, <1>4, AlignedDown DEF ALIGN
  <1>6. workingBudget \in Int
    BY BudgetFacts
  <1>7. totalMemtables \in Int /\ (count = 1 => totalMemtables = bytesPerMemtable)
    BY <1>5 DEF totalMemtables
  <1>8. cacheBudget \in Int
    BY <1>6, <1>7 DEF cacheBudget
  <1> QED BY <1>0, <1>1, <1>2, <1>3, <1>5, <1>7, <1>8 DEF maxMemtableSize, GiB

-----------------------------------------------------------------------------
(* The steps.                                                              *)

\* Fitting is a matter of the arguments and the number of memtables.
LEMMA SameFit ==
  ASSUME UNCHANGED <<args, count>>
  PROVE  Fits' = Fits /\ minCacheBudget' = minCacheBudget
  <1>1. workingBudget' = workingBudget
    BY DEF workingBudget, safetyReserve, totalLimit, clampMin, clampMax
  <1>2. memtableBudget' = memtableBudget
    BY <1>1 DEF memtableBudget, memtableRatio, profile, totalLimit, clampMin, clampMax
  <1>3. minCacheBudget' = minCacheBudget
    BY <1>1 DEF minCacheBudget, profile
  <1>4. bytesPerMemtable' = bytesPerMemtable
    BY <1>2 DEF bytesPerMemtable
  <1>5. totalMemtables' = totalMemtables
    BY <1>4 DEF totalMemtables
  <1>6. cacheBudget' = cacheBudget
    BY <1>1, <1>5 DEF cacheBudget
  <1> QED BY <1>1, <1>3, <1>5, <1>6 DEF Fits

\* The call begins with at least one memtable, and no more than asked for.
LEMMA BeginInv ==
  ASSUME MInv, Begin
  PROVE  MInv'
  <1>1. /\ phase = "start" /\ phase' = "loop" /\ UNCHANGED <<args, limits, handed>>
        /\ count' = IF args.want > 0 THEN AtMost(args.want, maxMemtablesByBudget) ELSE autoMemtables
    BY DEF Begin
  <1>2. args.want \in Int
    BY DEF MInv, ArgsOK
  <1>3. count' \in Nat /\ count' >= 1 /\ (args.want > 0 => count' <= args.want)
    BY <1>1, <1>2, BudgetFacts DEF MInv, AtMost
  <1> QED BY <1>1, <1>3 DEF MInv, ArgsOK, MTypeOK, CountInv, NoPanic, CachesKeepShare,
              ShareInv, BudgetUsedUp

\* The last memtable fits, so it is not given up.
LEMMA FewerInv ==
  ASSUME MInv, Fewer
  PROVE  MInv'
  <1>1. /\ phase = "loop" /\ count > 0 /\ ~Fits /\ count' = count - 1
        /\ UNCHANGED <<args, phase, limits, handed>>
    BY DEF Fewer
  <1>2. count \in Nat /\ count >= 1 /\ args.clampMax \in Int /\ args.want \in Int
    BY <1>1 DEF MInv, MTypeOK, ArgsOK
  <1>3. ASSUME count = 1, args.clampMax >= 1 PROVE FALSE
    <2>1. /\ bytesPerMemtable \in Nat /\ memtableBudget \in Nat /\ workingBudget \in Int
          /\ bytesPerMemtable <= memtableBudget /\ totalMemtables = bytesPerMemtable
          /\ memtableBudget <= workingBudget
      BY <1>2, <1>3, TableFacts, BudgetFacts DEF MInv
    <2>2. Fits
      BY <1>3, <2>1 DEF Fits
    <2> QED BY <1>1, <2>2
  <1>4. count' \in Nat /\ (count' >= 1 \/ args.clampMax < 1)
    BY <1>1, <1>2, <1>3
  <1>5. args.want > 0 => count' <= args.want
    BY <1>1, <1>2 DEF MInv, CountInv
  <1> QED BY <1>1, <1>4, <1>5 DEF MInv, ArgsOK, MTypeOK, CountInv, NoPanic, CachesKeepShare,
              ShareInv, BudgetUsedUp

\* Without a memtable left the function panics.
LEMMA PanicInv ==
  ASSUME MInv, Panic
  PROVE  MInv'
  <1>1. phase = "loop" /\ count <= 0 /\ phase' = "panic" /\ UNCHANGED <<args, count, limits, handed>>
    BY DEF Panic
  <1>2. count \in Nat
    BY DEF MInv, MTypeOK
  <1>3. args.clampMax < 1
    BY <1>1, <1>2 DEF MInv, CountInv
  <1> QED BY <1>1, <1>3 DEF MInv, ArgsOK, MTypeOK, CountInv, NoPanic, CachesKeepShare,
              ShareInv, BudgetUsedUp

\* What leaves the loop fits.
LEMMA LeaveInv ==
  ASSUME MInv, Leave
  PROVE  MInv'
  <1>1. /\ phase = "loop" /\ count > 0 /\ Fits /\ phase' = "split"
        /\ UNCHANGED <<args, count, limits, handed>>
    BY DEF Leave
  <1>2. Fits' /\ count \in Nat /\ count >= 1
    BY <1>1, SameFit DEF MInv, MTypeOK
  <1> QED BY <1>1, <1>2 DEF MInv, ArgsOK, MTypeOK, CountInv, NoPanic, CachesKeepShare,
              ShareInv, BudgetUsedUp

\* The loop's outcome for a caller who clamps to a GiB at least: the caches
\* are left something.
LEMMA CachesLeft ==
  ASSUME ArgsOK, count \in Nat, count >= 1, Fits, args.clampMax >= 1
  PROVE  cacheBudget > 0
  <1>1. /\ workingBudget \in Int /\ workingBudget > 0 /\ memtableBudget \in Nat
        /\ memtableBudget < workingBudget /\ minCacheBudget \in Nat /\ minCacheBudget > 0
    BY BudgetFacts, UnitAssumption
  <1>2. /\ bytesPerMemtable \in Nat /\ cacheBudget \in Int
        /\ count = 1 => bytesPerMemtable <= memtableBudget /\ totalMemtables = bytesPerMemtable
    BY TableFacts
  <1>3. CASE count = 1
    BY <1>1, <1>2, <1>3 DEF cacheBudget
  <1>4. CASE count # 1
    BY <1>1, <1>2, <1>4 DEF Fits
  <1> QED BY <1>3, <1>4

\* The block cache's part: it lies within the caches' share, and is not
\* rounded to nothing where the share is two units or more.
LEMMA BlockPart ==
  ASSUME ArgsOK, NEW c \in Nat, c = cacheBudget
  PROVE  blockCache \in 0 .. c /\ (c >= 2 => blockCache >= 1)
  <1>1. profile \in {loadMap.read, loadMap.write, loadMap.both}
    BY DEF ArgsOK, profile, loadMap
  <1>2. /\ profile.num \in {1, 2, 3} /\ profile.den \in {2, 3, 4} /\ profile.num < profile.den
        /\ profile.minBlock \in Nat /\ profile.minBlock >= 256
        /\ profile.minIndex \in Nat /\ profile.minIndex >= 128 /\ profile.minIndex <= profile.minBlock
    BY <1>1, UnitAssumption DEF loadMap
  <1>3. PICK y \in Nat : y = c * profile.num
    BY <1>2
  <1>4. PICK k \in Nat : k = y \div profile.den
    BY <1>2, <1>3
  <1>5. PICK b \in Nat : b = AtLeast(k, profile.minBlock) /\ b >= 256
    BY <1>2, <1>4 DEF AtLeast
  <1>6. PICK i \in Nat : i = AtLeast(c - k, profile.minIndex) /\ (i <= c \/ i <= b) /\ i >= 1
    BY <1>2, <1>4, <1>5 DEF AtLeast
  <1>7. blockCache = IF b + i > c THEN (b * c) \div (b + i) ELSE b
    BY <1>3, <1>4, <1>5, <1>6 DEF blockCache
  <1>8. CASE b + i > c
    <2>1. PICK z \in Nat : z = b * c
      OBVIOUS
    <2>2. PICK n \in Nat : n = b + i /\ n > 0
      BY <1>5
    <2>3. z <= n * c
      <3>1. n * c = b * c + i * c /\ i * c >= 0
        BY <2>2
      <3> QED BY <2>1, <3>1
    <2>4. PICK q \in Int : q = z \div n
      BY <2>1, <2>2
    <2>5. q >= 0 /\ q * n <= z /\ z < (q + 1) * n
      BY <2>1, <2>2, <2>4
    <2>6. q <= c
      <3> SUFFICES ASSUME q >= c + 1 PROVE FALSE
        BY <2>4
      <3>1. q * n >= (c + 1) * n
        BY <2>2, <2>4
      <3>2. (c + 1) * n = n * c + n
        BY <2>2
      <3> QED BY <2>2, <2>3, <2>5, <3>1, <3>2
    <2>7. ASSUME c >= 2 PROVE q >= 1
      <3> SUFFICES ASSUME q = 0 PROVE FALSE
        BY <2>4, <2>5
      <3>1. z < n
        BY <2>2, <2>5
      <3>2. z >= 2 * b /\ z >= 2 * c
        <4>1. b * c >= b * 2
          BY <2>7
        <4>2. b * c >= 2 * c
          BY <1>5
        <4> QED BY <2>1, <4>1, <4>2
      <3> QED BY <1>6, <2>2, <3>1, <3>2
    <2> QED BY <1>7, <1>8, <2>1, <2>2, <2>4, <2>5, <2>6, <2>7
  <1>9. CASE ~(b + i > c)
    BY <1>5, <1>6, <1>7, <1>9
  <1> QED BY <1>8, <1>9

\* What is divided in one step stays divided while the call stands still.
LEMMA SameShare ==
  ASSUME UNCHANGED <<args, count>>
  PROVE  /\ bytesPerMemtable' = bytesPerMemtable /\ cacheBudget' = cacheBudget
         /\ workingBudget' = workingBudget
  <1>1. workingBudget' = workingBudget
    BY DEF workingBudget, safetyReserve, totalLimit, clampMin, clampMax
  <1>2. memtableBudget' = memtableBudget
    BY <1>1 DEF memtableBudget, memtableRatio, profile, totalLimit, clampMin, clampMax
  <1>3. bytesPerMemtable' = bytesPerMemtable
    BY <1>2 DEF bytesPerMemtable
  <1>4. cacheBudget' = cacheBudget
    BY <1>1, <1>3 DEF cacheBudget, totalMemtables
  <1> QED BY <1>1, <1>3, <1>4

\* The caches get exactly what the memtables leave.
LEMMA SplitInv ==
  ASSUME MInv, Split
  PROVE  MInv'
  <1>1. /\ phase = "split" /\ phase' = "done" /\ UNCHANGED <<args, count, handed>>
    BY DEF Split
  <1>2. ArgsOK /\ count \in Nat /\ count >= 1 /\ Fits /\ args.want \in Int
        /\ (args.want > 0 => count <= args.want) /\ handed \in Sizes
    BY <1>1 DEF MInv, MTypeOK, CountInv, ArgsOK, Sizes
  <1>3. /\ bytesPerMemtable \in Nat /\ bytesPerMemtable % ALIGN = 0
        /\ bytesPerMemtable <= maxMemtableSize /\ minCacheBudget \in Nat
    BY <1>2, TableFacts, BudgetFacts
  <1>4. PICK c \in Nat : c = cacheBudget
    <2>1. workingBudget \in Int /\ totalMemtables \in Int
      BY <1>2, TableFacts, BudgetFacts
    <2> QED BY <1>2, <2>1 DEF Fits, cacheBudget
  <1>5. PICK bc \in 0 .. c : bc = blockCache /\ (c >= 2 => bc >= 1)
    BY <1>2, <1>4, BlockPart
  <1>6. PICK index \in Nat : /\ index = AtLeast(alignDownTo(c - bc), 0) /\ index <= c - bc
                             /\ c = 1 => index = 0
    <2>1. alignDownTo(c - bc) \in 0 .. (c - bc) /\ alignDownTo(c - bc) % ALIGN = 0
      BY <1>5, AlignedDown
    <2>2. c = 1 => alignDownTo(c - bc) = 0
      BY <1>5, AlignedDown, UnitAssumption DEF ALIGN
    <2> QED BY <2>1, <2>2 DEF AtLeast
  <1>7. PICK block \in Nat : block = alignDownTo(bc) /\ block <= bc
    BY <1>5, AlignedDown
  <1>8. PICK whole \in Nat : /\ whole = AtLeast(block + AtLeast(c - (block + index), 0), 0)
                             /\ whole + index = c
                             /\ c > 0 => whole > 0
    <2>1. block + index <= c
      BY <1>5, <1>6, <1>7
    <2>2. AtLeast(block + AtLeast(c - (block + index), 0), 0) = c - index
      BY <2>1 DEF AtLeast
    <2>3. c > 0 => c - index > 0
      BY <1>5, <1>6
    <2> QED BY <1>6, <2>1, <2>2, <2>3
  <1>9. limits' = [BlockCacheSize |-> whole, IndexCacheSize |-> index,
                   MemTableSize |-> bytesPerMemtable, NumMemtables |-> count]
    BY <1>4, <1>5, <1>6, <1>7, <1>8 DEF Split
  <1>10. limits' \in Sizes
    BY <1>2, <1>3, <1>9 DEF Sizes
  <1>11. MTypeOK'
    BY <1>1, <1>2, <1>3, <1>9, <1>10 DEF MTypeOK, Sizes
  <1>12. minCacheBudget' = minCacheBudget /\ Fits' = Fits
    BY <1>1, SameFit
  <1>13. CachesKeepShare'
    <2>1. count > 1 => cacheBudget >= minCacheBudget
      BY <1>2 DEF Fits
    <2>2. count > 1 => whole + index >= minCacheBudget
      BY <1>3, <1>4, <1>8, <2>1
    <2>3. args.want > 0 => count \in 1 .. args.want
      BY <1>2
    <2> QED BY <1>1, <1>9, <1>12, <2>2, <2>3 DEF CachesKeepShare
  <1>14. ShareInv'
    <2>1. Divided'
      BY <1>1, <1>2, <1>4, <1>8, <1>9, <1>12, SameShare DEF Divided
    <2> QED BY <1>1, <2>1 DEF ShareInv, BudgetUsedUp
  <1> QED BY <1>1, <1>2, <1>11, <1>13, <1>14 DEF MInv, ArgsOK, CountInv, NoPanic

\* open takes what is positive, and Badger's default for the rest: of a
\* preset that is nothing, unless the caches were left without a byte.
LEMMA OpenInv ==
  ASSUME MInv, Open
  PROVE  MInv'
  <1>1. /\ phase \in {"start", "done"} /\ phase' = "open" /\ UNCHANGED <<args, count, limits>>
        /\ handed' = [f \in DOMAIN limits |-> IF limits[f] > 0 THEN limits[f] ELSE BadgerDefaults[f]]
    BY DEF Open
  <1>2. limits \in Sizes
    BY DEF MInv, MTypeOK, Sizes
  <1>3. handed' \in Sizes
    BY <1>1, <1>2, UnitAssumption DEF Sizes, BadgerDefaults
  <1>4. ASSUME count > 0, args.clampMax >= 1 \/ cacheBudget > 0
        PROVE  handed'.BlockCacheSize + handed'.IndexCacheSize
                   + handed'.MemTableSize * handed'.NumMemtables = workingBudget
    <2>1. ArgsOK /\ count \in Nat /\ count >= 1 /\ Divided
      BY <1>1, <1>4 DEF MInv, MTypeOK, ShareInv
    <2>2. /\ bytesPerMemtable \in Nat /\ bytesPerMemtable > 0 /\ workingBudget \in Int
          /\ totalMemtables \in Int /\ cacheBudget \in Int
      BY <2>1, TableFacts, BudgetFacts, UnitAssumption DEF ALIGN
    <2>3. cacheBudget > 0
      BY <1>4, <2>1, CachesLeft DEF Divided
    <2>4. /\ handed'.BlockCacheSize = limits.BlockCacheSize
          /\ handed'.IndexCacheSize = limits.IndexCacheSize
          /\ handed'.MemTableSize = bytesPerMemtable
          /\ handed'.NumMemtables = count
      BY <1>1, <1>2, <2>1, <2>2, <2>3 DEF Divided, Sizes, BadgerDefaults
    <2>5. cacheBudget + totalMemtables = workingBudget
      BY <2>2 DEF cacheBudget
    <2> QED BY <2>1, <2>2, <2>4, <2>5 DEF Divided, totalMemtables
  <1>5. ShareInv'
    BY <1>1, <1>4, SameShare DEF ShareInv, BudgetUsedUp
  <1> QED BY <1>1, <1>2, <1>3, <1>5
          DEF MInv, ArgsOK, MTypeOK, Sizes, CountInv, NoPanic, CachesKeepShare

-----------------------------------------------------------------------------
(* The theorems.                                                           *)

\* Every call keeps the invariant, whatever its arguments.
THEOREM MInvariance == Spec => []MInv
  <1>1. Init => MInv
    <2> SUFFICES ASSUME Init PROVE MInv
      OBVIOUS
    <2>1. ArgsOK
      BY ArgumentsAssumption DEF Init, ArgsOK
    <2>2. limits = NoLimits /\ handed = NoLimits /\ count = 0 /\ phase = "start"
      BY DEF Init
    <2>3. NoLimits \in Sizes /\ NoLimits.MemTableSize = 0
      BY DEF NoLimits, Sizes
    <2>4. 0 % (64 * MiB) = 0 /\ 0 <= 2 * (1024 * MiB)
      BY UnitAssumption
    <2>5. MTypeOK
      BY <2>2, <2>3, <2>4 DEF MTypeOK, Sizes, ALIGN, maxMemtableSize, GiB
    <2> QED BY <2>1, <2>2, <2>5 DEF MInv, CountInv, NoPanic, CachesKeepShare, ShareInv, BudgetUsedUp
  <1>2. MInv /\ [Next]_mvars => MInv'
    <2> SUFFICES ASSUME MInv, [Next]_mvars PROVE MInv'
      OBVIOUS
    <2>1. CASE UNCHANGED mvars
      <3>1. UNCHANGED <<args, phase, count, limits, handed>> /\ Fits' = Fits
            /\ minCacheBudget' = minCacheBudget /\ bytesPerMemtable' = bytesPerMemtable
            /\ cacheBudget' = cacheBudget /\ workingBudget' = workingBudget
        BY <2>1, SameFit, SameShare DEF mvars
      <3> QED BY <3>1 DEF MInv, ArgsOK, MTypeOK, CountInv, NoPanic, CachesKeepShare, ShareInv,
                          Divided, BudgetUsedUp
    <2>2. CASE Finished
      BY <2>1, <2>2 DEF Finished
    <2> QED BY <2>1, <2>2, BeginInv, FewerInv, PanicInv, LeaveInv, SplitInv, OpenInv DEF Next
  <1> QED BY <1>1, <1>2, PTL DEF Spec

\* Every variable keeps its type, and memtables are whole blocks.
THEOREM PresetTypeCorrect == Spec => []MTypeOK
  <1>1. MInv => MTypeOK
    BY DEF MInv
  <1> QED BY <1>1, MInvariance, PTL

\* With a clamp of a GiB or more, one memtable always fits.
THEOREM OneMemtableFits == Spec => []NoPanic
  <1>1. MInv => NoPanic
    BY DEF MInv, CountInv
  <1> QED BY <1>1, MInvariance, PTL

\* Memtables and caches add up to the working budget, to the byte, in what
\* Badger is handed.
THEOREM BudgetIsUsedUp == Spec => []BudgetUsedUp
  <1>1. MInv => BudgetUsedUp
    BY DEF MInv, ShareInv
  <1> QED BY <1>1, MInvariance, PTL

\* A second memtable is never kept at the caches' expense.
THEOREM SharesAreKept == Spec => []CachesKeepShare
  <1>1. MInv => CachesKeepShare
    BY DEF MInv, CountInv
  <1> QED BY <1>1, MInvariance, PTL

=============================================================================
