------------------------------ MODULE MCPreset ------------------------------
(* Limits at and around the steps of ComputeMemoryPresetWithClamp, in      *)
(* eighths of a MiB.  Of 85 MiB the budget does not hold one memtable, of  *)
(* 85 2/8 MiB it is exactly one, of 85 3/8 one and a unit for the caches.  *)
EXTENDS MemoryPreset

MCLimits ==
    {682, 683} \cup {n * MiB : n \in {0, 85, 86, 100, 1024, 1100, 1365, 2048, 4095, 6143, 6144,
                                12287, 12288, 65536, 131072, 200000}}
MCClampMins == {-1, 1, 2, 200}
MCClampMaxs == {0, 1, 2, 128, 200}
MCWants     == {0, 1, 2, 3, 7, 40}

=============================================================================
