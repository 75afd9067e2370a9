------------------------------ MODULE SeImages ------------------------------
(***************************************************************************)
(* Small seSparse files for the runs.  Grains have two sectors of two      *)
(* cells and tables two entries; the tables and the grains lie in the file *)
(* in another order than on the disk:                                      *)
(*   0 header | 1 GD | 2-3 tables (index 1, index 0) | 4.. grains          *)
(***************************************************************************)
EXTENDS SeSparse

SeHdr(cap) ==
    [magic |-> TRUE, version |-> SE_VERSION, capacity |-> cap, grain_size |-> SE_GRAIN_SECTORS,
     grain_table_size |-> SE_GT_SECTORS, gd_offset |-> 1, gt_offset |-> 2, grains_offset |-> 4]

\* The producer's side of the encoding: an entry of a type for grain index n.
Entry(type, n) ==
    type * (SE_HI_SPAN * SE_LO_SPAN) + (n % SE_HI_SPAN) * SE_LO_SPAN + (n \div SE_HI_SPAN)
Slot(n) == ((U64_MAX + 1) \div 16) + n

GRAIN == SE_GRAIN_SECTORS * SECTOR_SIZE

\* A file with directory gd, entries gte[1], gte[2] of disk table 0 and the
\* next two of table 1, and four stored grains, the cells of grain n from
\* 100 + 10 * n on.
SeFile(gd, gte, cut) ==
    [a \in 1..(24 - cut) |->
        CASE a <= 2 -> 77
          [] a \in 3..4 -> gd[a - 2]
          [] a \in 5..6 -> gte[a - 2]     \* table index 0: slot 1
          [] a \in 7..8 -> gte[a - 6]     \* table index 1: slot 0
          [] OTHER -> 100 + 10 * ((a - 9) \div GRAIN) + ((a - 9) % GRAIN)]

SeBuild(cap, gd, gte, cut, disk_grains, lost) ==
    [se |-> SeHdr(cap), file |-> SeFile(gd, gte, cut),
     disk |-> [o \in 1..(cap * SECTOR_SIZE) |->
                  LET g == (o - 1) \div GRAIN
                      n == disk_grains[g + 1]
                  IN  IF n = -1 THEN 0 ELSE 100 + 10 * n + ((o - 1) % GRAIN)],
     lost |-> lost, fails |-> FALSE]

\* Three grains and a half: stored, explicitly zero, stored, (unmapped or none).
SeDir == <<Slot(1), Slot(0)>>
SeData == <<Entry(3, 3), Entry(2, 1), Entry(3, 1), Entry(1, 0)>>
SeSound == SeBuild(5, SeDir, SeData, 0, <<3, -1, 1>>, {})
SeFull == SeBuild(7, SeDir, [SeData EXCEPT ![2] = 0, ![4] = Entry(3, 2)], 0, <<3, -1, 1, 2>>, {})
SeSparseSlot == SeBuild(7, <<0, Slot(0)>>, SeData, 0, <<-1, -1, 1, -1>>, {})

SeDamaged ==
    {SeBuild(5, gd, SeData, 0, <<3, -1, 1>>, {0, 1}) : gd \in
        {<<3, Slot(0)>>, <<Slot(1) + 64, Slot(0)>>, <<Slot(7), Slot(0)>>}}
    \cup {SeBuild(5, SeDir, [SeData EXCEPT ![1] = e], 0, <<3, -1, 1>>, {0}) : e \in
             {Entry(5, 3), Entry(0, 3), Entry(3, 15)}}

\* Cut in the last stored grain, in the grains, and in the tables.
SeCut == {SeBuild(5, SeDir, SeData, 2, <<3, -1, 1>>, {0}),
          SeBuild(5, SeDir, SeData, 17, <<3, -1, 1>>, {0, 1, 2})}

\* Offsets in the header that lead elsewhere: the directory's wraps back to
\* where it is, the grains' wrap into the file or leave it.
SeWild ==
    {[SeSound EXCEPT !.se.gd_offset = 129],
     [SeSound EXCEPT !.se.grains_offset = 252, !.lost = {0, 2}],
     [SeSound EXCEPT !.se.grains_offset = 100, !.lost = {0, 2}]}
=============================================================================
