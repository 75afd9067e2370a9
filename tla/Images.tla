------------------------------ MODULE Images -------------------------------
(***************************************************************************)
(* Small extent files for the runs.  A producer lays a disk of known       *)
(* contents out in a file and the file is then damaged in a known way, so  *)
(* that what a reader ought to return is known apart from how the reader   *)
(* finds it.  Sectors have two cells and tables two entries:               *)
(*   0 header | 1 GD | 2 RGD | 3-4 tables | 5-6 redundant tables | 7.. grains *)
(***************************************************************************)
EXTENDS ExtentHeader

GTES == 2

\* Grain g holds the cells Base(sh, g) .. Base(sh, g) + gs * SECTOR_SIZE - 1.
Base(sh, g) == g * sh.gs * SECTOR_SIZE
Grains(sh) == Len(sh.kinds)
Width(sh) == IF sh.comp THEN 3 ELSE sh.gs    \* sectors between grains

Pointer(sh, g) ==
    IF g >= Grains(sh) THEN 0
    ELSE [data |-> 7 + g * Width(sh), zero |-> 1, hole |-> 0][sh.kinds[g + 1]]

GrainCell(sh, g, o) ==
    IF ~sh.comp THEN 100 + Base(sh, g) + o
    ELSE CASE o = 2 -> 2                           \* dataSize
           [] o = 3 -> 100 + Base(sh, g)           \* the stream: first value ...
           [] o = 4 -> sh.gs * SECTOR_SIZE         \* ... and length
           [] OTHER -> g

FileCell(sh, d, a) ==
    LET sec == a \div SECTOR_SIZE
        i   == a % SECTOR_SIZE
        g   == (sec - 7) \div Width(sh)
    IN  CASE sec = 0 -> 77
          [] sec = 1 -> [ok |-> 3 + i, zero |-> 0, far |-> 60][d.gd[i + 1]]
          [] sec = 2 -> IF i \in d.rgd THEN 60 ELSE 5 + i
          [] sec \in 3..4 -> IF (sec - 3) * GTES + i \in d.gte THEN 0
                             ELSE Pointer(sh, (sec - 3) * GTES + i)
          [] sec \in 5..6 -> IF (sec - 5) * GTES + i \in d.rgte THEN 0
                             ELSE Pointer(sh, (sec - 5) * GTES + i)
          [] OTHER -> GrainCell(sh, g, a - (7 + g * Width(sh)) * SECTOR_SIZE)

Header(sh) ==
    [magic |-> IF sh.cowd THEN "COWD" ELSE "VMDK4",
     version |-> IF sh.comp THEN 3 ELSE 1, compress |-> IF sh.comp THEN 1 ELSE 0,
     capacity |-> sh.cap, grain_size |-> sh.gs, num_gtes_per_gt |-> GTES,
     descriptor_offset |-> 0, descriptor_size |-> 0,
     rgd_offset |-> IF sh.rgd THEN 2 ELSE 0,
     gd_offset |-> IF sh.comp THEN GD_AT_END ELSE 1]

\* The grains of the disk whose directory slot or entry is damaged.
Lost(sh, d) ==
    {g \in 0..(Grains(sh) - 1) : d.gd[(g \div GTES) + 1] # "ok" \/ g \in d.gte}

Build(sh, d) ==
    LET full == 7 * SECTOR_SIZE + Grains(sh) * Width(sh) * SECTOR_SIZE
        file == [a \in 1..(full - d.cut) |-> FileCell(sh, d, a - 1)]
    IN  [hdr |-> Header(sh), footer |-> [Header(sh) EXCEPT !.gd_offset = 1],
         desc_ok |-> TRUE, file |-> file,
         disk |-> [o \in 1..(sh.cap * SECTOR_SIZE) |->
                      LET g == (o - 1) \div (sh.gs * SECTOR_SIZE)
                      IN  IF sh.kinds[g + 1] = "data" THEN 99 + o ELSE 0],
         lost |-> Lost(sh, d),
         gone |-> {g \in Lost(sh, d) : ~sh.rgd \/ g \div GTES \in d.rgd \/ g \in d.rgte},
         cut |-> d.cut # 0, fails |-> {}]

Shape(cap, gs, kinds, rgd, comp, cowd) ==
    [cap |-> cap, gs |-> gs, kinds |-> kinds, rgd |-> rgd, comp |-> comp, cowd |-> cowd]
Damage(gd, rgd, gte, rgte, cut) ==
    [gd |-> gd, rgd |-> rgd, gte |-> gte, rgte |-> rgte, cut |-> cut]

Sound == Damage(<<"ok", "ok">>, {}, {}, {}, 0)

Plain == Shape(3, 1, <<"data", "hole", "data">>, TRUE, FALSE, FALSE)
Zeroed == Shape(3, 1, <<"zero", "data", "hole">>, TRUE, FALSE, FALSE)
Partial == Shape(3, 2, <<"data", "data">>, TRUE, FALSE, FALSE)
Stream == Shape(3, 1, <<"data", "data", "hole">>, TRUE, TRUE, FALSE)
Beyond == Shape(3, 1, <<"data", "hole", "data", "data">>, TRUE, FALSE, FALSE)
NoRgd == Shape(3, 1, <<"data", "hole", "data">>, FALSE, FALSE, FALSE)
Cowd == Shape(3, 1, <<"data", "hole", "data">>, FALSE, FALSE, TRUE)
=============================================================================
