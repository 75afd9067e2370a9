--------------------------- MODULE MCExtentReader --------------------------
(***************************************************************************)
(* Small directories for ExtentReader: a descriptor is put together from   *)
(* parts, each an extent line with the cells its author means it to hold.  *)
(***************************************************************************)
EXTENDS ExtentReader, Images, TLC

SX == INSTANCE SequencesExt

Cell(kind, val) == [kind |-> kind, val |-> val]
Value(v) == Cell(IF v = 0 THEN "zero" ELSE "data", v)

Part(access, size, type, name, offset, cells) ==
    [line |-> [access |-> access, size |-> size, type |-> type, name |-> name,
               offset |-> offset],
     cells |-> cells]

\* Raw file v: cell i of it is 100 * v + i.
Raw(v, sectors) == [hdr |-> Header(Plain), file |-> [i \in 1..(sectors * SECTOR_SIZE) |-> 100 * v + i]]

Flat(name, v, size, offset, sectors) ==
    Part("RW", size, "FLAT", name, offset,
         [i \in 1..(size * SECTOR_SIZE) |->
             IF offset * SECTOR_SIZE + i <= sectors * SECTOR_SIZE
             THEN Cell("data", 100 * v + offset * SECTOR_SIZE + i) ELSE Cell("end", 0)])

Hole(access, size, type) ==
    Part(access, size, type, "", 0, [i \in 1..(size * SECTOR_SIZE) |-> Cell("zero", 0)])

\* The extent files of the sparse parts, and a part that holds one whole.
P == Build(Plain, Sound)
Z == Build(Zeroed, Sound)
Q == Build(Partial, Sound)
W == Build(Cowd, Sound)
D == Build(Plain, Damage(<<"ok", "far">>, {}, {}, {}, 0))
T == Build(Plain, Damage(<<"ok", "ok">>, {}, {}, {}, 1))

Sparse(name, s) ==
    Part("RDONLY", s.hdr.capacity, "SPARSE", name, 0, [i \in 1..Len(s.disk) |-> Value(s.disk[i])])

Files == [a |-> Raw(1, 3), b |-> Raw(2, 1), p |-> P, z |-> Z, q |-> Q, w |-> W, d |-> D, t |-> T,
          bad |-> [P EXCEPT !.hdr.version = 4],
          atend |-> [P EXCEPT !.hdr.gd_offset = GD_AT_END],
          deep |-> [P EXCEPT !.hdr.gd_offset = 13],
          short |-> [P EXCEPT !.file = <<77>>]]

Dir(create_type, parts) ==
    LET cells == SX!FlattenSeq([i \in 1..Len(parts) |-> parts[i].cells])
    IN  [create_type |-> create_type, lines |-> [i \in 1..Len(parts) |-> parts[i].line],
         files |-> Files, want |-> [o \in 0..(Len(cells) - 1) |-> cells[o + 1]]]

A == Flat("a", 1, 2, 1, 3)
B == Flat("b", 2, 1, 0, 1)
Long == Flat("b", 2, 2, 0, 1)            \* the file is a sector short
Ignored == Part("RW", 5, "other", "x", 0, << >>)

\* The last two sectors of d lead nowhere, the last cell of t is cut off.
Broken == [Sparse("d", D) EXCEPT !.cells[5] = Cell("err", 0), !.cells[6] = Cell("err", 0)]
Cut == [Sparse("t", T) EXCEPT !.cells[6] = Cell("end", 0)]

SoundDirs ==
    {Dir("flat", <<A, Hole("RW", 1, "ZERO"), B, Hole("NOACCESS", 1, "FLAT")>>),
     Dir("flat", <<B, Ignored, A>>),
     Dir("flat", <<Long, A>>),
     Dir("flat", << >>),
     Dir("sparse", <<Sparse("p", P), Sparse("z", Z)>>),
     Dir("sparse", <<Sparse("q", Q), Sparse("w", W)>>),
     Dir("sparse", <<Sparse("w", W), Sparse("q", Q), Sparse("p", P)>>),
     Dir("sparse", <<Broken, Sparse("z", Z)>>),
     Dir("sparse", <<Cut, Sparse("z", Z)>>),
     Dir("custom", <<A, B>>),
     Dir("custom", <<Sparse("z", Z)>>)}

RefusedDirs ==
    {Dir("flat", <<A, [B EXCEPT !.line.name = "missing"]>>),
     Dir("flat", <<[B EXCEPT !.line.name = ".."]>>),
     Dir("flat", <<Hole("RW", 60, "ZERO"), Hole("RW", 5, "ZERO")>>),
     Dir("flat", <<Hole("RW", 65, "ZERO")>>),
     Dir("flat", <<Hole("RW", 100, "ZERO"), Hole("RW", 100, "ZERO")>>),
     Dir("custom", <<A, Sparse("p", P)>>),
     Dir("custom", << >>),
     Dir("other", <<A>>),
     Dir("seSparse", <<A>>),
     Dir("seSparse", <<Sparse("p", P)>>)}
    \cup {Dir("sparse", <<Sparse("p", P), [Sparse("p", P) EXCEPT !.line.name = n]>>) :
              n \in {"missing", "..", "bad", "atend", "deep", "short"}}

AllDirs == SoundDirs \cup RefusedDirs

\* Sparse disks with a region that is meant to read as zeros.
HoleInSparse ==
    {Dir("sparse", <<Sparse("p", P), h, Sparse("w", W)>>) :
        h \in {Hole("RW", 1, "ZERO"), Hole("NOACCESS", 1, "SPARSE")}}

MCZlib == [p \in {} |-> << >>]
MCSeekDeltas == {-64, 0, 63}
=============================================================================
