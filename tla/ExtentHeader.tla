--------------------------- MODULE ExtentHeader ----------------------------
(***************************************************************************)
(* The headers of sparse extents: which ones the parsers accept (header.rs,*)
(* cowd.rs) and how large a grain directory they call for.  Used by the    *)
(* reader of one extent (VmdkReader) and of several (ExtentReader).        *)
(***************************************************************************)
EXTENDS SparseImage

CONSTANTS
    MIN_GRAIN_SIZE, MAX_GRAIN_SIZE_SECTORS, MAX_NUM_GTES_PER_GT,
    MAX_GD,                  \* entries of the largest grain directory read
    COWD_GD_SECTOR, COWD_GTES_PER_GT

ASSUME HeaderAssumption ==
    /\ MIN_GRAIN_SIZE \in Nat \ {0}
    /\ MAX_GRAIN_SIZE_SECTORS \in Nat
    /\ MAX_NUM_GTES_PER_GT \in Nat
    /\ MAX_GD \in Nat
    /\ COWD_GD_SECTOR \in Nat
    /\ COWD_GTES_PER_GT \in Nat \ {0}

HeaderFields == [magic : {"VMDK4", "COWD", "other"}, version : Nat, compress : Nat,
                 capacity : Nat, grain_size : Nat, num_gtes_per_gt : Nat,
                 descriptor_offset : Nat, descriptor_size : Nat,
                 rgd_offset : Nat, gd_offset : Nat]

\* SparseExtentHeader::parse accepts the header.
HeaderParses(h) ==
    /\ h.magic = "VMDK4"
    /\ <<h.version, h.compress>> \in {<<1, 0>>, <<2, 0>>, <<3, 1>>}
    /\ h.grain_size \in MIN_GRAIN_SIZE..MAX_GRAIN_SIZE_SECTORS
    /\ h.num_gtes_per_gt \in 1..MAX_NUM_GTES_PER_GT

\* Grain directory entries of a VMDK4 extent.  The code checks both
\* sums; the second cannot overflow when the first does not (grains >= 8).
NumGts(h) == CeilDiv(CeilDiv(h.capacity, h.grain_size), h.num_gtes_per_gt)

\* The same of a COWD extent, whose tables have a fixed size.
CowdNumGts(h) == CeilDiv(CeilDiv(h.capacity, h.grain_size), COWD_GTES_PER_GT)

\* open_cowd reaches its Ok.
CowdOpens(s) ==
    /\ s.hdr.magic = "COWD"
    /\ s.hdr.version = 1
    /\ s.hdr.grain_size # 0
    /\ InFile(s, COWD_GD_SECTOR * SECTOR_SIZE, CowdNumGts(s.hdr))

=============================================================================
