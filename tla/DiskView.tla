------------------------------ MODULE DiskView -----------------------------
(***************************************************************************)
(* An opened image as the commands of the command line see it: a size, the *)
(* cells read returns, and the offsets one read never runs over (the ends  *)
(* of its grains or of its extents; core/src/read.rs, flat.rs).  The       *)
(* commands open regular files, so a read is short only at such an offset, *)
(* at a cell that is not stored, or at the end of the disk.                *)
(***************************************************************************)
EXTENDS Integers, Sequences

\* A cell has a value ("zero", "data"), or the file ends there, or a read fails.
Cell == [kind : {"zero", "data", "end", "err"}, val : Nat]

IsView(v) ==
    /\ v.size \in Nat
    /\ v.cells \in [0..(v.size - 1) -> Cell]
    /\ v.ends \subseteq 1..v.size

HasCell(v, o) == v.cells[o].kind \in {"zero", "data"}

\* The disk has no cell that cannot be read.
Whole(v) == \A o \in 0..(v.size - 1) : HasCell(v, o)

\* read at p fails.
ReadErr(v, p, n) == n > 0 /\ p < v.size /\ v.cells[p].kind = "err"

\* The cells read returns at p for a buffer of n: all up to the next end.
ReadLen(v, p, n) ==
    LET fits(k) == /\ p + k <= v.size
                   /\ \A o \in p..(p + k - 1) : HasCell(v, o)
                   /\ \A o \in (p + 1)..(p + k - 1) : o \notin v.ends
    IN  CHOOSE k \in 0..n : fits(k) /\ \A j \in 0..n : fits(j) => j <= k

ReadData(v, p, n) == [i \in 1..ReadLen(v, p, n) |-> v.cells[p + i - 1].val]
=============================================================================
