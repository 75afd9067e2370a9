----------------------------- MODULE MCCmdDiff -----------------------------
(***************************************************************************)
(* Pairs of small disks for CmdDiff.                                       *)
(***************************************************************************)
EXTENDS CmdDiff, TLC

\* Disk of the given values; at 8 the file ends, at 9 a read fails.
View(vals, ends) ==
    [size |-> Len(vals), ends |-> ends,
     cells |-> [o \in 0..(Len(vals) - 1) |->
         CASE vals[o + 1] = 8 -> [kind |-> "end", val |-> 0]
           [] vals[o + 1] = 9 -> [kind |-> "err", val |-> 0]
           [] vals[o + 1] = 0 -> [kind |-> "zero", val |-> 0]
           [] OTHER           -> [kind |-> "data", val |-> vals[o + 1]]]]

\* The ends of grains of g cells on a disk of n.
GrainEnds(g, len) == {e \in 1..len : e % g = 0}

NoView == [size |-> -1, ends |-> {}, cells |-> << >>]

Disks(len) == [1..len -> {0, 1}]
Some(len) == [1..len -> {0, 1, 8, 9}]

\* Readers whose reads are cut at the same places: one grain size, or grains
\* that are multiples of the buffer, or none.
InStep ==
    {[a |-> View(x, GrainEnds(g, 4)), b |-> View(y, GrainEnds(g, 4))] :
        x \in Disks(4), y \in Disks(4), g \in {1, 3}}
    \cup {[a |-> View(x, {2, 4}), b |-> View(y, {4})] : x \in Disks(5), y \in Disks(5)}
    \cup {[a |-> View(x, {2}), b |-> View(y, {2})] : x \in Some(3), y \in Some(3)}
    \cup {[a |-> View(x, {}), b |-> View(y, {})] : x \in Disks(2), y \in Disks(3)}
    \cup {[a |-> NoView, b |-> View(<<1>>, {})], [a |-> View(<<1>>, {}), b |-> NoView],
          [a |-> View(<< >>, {}), b |-> View(<< >>, {})]}

ASSUME InStepAssumption == \A p \in InStep : CutAlike(p)

\* One grain size below the buffer, against larger grains.
SmallGrains ==
    {[a |-> View(x, GrainEnds(1, 4)), b |-> View(y, GrainEnds(2, 4))] :
        x \in Disks(4), y \in Disks(4)}
=============================================================================
