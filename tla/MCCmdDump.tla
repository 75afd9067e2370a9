----------------------------- MODULE MCCmdDump -----------------------------
(***************************************************************************)
(* Small images for CmdDump: grains of three cells, the last one partial.  *)
(***************************************************************************)
EXTENDS CmdDump, TLC

\* A disk of eight cells.  0 is a cell of a hole, 8 is where the file ends and
\* 9 where a read fails; a grain is listed unless it is a hole.
Image(vals) ==
    [size |-> Len(vals), ends |-> {e \in 1..Len(vals) : e % 3 = 0},
     cells |-> [o \in 0..(Len(vals) - 1) |->
         CASE vals[o + 1] = 8 -> [kind |-> "end", val |-> 0]
           [] vals[o + 1] = 9 -> [kind |-> "err", val |-> 0]
           [] vals[o + 1] = 0 -> [kind |-> "zero", val |-> 0]
           [] OTHER           -> [kind |-> "data", val |-> vals[o + 1]]],
     scans |-> TRUE,
     grains |-> SelectSeq([g \in 1..((Len(vals) + 2) \div 3) |-> [start |-> 3 * (g - 1), len |-> 3]],
                          LAMBDA g : vals[g.start + 1] # 0)]

\* Flat extents of four cells each: the disk is listed as one grain.
TwoExtents(im) == [im EXCEPT !.ends = {4, 8}, !.grains = <<[start |-> 0, len |-> 8]>>]

NoImage == [size |-> -1, ends |-> {}, cells |-> << >>, scans |-> FALSE, grains |-> << >>]

WholeImages ==
    {Image(<<1, 2, 3, 4, 5, 6, 7, 11>>), Image(<<1, 2, 3, 0, 0, 0, 7, 11>>),
     Image(<<0, 0, 0, 4, 5, 6, 0, 0>>), Image(<< >>)}
CutImages == {Image(<<1, 2, 3, 4, 5, 6, 7, 8>>), Image(<<1, 2, 3, 8, 8, 8, 7, 11>>),
              TwoExtents(Image(<<1, 2, 8, 8, 5, 6, 7, 11>>))}
BadImages == {Image(<<1, 2, 3, 9, 9, 9, 7, 11>>),
              [Image(<<1, 2, 3, 4, 5, 6, 7, 11>>) EXCEPT !.scans = FALSE], NoImage}

AllImages == WholeImages \cup CutImages \cup BadImages
MCAmounts == {-1, 0, 3, 7, 31}
=============================================================================
