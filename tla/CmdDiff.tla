------------------------------ MODULE CmdDiff ------------------------------
(***************************************************************************)
(* `vmdk diff A B`: cmd_diff of cli/src/main.rs.  Two readers are read in  *)
(* turn into buffers of one size, and what both returned is compared.      *)
(***************************************************************************)
EXTENDS DiskView, FiniteSets

CONSTANTS
    Pairs,      \* pairs of images; size -1 stands for one that does not open
    BUF,        \* the buffer size, 65536 in the code
    REPORTS     \* differences printed, 10 in the code

ASSUME DiffAssumption ==
    /\ \A p \in Pairs : /\ p.a.size = -1 \/ IsView(p.a)
                        /\ p.b.size = -1 \/ IsView(p.b)
    /\ BUF \in Nat \ {0}
    /\ REPORTS \in Nat

VARIABLES
    pair,       \* the two images
    st,         \* "start", "comparing", or how the command ended
    pa, pb,     \* the readers' cursors
    offset,     \* cells compared so far
    diff_count,
    reported    \* the offsets printed

vars == <<pair, st, pa, pb, offset, diff_count, reported>>

A == pair.a
B == pair.b

Init ==
    /\ pair \in Pairs
    /\ st = "start"
    /\ pa = 0 /\ pb = 0
    /\ offset = 0
    /\ diff_count = 0
    /\ reported = {}

\* Mutated form: the sizes are not compared.
OpenBoth_NoSizes ==
    /\ st = "start"
    /\ st' = IF A.size = -1 \/ B.size = -1 THEN "failed" ELSE "comparing"
    /\ UNCHANGED <<pair, pa, pb, offset, diff_count, reported>>

\* Both images are opened, sought to their start and their sizes compared.
OpenBoth ==
    /\ st = "start"
    /\ st' = IF A.size = -1 \/ B.size = -1 THEN "failed"
             ELSE IF A.size # B.size THEN "differ" ELSE "comparing"
    /\ UNCHANGED <<pair, pa, pb, offset, diff_count, reported>>

\* What read(..).unwrap_or(0) gives: 0 where the read fails.
na == IF ReadErr(A, pa, BUF) THEN 0 ELSE ReadLen(A, pa, BUF)
nb == IF ReadErr(B, pb, BUF) THEN 0 ELSE ReadLen(B, pb, BUF)
n == IF na < nb THEN na ELSE nb

\* Mutated form: the loop ends when everything has been compared.
Exhausted_AllCompared == offset = A.size

\* Neither image returned anything.
Exhausted == na = 0 /\ nb = 0

\* The indices in the buffers at which they differ.
Different == {i \in 0..(n - 1) : A.cells[pa + i].val # B.cells[pb + i].val}

\* Mutated form: offsets are printed from the end of the buffer.
Printed_Late == {offset + n + i : i \in Different}

\* The offsets printed in this turn: the first REPORTS of all differences.
Printed ==
    {offset + i : i \in {j \in Different :
        diff_count + Cardinality({k \in Different : k < j}) < REPORTS}}

\* One turn of the loop, or its exit.
Compare ==
    /\ st = "comparing"
    /\ \/ /\ ~Exhausted
          /\ pa' = pa + na
          /\ pb' = pb + nb
          /\ offset' = offset + n
          /\ diff_count' = diff_count + Cardinality(Different)
          /\ reported' = reported \cup Printed
          /\ UNCHANGED st
       \/ /\ Exhausted
          /\ st' = IF diff_count = 0 THEN "identical" ELSE "differ"
          /\ UNCHANGED <<pa, pb, offset, diff_count, reported>>
    /\ UNCHANGED pair

Next == OpenBoth \/ Compare

\* The command runs alone.
Spec == Init /\ [][Next]_vars /\ WF_vars(Next)

----------------------------------------------------------------------------
(* Properties                                                              *)

\* Reads of the two images of p are cut at the same offsets: the ends are the
\* same, or no end lies inside a buffer.  Where the ends of grains smaller than
\* the buffer differ, the readers get out of step and nothing below holds.
CutAlike(p) ==
    \/ p.a.ends = p.b.ends
    \/ \A e \in p.a.ends \cup p.b.ends : e % BUF = 0

SameDisk == A.size = B.size /\ \A o \in DOMAIN A.cells : A.cells[o].val = B.cells[o].val

\* For two images that can be read from end to end, the verdict is the truth,
\* and the number of differences is the number of cells that differ: the two
\* readers never get out of step however their reads are cut.
VerdictRight ==
    (st \in {"identical", "differ"} /\ Whole(A) /\ Whole(B)) =>
        /\ st = "identical" <=> SameDisk
        /\ A.size = B.size =>
               diff_count = Cardinality({o \in DOMAIN A.cells : A.cells[o].val # B.cells[o].val})

\* At most REPORTS offsets are printed, and each is one at which the disks
\* differ, also when one of them cannot be read to the end.
ReportsAreReal ==
    /\ Cardinality(reported) <= REPORTS
    /\ \A o \in reported : o \in DOMAIN A.cells /\ A.cells[o].val # B.cells[o].val

\* The command ends, whatever cannot be read.
DiffEnds == <>(st \in {"identical", "differ", "failed"})
=============================================================================
