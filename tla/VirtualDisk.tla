---------------------------- MODULE VirtualDisk ----------------------------
(***************************************************************************)
(* What a reader over a virtual disk promises its caller, with no word of  *)
(* grain tables, caches or recovery: a cursor over a fixed stream of cells.*)
(* A cell either has a value or is a gap at which the stream ends early or *)
(* fails.  A read returns a run of the values at the cursor and moves past *)
(* it; a failed call moves nothing; a hash is the whole rest of the stream *)
(* taken in one piece.  Recovery may replace gaps and zeros, never data.   *)
(***************************************************************************)
EXTENDS Integers, Sequences

VARIABLES
    size,   \* number of cells
    disk,   \* cell o is disk[o]: its kind ("zero", "data", "end", "err") and val
    pos,    \* the cursor
    out     \* the answer to the last call

vars == <<size, disk, pos, out>>

Has(o) == o < size /\ disk[o].kind \in {"zero", "data"}

\* The values of n cells from o on.
Run(o, n) == [i \in 1..n |-> disk[o + i - 1].val]

\* No cell follows o: the disk ends there, or its storage does.
Stops(o) == IF o >= size THEN TRUE ELSE disk[o].kind = "end"

\* How many cells a read of at most n may return at o: some, unless it asks
\* for none or none follows.
Runs(o, n) ==
    {k \in 0..n : /\ \A i \in 0..(k - 1) : Has(o + i)
                  /\ k = 0 => n = 0 \/ Stops(o)}

Init == size = 0 /\ pos = 0 /\ out.op = "none"

Open == size = 0 /\ out'.op = "none" /\ pos' = 0

ReadOk ==
    /\ out'.op = "read" /\ out'.ok
    /\ LET n == Len(out'.data) IN
           /\ n \in Runs(pos, out'.arg)
           /\ out'.data = Run(pos, n)
           /\ pos' = pos + n
    /\ UNCHANGED <<size, disk>>

ReadErr ==
    /\ out'.op = "read" /\ ~out'.ok
    /\ UNCHANGED <<size, disk, pos>>

\* The pass succeeds: every cell from the cursor to where the stream stops.
HashOk ==
    /\ out'.op = "hash" /\ out'.ok
    /\ LET n == Len(out'.data) IN
           /\ \A i \in 0..(n - 1) : Has(pos + i)
           /\ Stops(pos + n)
           /\ out'.data = Run(pos, n)
           /\ pos' = pos + n
    /\ UNCHANGED <<size, disk>>

\* The pass fails somewhere on the way.
HashErr ==
    /\ out'.op = "hash" /\ ~out'.ok
    /\ pos' \in pos..(pos + size)
    /\ UNCHANGED <<size, disk>>

Seek ==
    /\ out'.op = "seek"
    /\ pos' \in Nat
    /\ ~out'.ok => pos' = pos
    /\ UNCHANGED <<size, disk>>

Query ==
    /\ out'.op \in {"none", "is_allocated", "iter"}
    /\ UNCHANGED <<size, disk, pos>>

Recover ==
    /\ out'.op = "none"
    /\ UNCHANGED <<size, pos>>
    /\ \A o \in 0..(size - 1) : disk[o].kind = "data" => disk'[o] = disk[o]

Next == Open \/ ReadOk \/ ReadErr \/ HashOk \/ HashErr \/ Seek \/ Query \/ Recover

Spec == Init /\ [][Next]_vars
=============================================================================
