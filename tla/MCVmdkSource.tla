--------------------------- MODULE MCVmdkSource ----------------------------
(***************************************************************************)
(* Small disks for VmdkSource: one sound, one whose storage ends early, and*)
(* one with a cell that cannot be read.                                    *)
(***************************************************************************)
EXTENDS VmdkSource, TLC

Cell(kind, val) == [kind |-> kind, val |-> val]

MCDisks ==
    {(0 :> Cell("data", 10) @@ 1 :> Cell("zero", 0) @@ 2 :> Cell("data", 12)),
     (0 :> Cell("data", 10) @@ 1 :> Cell("data", 11) @@ 2 :> Cell("end", 0)),
     (0 :> Cell("err", 0) @@ 1 :> Cell("data", 11) @@ 2 :> Cell("data", 12))}
=============================================================================
