------------------------- MODULE MCSeSparseReader --------------------------
(***************************************************************************)
(* The files SeSparseReader is checked on.                                 *)
(***************************************************************************)
EXTENDS SeSparseReader, SeImages, TLC

Refused ==
    {[SeSound EXCEPT !.se = h] : h \in
        {[SeSound.se EXCEPT !.magic = FALSE], [SeSound.se EXCEPT !.version = <<2, 0>>],
         [SeSound.se EXCEPT !.grain_size = 1], [SeSound.se EXCEPT !.grain_table_size = 2],
         [SeSound.se EXCEPT !.gd_offset = 12], [SeSound.se EXCEPT !.capacity = 40],
         [SeSound.se EXCEPT !.capacity = 130]}}
    \cup {[SeSound EXCEPT !.file = <<77>>]}

Empty == SeBuild(0, SeDir, SeData, 0, << >>, {})

MCSources ==
    {SeSound, SeFull, SeSparseSlot, Empty} \cup SeDamaged \cup SeCut \cup SeWild \cup Refused
    \cup {[s EXCEPT !.fails = TRUE] : s \in {SeSound, SeSparseSlot} \cup SeDamaged}

\* All of them are files that SeWritten describes, once opened.
ASSUME SeWrittenAssumption == \A s \in MCSources : SeOpens(s) => SeWritten(s)

MCZlib == [p \in {} |-> << >>]
MCSeekDeltas == {-128, 0, 127}
=============================================================================
