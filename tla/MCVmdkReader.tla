--------------------------- MODULE MCVmdkReader ----------------------------
(***************************************************************************)
(* The files VmdkReader is checked on: sound ones, files with one or more  *)
(* damaged pointers, files cut short, and files open refuses.              *)
(***************************************************************************)
EXTENDS VmdkReader, Images, TLC

SoundImages == {Build(sh, Sound) : sh \in {Plain, Zeroed, Partial, Stream, Beyond, NoRgd, Cowd}}

DamagedImages ==
    {Build(Plain, d) : d \in
        {Damage(<<"far", "ok">>, {}, {}, {}, 0),       \* pointer out of the file
         Damage(<<"ok", "far">>, {}, {}, {}, 0),
         Damage(<<"ok", "zero">>, {}, {}, {}, 0),      \* pointer wiped
         Damage(<<"ok", "ok">>, {}, {0}, {}, 0),       \* entry wiped
         Damage(<<"far", "ok">>, {}, {2}, {}, 0),      \* both kinds at once
         Damage(<<"ok", "ok">>, {0, 1}, {}, {}, 0),    \* only the redundant copy
         Damage(<<"far", "ok">>, {0}, {2}, {2}, 0)}}   \* both copies
    \cup {Build(Plain, Damage(<<"ok", "ok">>, {}, {}, {0}, 0)),
          Build(Stream, Damage(<<"far", "ok">>, {}, {}, {}, 0)),
          Build(Partial, Damage(<<"ok", "ok">>, {}, {1}, {}, 0)),
          Build(NoRgd, Damage(<<"zero", "far">>, {}, {}, {}, 0))}

CutImages ==
    {Build(Plain, Damage(<<"ok", "ok">>, {}, {}, {}, 1)),
     Build(Plain, Damage(<<"ok", "ok">>, {}, {}, {}, 7)),
     Build(Stream, Damage(<<"ok", "ok">>, {}, {}, {}, 8))}

\* Headers open refuses, each for one reason.
RefusedImages ==
    LET s == Build(Plain, Sound)
        c == Build(Stream, Sound)
    IN  {[s EXCEPT !.hdr = h] : h \in
            {[s.hdr EXCEPT !.magic = "other"], [s.hdr EXCEPT !.version = 4],
             [s.hdr EXCEPT !.compress = 1], [s.hdr EXCEPT !.grain_size = 0],
             [s.hdr EXCEPT !.grain_size = 9], [s.hdr EXCEPT !.num_gtes_per_gt = 0],
             [s.hdr EXCEPT !.num_gtes_per_gt = 3], [s.hdr EXCEPT !.capacity = 70],
             [s.hdr EXCEPT !.capacity = 40], [s.hdr EXCEPT !.gd_offset = 13],
             [s.hdr EXCEPT !.descriptor_offset = 10, !.descriptor_size = 2]}}
        \cup {[c EXCEPT !.footer.magic = "other"], [c EXCEPT !.footer.gd_offset = GD_AT_END],
              [s EXCEPT !.file = <<77>>]}

\* The zlib streams of the compressed grains.
MCZlib == [p \in {100, 102, 104} \X {2} |-> [i \in 1..p[2] |-> p[1] + i - 1]]

MCSeekDeltas == {-64, 0, 63}

\* Images every one of which opens, on a medium that may fail at any step.
FaultSources ==
    {[s EXCEPT !.fails = {"table", "entry", "data"}] :
        s \in {Build(Plain, Sound), Build(Stream, Sound)} \cup DamagedImages}

ReadSources == SoundImages \cup DamagedImages \cup CutImages \cup RefusedImages \cup FaultSources

\* All of them are files that Written describes, once opened.
ASSUME WrittenAssumption == \A s \in ReadSources : Opens(s) => Written(s)
=============================================================================
