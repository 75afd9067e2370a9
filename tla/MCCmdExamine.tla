---------------------------- MODULE MCCmdExamine ----------------------------
(***************************************************************************)
(* The images the commands are checked on: the VMDK4, COWD and seSparse    *)
(* files of the readers' runs, and some whose two directories disagree.    *)
(***************************************************************************)
EXTENDS CmdExamine, Images, SeImages, TLC

NoSe == [SeHdr(0) EXCEPT !.magic = FALSE]
NoHdr == [Header(Plain) EXCEPT !.magic = "other"]

OfVmdk(s) ==
    [hdr |-> s.hdr, footer |-> s.footer, desc_ok |-> TRUE, se |-> NoSe, file |-> s.file,
     unclean |-> FALSE, mangled |-> FALSE, fails |-> FALSE]
OfSe(s) ==
    [hdr |-> NoHdr, footer |-> NoHdr, desc_ok |-> TRUE, se |-> s.se, file |-> s.file,
     unclean |-> FALSE, mangled |-> FALSE, fails |-> FALSE]

P == OfVmdk(Build(Plain, Sound))

Vmdks ==
    {OfVmdk(Build(sh, Sound)) : sh \in {Plain, Zeroed, Partial, Stream, Beyond, NoRgd, Cowd}}
    \cup {OfVmdk(Build(Plain, Damage(gd, rd, gte, rgte, cut))) :
             gd \in {<<"ok", "ok">>, <<"far", "ok">>, <<"ok", "zero">>}, rd \in {{}, {0}, {1}},
             gte \in {{}, {0}}, rgte \in {{}, {0}}, cut \in {0}}
    \cup {OfVmdk(Build(Plain, Damage(gd, {}, {2}, {}, cut))) :
             gd \in {<<"ok", "ok">>, <<"far", "ok">>}, cut \in {0, 1}}
    \cup {OfVmdk(Build(NoRgd, Damage(gd, {}, {}, {}, 0))) :
             gd \in {<<"far", "ok">>, <<"zero", "ok">>}}
    \cup {OfVmdk(Build(Stream, Damage(<<"far", "ok">>, {}, {}, {}, 0))),
          OfVmdk(Build(Partial, Damage(<<"ok", "ok">>, {}, {}, {}, 3)))}

\* In P cells 3 and 4 are the directory, 5 and 6 the redundant one, 7 and 11
\* the first entries of their first tables, sector 9 the last of the file.
\* The redundant directory elsewhere; tables and grains that begin at the end
\* of the file or run over it, in one directory or in both; header oddities.
Odd ==
    {[P EXCEPT !.hdr.rgd_offset = r] : r \in {6, GD_AT_END, 9, 10}}
    \cup {[P EXCEPT !.file[3] = p, !.file[5] = r] : p \in {0, 3, 10}, r \in {0, 5, 10, 60}}
    \cup {[P EXCEPT !.file[7] = 10], [P EXCEPT !.file[7] = 10, !.file[11] = 10],
          [P EXCEPT !.file[7] = 0, !.file[11] = 60],
          [P EXCEPT !.file = SubSeq([@ EXCEPT ![3] = 9, ![9] = 8], 1, 19)],
          [P EXCEPT !.file[3] = 60, !.hdr.rgd_offset = 10],
          [P EXCEPT !.hdr.descriptor_offset = 7, !.hdr.descriptor_size = 1],
          [P EXCEPT !.hdr.descriptor_offset = 3, !.hdr.descriptor_size = 1, !.file[7] = 0],
          [P EXCEPT !.unclean = TRUE], [P EXCEPT !.mangled = TRUE],
          [P EXCEPT !.hdr.version = 4], [P EXCEPT !.hdr.gd_offset = 13]}

Ses == {OfSe(s) : s \in {SeSound, SeFull, SeSparseSlot} \cup SeDamaged \cup SeCut \cup SeWild}

\* On a failing medium: a sound image of each kind, and a damaged one.
Failing ==
    {[s EXCEPT !.fails = TRUE] :
        s \in {P, OfSe(SeSound), OfVmdk(Build(Cowd, Sound)),
               OfVmdk(Build(Plain, Damage(<<"far", "ok">>, {}, {}, {}, 0))),
               OfVmdk(Build(NoRgd, Damage(<<"far", "ok">>, {}, {}, {}, 0)))}}

MCSources == Vmdks \cup Odd \cup Ses \cup Failing

MCArgs ==
    {[cmd |-> "examine", recover |-> r, fingerprint |-> f] : r \in BOOLEAN, f \in BOOLEAN}
    \cup {[cmd |-> c, recover |-> r, fingerprint |-> FALSE] :
             c \in {"verify", "hash", "map"}, r \in BOOLEAN}
    \cup {[cmd |-> c, recover |-> FALSE, fingerprint |-> FALSE] :
             c \in {"info", "descriptor", "chain"}}

MCZlib == [p \in {100, 102, 104} \X {2} |-> [i \in 1..p[2] |-> p[1] + i - 1]]
=============================================================================
