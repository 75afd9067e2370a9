--------------------------- MODULE MCChainReader ---------------------------
(***************************************************************************)
(* Small directories for ChainReader.  Sectors have two cells.  A file is  *)
(* given by the kind of each of its grains; the data of file v at offset o *)
(* is 100 * v + o.                                                         *)
(***************************************************************************)
EXTENDS ChainReader, TLC

File(v, route, cid, parent_cid, hint, grain, kinds) ==
    [opens |-> TRUE, route |-> route, cid |-> cid, parent_cid |-> parent_cid,
     hint |-> hint, grain |-> grain, size |-> grain * Len(kinds),
     cells |-> [o \in 0..(grain * Len(kinds) - 1) |->
                   LET k == kinds[(o \div grain) + 1]
                   IN  [kind |-> k, val |-> IF k = "data" THEN 100 * v + o ELSE 0]]]

\* Shorthand: a sparse file in one binary, with small and with large grains.
Small(v, hint, kinds) ==
    File(v, "binary", v, IF hint = "" THEN NO_PARENT ELSE v + 1, hint, 2, kinds)
Large(v, hint, kinds) ==
    File(v, "binary", v, IF hint = "" THEN NO_PARENT ELSE v + 1, hint, 4, kinds)

Dir(files, chain) == [files |-> files, top |-> chain[1], chain |-> chain]

Base == Small(3, "", <<"data", "hole", "data", "data">>)
BaseFlat == File(3, "flat", 3, NO_PARENT, "", 2, <<"data", "data", "data", "data">>)
BaseShort == Small(3, "", <<"data", "data">>)
BaseZero == Small(3, "", <<"zero", "data", "zero", "hole">>)
BaseCut == Small(3, "", <<"data", "end", "data", "err">>)

\* Chains of one to three layers whose grains divide one another.
SoundChains ==
    {Dir([a |-> Small(1, "b", d), b |-> Small(2, "c", <<"hole", "data", "data", "hole">>),
          c |-> b], <<"a", "b", "c">>) :
        d \in {<<"data", "hole", "hole", "hole">>, <<"hole", "data", "hole", "data">>},
        b \in {Base, BaseFlat, BaseShort, BaseZero, BaseCut}}
    \cup {Dir([a |-> Large(1, "b", <<"hole", "data">>), b |-> Small(2, "c", <<"hole", "data", "hole", "data">>),
               c |-> Base], <<"a", "b", "c">>),
          Dir([a |-> Small(1, "b", <<"data", "hole", "hole", "hole">>),
               b |-> [Large(2, "", <<"hole", "data">>) EXCEPT !.cid = 9]], <<"a", "b">>),
          Dir([a |-> Large(1, "b", <<"hole", "data">>),
               b |-> Small(2, "", <<"hole", "data", "hole", "hole">>)], <<"a", "b">>),
          Dir([a |-> [Base EXCEPT !.parent_cid = 7]], <<"a">>),      \* a parent, no hint
          Dir([a |-> BaseFlat], <<"a">>),
          Dir([a |-> Small(1, "b", <<"hole", "data", "hole", "hole">>),
               b |-> File(2, "seSparse", 2, NO_PARENT, "", 2, <<"data", "data", "hole", "data">>)],
              <<"a", "b">>)}

\* They can be read as one disk.
ASSUME LayeredAssumption == \A s \in SoundChains : Layered(s)

\* Chains that cannot be opened: a cycle, a missing parent, one that does not
\* open, a hint that leaves the directory, one layer too many.
BrokenChains ==
    LET d(v, hint) == Small(v, hint, <<"hole", "hole", "hole", "hole">>)
    IN  {Dir([a |-> d(1, "b"), b |-> d(2, "a")], <<"a">>),
         Dir([a |-> d(1, "a")], <<"a">>),
         Dir([a |-> d(1, "b")], <<"a">>),
         Dir([a |-> d(1, "b"), b |-> [Base EXCEPT !.opens = FALSE]], <<"a">>),
         Dir([a |-> d(1, "..")], <<"a">>),
         Dir([a |-> d(1, "b"), b |-> d(2, "c"), c |-> d(3, "d"), d |-> d(4, "e"),
              e |-> Base], <<"a">>)}

AllChains == SoundChains \cup BrokenChains

\* A delta whose extents are listed in a text descriptor.
SplitDelta == {Dir([a |-> File(1, "multi", 1, 3, "c", 2, <<"hole", "data", "hole", "hole">>),
                    c |-> Base], <<"a", "c">>)}

MCSeekDeltas == {-64, 0, 63}
=============================================================================
