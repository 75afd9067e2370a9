---------------------------- MODULE ChainReader ----------------------------
(***************************************************************************)
(* VmdkChainReader (core/src/chain.rs): a delta VMDK over its parents.     *)
(* `open` follows parentFileNameHint from file to file, one file a step;   *)
(* `read` asks each layer, newest first, whether it has the sector under   *)
(* the cursor and reads from the first that does.                          *)
(*                                                                         *)
(* A layer is a VmdkReader without recovery, seen through what it promises:*)
(* the cells it reads (VirtualDisk) and the sectors it calls allocated.    *)
(* How open_path turns a file into such a reader is part of this module,   *)
(* as far as the chain can tell one kind of file from another.             *)
(***************************************************************************)
EXTENDS Integers, Sequences, Words

CONSTANTS
    SECTOR_SIZE,
    MAX_CHAIN_DEPTH,
    NO_PARENT,              \* parentCID 0xffffffff
    Scenarios,              \* directories of VMDK files to open
    Lengths, SeekStarts, SeekDeltas,
    MayFail                 \* the medium under a layer may fail

\* A file that open_path accepts or not; the way it is routed; what its
\* descriptor says; and its cells: stored data, a grain stored as zero, a hole,
\* or a place where its storage ends or cannot be read.  hint is the name of
\* the parent, "" when there is none, ".." when it leads out of the directory.
CellKinds == {"data", "zero", "hole", "end", "err"}

\* A scenario: the files of a directory, the one to open, and the chain its
\* descriptors describe, newest first.
IsScenario(s) ==
    /\ s.top \in DOMAIN s.files
    /\ \A n \in DOMAIN s.files :
           /\ s.files[n].route \in {"binary", "flat", "multi", "seSparse"}
           /\ s.files[n].grain \in Nat \ {0} /\ s.files[n].size \in Nat
           /\ \A o \in 0..(s.files[n].size - 1) : s.files[n].cells[o].kind \in CellKinds
    /\ s.chain \in Seq(DOMAIN s.files)

ASSUME ChainAssumption ==
    /\ SECTOR_SIZE \in Nat \ {0}
    /\ MAX_CHAIN_DEPTH \in Nat
    /\ \A s \in Scenarios : IsScenario(s)
    /\ Lengths \subseteq Nat /\ SeekStarts \subseteq 0..U64_MAX /\ SeekDeltas \subseteq Int

VARIABLES
    sc,                 \* the directory
    st,                 \* "opening", "open" or "refused"
    current_path,       \* the file to open next
    layers,             \* the layers opened so far, newest first
    virtual_disk_size,
    clamp_bytes,        \* smallest grain among the layers, 0 if there is none
    pos,
    out                 \* the answer to the last call

vars == <<sc, st, current_path, layers, virtual_disk_size, clamp_bytes, pos, out>>

Answer(op, ok, at, arg, data) ==
    [op |-> op, ok |-> ok, at |-> at, arg |-> arg, data |-> data]

----------------------------------------------------------------------------
(* open                                                                    *)

\* The reader open_path makes of a file.  A descriptor with several extents
\* (flat or sparse) becomes a Flat reader; one with a seSparse extent becomes
\* the reader of that extent, which knows neither descriptor nor CIDs.
open_path(f) ==
    [cid        |-> IF f.route = "seSparse" THEN NO_PARENT ELSE f.cid,
     parent_cid |-> IF f.route = "seSparse" THEN NO_PARENT ELSE f.parent_cid,
     hint       |-> IF f.route = "seSparse" THEN "" ELSE f.hint,
     flat       |-> f.route \in {"flat", "multi"},
     grain      |-> IF f.route \in {"flat", "multi"} THEN 0 ELSE f.grain,
     size       |-> f.size,
     cells      |-> f.cells]

Init ==
    /\ sc \in Scenarios
    /\ st = "opening"
    /\ current_path = sc.top
    /\ layers = << >>
    /\ virtual_disk_size = 0
    /\ clamp_bytes = 0
    /\ pos = 0
    /\ out = Answer("none", TRUE, 0, 0, << >>)

\* Mutated form: reads are clamped to the largest grain.
MinGrain_Max(ls) ==
    LET grains == {ls[i].grain : i \in 1..Len(ls)} \ {0}
    IN  IF grains = {} THEN 0 ELSE CHOOSE g \in grains : \A h \in grains : h <= g

\* The smallest non-zero grain of a sequence of layers, 0 if there is none.
MinGrain(ls) ==
    LET grains == {ls[i].grain : i \in 1..Len(ls)} \ {0}
    IN  IF grains = {} THEN 0 ELSE CHOOSE g \in grains : \A h \in grains : g <= h

Exists(name) == IF name \in DOMAIN sc.files THEN sc.files[name].opens ELSE FALSE

\* Mutated form: the error is swallowed and the same file tried again.
OpenFails_Retry ==
    /\ st = "opening" /\ ~Exists(current_path)
    /\ UNCHANGED vars

\* A file that open_path fails on ends the whole open.
OpenFails ==
    /\ st = "opening" /\ ~Exists(current_path)
    /\ st' = "refused"
    /\ UNCHANGED <<sc, current_path, layers, virtual_disk_size, clamp_bytes, pos, out>>

\* Mutated form: the depth is compared after the counter has moved on.
TooDeep_Never == FALSE

\* depth == MAX_CHAIN_DEPTH; the depth is the number of layers below this one.
TooDeep == Len(layers) = MAX_CHAIN_DEPTH

\* One turn of the loop: the file is a layer, and it is the last one, or its
\* parent may not be followed, or the parent is next.
OpenLayer ==
    /\ st = "opening" /\ Exists(current_path)
    /\ LET r    == open_path(sc.files[current_path])
           last == r.parent_cid = NO_PARENT \/ (~TooDeep /\ r.hint = "")
       IN  /\ layers' = Append(layers, r)
           /\ \/ /\ last
                 /\ st' = "open"
                 /\ virtual_disk_size' = layers'[1].size
                 /\ clamp_bytes' = MinGrain(layers')
                 /\ UNCHANGED current_path
              \/ /\ ~last /\ (TooDeep \/ r.hint = "..")
                 /\ st' = "refused"
                 /\ UNCHANGED <<current_path, virtual_disk_size, clamp_bytes>>
              \/ /\ ~last /\ ~TooDeep /\ r.hint # ".."
                 /\ current_path' = r.hint
                 /\ UNCHANGED <<st, virtual_disk_size, clamp_bytes>>
    /\ UNCHANGED <<sc, pos, out>>

----------------------------------------------------------------------------
(* Read and Seek                                                           *)

\* layer.is_allocated(lba): an out-of-range sector never is, a Flat layer's
\* always is, a sparse layer's is when its entry points to a grain.
is_allocated(l, lba) ==
    /\ lba < l.size \div SECTOR_SIZE
    /\ l.flat \/ l.cells[lba * SECTOR_SIZE].kind \in {"data", "end", "err"}

\* The newest layer that has the sector, 0 if none has.
Owner(lba) ==
    LET own == {i \in 1..Len(layers) : is_allocated(layers[i], lba)}
    IN  IF own = {} THEN 0 ELSE CHOOSE i \in own : \A j \in own : i <= j

ToRead(len) ==
    LET n == Min2(len, virtual_disk_size - pos)
    IN  IF clamp_bytes = 0 THEN n ELSE Min2(n, clamp_bytes - (pos % clamp_bytes))

\* The counts layer l may return for a read of n at pos: it stops at the end
\* of the layer and of the layer's grain, and returns 0 where storage ends.
LayerRuns(l, n) ==
    LET m == Min2(Min2(n, l.size - pos),
                  IF l.flat THEN n ELSE l.grain - (pos % l.grain))
    IN  IF l.cells[pos].kind = "end" THEN {0}
        ELSE {k \in 1..m : \A i \in 0..(k - 1) : l.cells[pos + i].kind \notin {"end", "err"}}

Read(len) ==
    /\ st = "open"
    /\ LET own  == Owner(pos \div SECTOR_SIZE)
           zeros == ToRead(len) IN
       \/ /\ len = 0 \/ pos >= virtual_disk_size
          /\ out' = Answer("read", TRUE, pos, len, << >>)
          /\ UNCHANGED pos
       \/ /\ len > 0 /\ pos < virtual_disk_size /\ own = 0
          /\ out' = Answer("read", TRUE, pos, len, [i \in 1..zeros |-> 0])
          /\ pos' = pos + zeros
       \/ /\ len > 0 /\ pos < virtual_disk_size /\ own # 0
          /\ \E k \in LayerRuns(layers[own], ToRead(len)) :
                 /\ out' = Answer("read", TRUE, pos, len,
                                  [i \in 1..k |-> layers[own].cells[pos + i - 1].val])
                 /\ pos' = pos + k
       \/ /\ len > 0 /\ pos < virtual_disk_size
          /\ MayFail \/ (own # 0 /\ layers[own].cells[pos].kind = "err")
          /\ out' = Answer("read", FALSE, pos, len, << >>)
          /\ UNCHANGED pos
    /\ UNCHANGED <<sc, st, current_path, layers, virtual_disk_size, clamp_bytes>>

SeekTo(new_pos) ==
    /\ st = "open"
    /\ pos' = IF new_pos < 0 THEN pos ELSE new_pos
    /\ out' = Answer("seek", new_pos >= 0, pos, 0, << >>)
    /\ UNCHANGED <<sc, st, current_path, layers, virtual_disk_size, clamp_bytes>>

Seek ==
    \/ \E n \in SeekStarts : SeekTo(AsI64(n))
    \/ \E d \in SeekDeltas : SeekTo(AsI64(pos + d))
    \/ \E d \in SeekDeltas : SeekTo(AsI64(virtual_disk_size + d))

Next == OpenFails \/ OpenLayer \/ (\E len \in Lengths : Read(len)) \/ Seek

\* open is a loop that runs in its caller.
Spec == Init /\ [][Next]_vars /\ WF_vars(OpenFails \/ OpenLayer)

----------------------------------------------------------------------------
(* Properties                                                              *)

\* Types; an open chain has at least one layer and at most one per depth.
TypeOK ==
    /\ st \in {"opening", "open", "refused"}
    /\ Len(layers) <= MAX_CHAIN_DEPTH + 1
    /\ st = "open" => layers # << >>
    /\ virtual_disk_size \in Nat /\ clamp_bytes \in Nat /\ pos \in Nat

\* What the chain described by the descriptors of s holds at offset o: the newest
\* file that stores something there decides, a grain stored as zero included.
MergedOf(s, o) ==
    LET f(i) == s.files[s.chain[i]]
        has == {i \in 1..Len(s.chain) : o < f(i).size /\ f(i).cells[o].kind # "hole"}
    IN  IF has = {} THEN [kind |-> "zero", val |-> 0]
        ELSE f(CHOOSE i \in has : \A j \in has : i <= j).cells[o]

Merged(o) == MergedOf(sc, o)

\* The chains that can be read as one disk.  The code checks none of this: the
\* hints lead along the chain; grains are whole sectors and divide one another; a
\* grain is stored or not as a whole; a flat layer leaves no hole, and only the
\* base has grains stored as zero.
Layered(s) ==
    LET n    == Len(s.chain)
        r(i) == open_path(s.files[s.chain[i]])
        stored(i, o) == r(i).cells[o].kind \in {"data", "end", "err"}
    IN  /\ n > 0 /\ s.top = s.chain[1]
        /\ \A i \in 1..n :
               /\ (r(i).parent_cid = NO_PARENT \/ r(i).hint = "") <=> i = n
               /\ i < n => r(i).hint = s.chain[i + 1]
               /\ r(i).size % SECTOR_SIZE = 0 /\ r(i).grain % SECTOR_SIZE = 0
               /\ \A j \in 1..n : r(i).grain > 0 /\ r(j).grain > 0 =>
                      r(i).grain % r(j).grain = 0 \/ r(j).grain % r(i).grain = 0
               /\ \A o \in 0..(r(i).size - 1) :
                      IF r(i).flat THEN r(i).cells[o].kind # "hole"
                      ELSE /\ r(i).cells[o].kind = "zero" => i = n /\ r(i).cells[o].val = 0
                           /\ \A p \in 0..(r(i).size - 1) :
                                  p \div r(i).grain = o \div r(i).grain =>
                                      (stored(i, p) <=> stored(i, o))

\* A chain read returns, cell by cell, what the newest layer that stores the
\* cell holds, and zero only where none does: no older data over newer data,
\* no zeros over data, no data over zeros.
ReadsMerged ==
    (out.op = "read" /\ out.ok) =>
        \A i \in 1..Len(out.data) : out.data[i] = Merged(out.at + i - 1).val

\* The chain as one virtual disk.
Disk == INSTANCE VirtualDisk WITH
    size <- virtual_disk_size,
    disk <- [o \in 0..(virtual_disk_size - 1) |-> Merged(o)]

\* A chain of layers implements the one disk they stand for: reads in full
\* view of every layer, errors that move nothing, an end only at the end.
ImplementsDisk == Disk!Spec

\* open ends, on circular references too.
OpenEnds == <>(st # "opening")
=============================================================================
