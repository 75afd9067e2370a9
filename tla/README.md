# Verification of vmdk-forensic

TLA+ specifications of the VMDK reader (`src/core`, crate `vmdk`), of the
integrity analysis (`src/forensic`) and of the commands of `src/cli`. They say what each operation does to its
state and which properties make it correct. TLC checks them on small instances;
TLAPS proves the most important ones for every instance.

## 1. The system

| Component | State | Operations | Interacts with | Module |
|---|---|---|---|---|
| Sparse lookup (`read.rs`, `recovery.rs`) | none: a function of the file, `grain_dir` and the mode | `grain_location_sparse`, `resilient_gt_sector`, `rgd_gte`, `read_redundant_gt`, the scan of `iter_allocated_grains` | called by every read and scan | `SparseImage` |
| Extent headers (`header.rs`, `cowd.rs`) | none | `SparseExtentHeader::parse`, `CowdHeader::parse`, directory geometry, `VmdkReader::open` of a sparse file | `open`, `MultiSparseReader::open` | `ExtentHeader`, `SparseOpen` |
| `VmdkReader` (`lib.rs`, `read.rs`) | `pos`, `gt_cache`, `rgd_fallback`, `rgd_recovery_count`, geometry | `open`, `read`, `seek`, `hash`, `enable_rgd_fallback`, `is_allocated`, `iter_allocated_grains` | any `Read + Seek` medium | `VmdkReader` |
| `open_path` and text descriptors (`lib.rs`, `descriptor.rs`) | the extents opened so far | one arm per `createType`, `extent_dependencies` | directory of extent files | `ExtentReader` |
| Multi-extent readers (`flat.rs`, `sparse_multi.rs`) | extents, `pos`, `total_bytes` | `open`, `read`, `seek` | under a `Flat` `VmdkReader`, which has a cursor of its own | `ExtentReader` |
| Snapshot chain (`chain.rs`) | `layers`, `clamp_bytes`, `pos` | `open` (a loop over files), `read`, `seek` | one reader per layer, newest first | `ChainReader` |
| forensic-vfs adapter (`vfs.rs`) | `Mutex<VmdkReader>`, `len` | `read_at` from many threads | one shared cursor; the trait `ImageSource` | `VmdkSource` |
| `vmdk diff` (`cli/src/main.rs`) | two readers, `offset`, `diff_count` | the comparison loop | two opened images | `CmdDiff` |
| `vmdk dump` (`cli/src/main.rs`) | reader, output file, `BufWriter`, `remaining` | range, hex, allocated grains | one image, an output that may be full | `CmdDump` |
| seSparse (`sesparse.rs`, `read.rs`, `lib.rs`) | `pos`, geometry; no cache, no recovery | `open`, `read`, `seek`, `is_allocated`, `iter_allocated_grains` by a third lookup with an entry encoding of its own | `open` by magic | `SeSparse`, `SeSparseReader` |
| Integrity analysis (`forensic/src/lib.rs`) | none: an analysis is a function of the file | `validate_rgd`, `grain_directory_recovery`, `check_integrity`, `analyse` | parses the raw file again, never asks the reader | `Integrity` |
| `vmdk FILE` (examine), `verify`, `hash`, `map`, `info` (`cli/src/main.rs`) | what has been found so far, the loop of `hash` | open, analyse, scan, fingerprint, verdict and exit | the reader and the analysis, side by side | `CmdExamine` |
| `ddb.rs`, `diag.rs`, `error.rs`, `testutil.rs`, argument parsing | none, or text only | | | not modelled |

Hard to get right, and hard to test:

* three copies of the grain lookup (read, `is_allocated`, scan) and a fourth in
  `sparse_multi.rs` must agree, with two recovery paths in the first three; three
  more exist for seSparse;
* the verdict on an image comes from a second parser, with other arithmetic and
  other limits than the reader it speaks for;
* a cache keyed by sector survives failed reads and the switch to recovery;
* a reader under a lock has one cursor for all threads, and a thread may panic;
* chain reads decide for a run of cells by the first one's allocation;
* sizes and offsets come from files and are multiplied and added in `u64`, some
  of them unchecked;
* loops (`hash`, `copy_n`, `diff`, opening a chain) run until a read returns 0,
  so a short read, an error or a cycle decides whether and how they end.

`PROJECT.json` lists these under `hazards`, each at its line with the properties
that would notice it going wrong.

## 2. Modules

```
Words ── SparseImage ─┬─ ExtentHeader ─┬─ SparseOpen ─┬─ VmdkReader ── MCVmdkReader
                      │                │              └─ Integrity ── CmdExamine ── MCCmdExamine
                      │                └─ ExtentReader ── MCExtentReader
                      └─ SeSparse ─┬─ SeSparseReader ── MCSeSparseReader
                                   └─ Integrity
VirtualDisk         implemented by VmdkReader, SeSparseReader, ExtentReader, ChainReader;
                    used by VmdkSource
ImageSource         implemented by VmdkSource
DiskView            used by CmdDiff, CmdDump and CmdExamine
Images, SeImages    builders of small files, for the MC modules

Image_proofs ─┬─ VmdkReader_proofs       lookups, tables and views, without state
              ├─ SeSparseReader_proofs
              ├─ CmdExamine_proofs
              ├─ CmdDiff_proofs
              └─ CmdDump_proofs
VmdkSource_proofs, ChainReader_proofs
```

* **Words**: width of a `u64`, its reading as `i64`, rounding up.
* **SparseImage**: pure operators over a *file of cells*. A cell stands for one
  4-byte entry of a table, for one unit of data, or for the marker or a unit of
  payload of a compressed grain; a sector has `SECTOR_SIZE` cells. The lookup,
  both recovery paths, the bounds of a compressed grain and the scan are
  translated; zlib is the function `Zlib` from payloads to what they inflate to.
* **VmdkReader**: `src` is the file with its header and what its producer meant
  to store; `img` the geometry `open` keeps; `job` a `hash` in progress (one step
  per read of its loop); `out` the answer to the last call; `view`, a history
  variable, the disk as this mode reads it. A data read may return any shorter
  positive amount, as `Read` allows. `src.fails` names the I/O steps that may
  fail on the medium the file lies on.
* **SparseOpen**: whether `open` succeeds on a VMDK4 or COWD file, and the image
  it keeps: shared by the reader, the analysis and the commands.
* **SeSparse**: the seSparse lookup as pure operators. A cell is a 64-bit entry
  here. An entry is a type, the high part and the low part of an index, with the
  spans `SE_HI_SPAN` and `SE_LO_SPAN` in place of the 12 and 48 bits, so that
  `se_gte_grain_index` is the rotation of the code; a directory slot is a marker
  and an index below `SE_GD_SPAN`. Address sums wrap (`Wrap`). **SeSparseReader**
  has the reader's state over it.
* **Integrity**: vmdk-forensic as pure operators over the same files. The loops
  that count are the cardinality of the set that is counted; saturating sums
  are sums of naturals, which lie past every file all the same.
* **CmdExamine**: a state per stage of a command. `view` is the opened image as
  `DiskView` has it, computed by the operators of the readers in the mode the
  command asked for; the verdict is computed by `Integrity` from the file alone.
  `src.fails` lets any I/O of the command fail, and each command goes on as the
  code does (an error line, a default report, a failed exit).
* **VirtualDisk**: what a reader promises, a cursor over cells that hold a value
  or a gap. `ImplementsDisk` in four modules is the refinement.
* **ExtentReader**: one step for the descriptor, one per extent, one for the
  disk size, then `Read` and `Seek` through both cursors. A line of the
  descriptor is a record; tokenising it is not modelled. `want` is the disk the
  author of the directory meant. `extent_dependencies` is the list of companion
  files, computed from the same lines by other conditions.
* **ChainReader**: a layer is a reader seen through the cells it returns and the
  sectors it calls allocated; `open_path` gives a layer the fields that survive
  opening it by name.
* **VmdkSource**: one step per lock, seek and iteration of the read loop.
  Threads, disks and requests are constants. The reader under the lock is
  `VirtualDisk`, so the two models compose through that specification.
* **CmdDiff**, **CmdDump**: the commands over `DiskView`, an opened image with
  the offsets one read never crosses. They open regular files, so a read is
  short only at such an offset or where nothing is stored. `CmdDump` has the
  standard library's `BufWriter` (external) because `flush().ok()` matters.

Integers wrap as in a release build (`% (U64_MAX + 1)`), where overflow checks
are off. Each operator whose name has a suffix, under a comment "Mutated form",
is a plausible mistake in the operator after it; with it in place, TLC finds the
property violated that `PROJECT.json` names.

## 3. What the runs show

Passing runs:

| Run | Shows |
|---|---|
| `reader` | On sound, damaged, cut and refused files, on sound and failing media, in every order of calls: what is read is what was stored (`ReadsAreStored`), one surviving copy of the pointers is enough (`SurvivorsAreRead`), recovery changes no readable data (`RecoveryKeepsData`), the directory covers the disk, cache and file agree after failed table reads too, scan and `is_allocated` agree with read, a hash returns, and the reader implements `VirtualDisk`: a failed call leaves the cursor where it was, a hash digests everything up to where the disk stops. |
| `sesparse` | The same for seSparse files with damaged and unmarked slots, unknown entry types, cut files and addresses that wrap: `SurvivorsAreRead`, `LookupsAgree` (read, `is_allocated` and scan) and the refinement. |
| `shared` | Two threads, short reads, failures and panics: each `read_at` is one positioned read (`ImplementsImageSource`), the cursor is the caller's between seek and read, and every call returns. |
| `chain` | Chains of sparse and flat layers with nested grain sizes implement the merged disk; circular, broken and too deep ones are refused, after finitely many files. |
| `extents` | Flat, zero, VMDK4 and COWD extents behind descriptors of every `createType`: the extents tile the disk (`ExtentsTile`) although only the total is checked for overflow, an offset that is stored is read, both cursors together implement `VirtualDisk`, and a disk that opens needs no file that `extent_dependencies` does not list (`DependenciesSuffice`). |
| `examine` | examine, verify, hash, map and info over 94 images and every flag. An image that passes can be read from end to end (`PassIsReadable`) and its fingerprint is that of the whole disk, the same with and without recovery (`FingerprintIsWhole`); what verify says of the redundant directory and counts as recoverable is true of the reader (`RgdLineRight`, `RecoveryReportRight`, `RecoveredIsReachable`); text and exit agree; every command ends. |
| `diff` | For images whose reads are cut alike, verdict, count and printed offsets are right; the command ends whatever cannot be read. |
| `dump` | No output has a wrong cell, finished or not, and a successful dump of the allocated grains has a hole only where the disk has one or a grain could not be read on (`NoWrongCell`); a readable range is complete; the command ends. |

Runs that end in a violation, each the code against its own documentation
(quoted under `findings`):

| Run | Shows |
|---|---|
| `verify_recover` | `verify --recover` says "OK after recovery" of an image with no redundant directory whose grain table lies outside the file: the guard of that arm also holds for the default report. |
| `chain_split` | A delta opened through a text descriptor masks its parent: its holes read as zeros. |
| `extents_hole` | A `ZERO` or `NOACCESS` line among sparse extents vanishes and the rest of the disk moves. |
| `diff_grains` | With different grain sizes below 64 KiB, different disks are called identical. |

### Bounds

* Sectors of 2 cells, grains of 1 to 3 sectors, tables of 2 entries, disks of up
  to 3 grains (two tables): enough for a grain boundary inside a table, one
  between tables, a partial last grain and a directory that is rounded up twice.
* `U64_MAX` = 127 (255 with seSparse files, 31 for `CmdDump`): the files lie far
  below it, the seeks, sizes and wild indices near it, so that sums wrap.
* seSparse: grains of 2 sectors, tables of one sector, indices of 2 x 8 values
  (high and low part both used), tables numbered below 8.
* `examine` has the files of both readers' runs, and besides them images whose two
  directories disagree in every way of two slots: equal, empty on one side, out of
  the file, ending past its end, entries lost in one table only.
* `Lengths` and `HASH_BUF` go below, to and beyond a grain. `SeekStarts` and
  `SeekDeltas` hit the start, the inside, the end, beyond it, and both signs.
* `MaxRecoveries` bounds the counter, which nothing else reads; `MaxCalls` the
  calls of one thread (two: one may interrupt another and be interrupted).
* `MAX_CHAIN_DEPTH` = 3 instead of 64; the scenarios have chains of 1, 2, 3 and
  more files and a cycle.
* `BUF`, `LINE`, `WBUF` and `REPORTS` are small but keep their order, and disks
  have several buffers.

Deadlock is not checked where the system really stops: after a refused open,
after the last call of a bounded number, or when a command has ended.

### Fairness

`hash`, the loop that opens a chain and the commands run in their caller's thread
without waiting for anyone, so weak fairness of their own steps is what the
code gives. In `VmdkSource` each thread is scheduled (weak fairness of its
steps inside a call); no fairness is assumed of which thread gets the lock, and
none is needed for the bounded calls of the run. Nothing obliges a caller to make
a call, a medium to fail or a thread to panic.

## 4. What is proved

For every set of files, lengths, seeks and faults, and every geometry
(assumptions: `WordAssumption`, `ImageAssumption`, `HeaderAssumption`,
`ReaderAssumption`, which say that constants are numbers of the right sort and
sources well-formed records):

* `TypeCorrect`, `CacheIsCoherent`, `DirectoryCovers` and
  `RecoveryIsConservative` of `VmdkReader`. The inductive invariant is
  `IInv == TypeOK /\ CacheCoherent /\ ViewCurrent /\ DirectoryCoversDisk`.
  Types alone are not inductive: that a read returns numbers needs the cached
  table to be the file's (`CacheCoherent`), and that recovery keeps data needs the
  history variable to be the disk of the current mode (`ViewCurrent`). The core is
  in `Image_proofs`: a coherent cache changes no lookup (`CacheTransparent`),
  and where the primary pointers lead to data the redundant ones are not
  consulted (`RecoveryKeepsLocation`). `GeometryCovers` is the arithmetic of the
  two roundings.
* `ReaderIsDisk`: `VmdkReader` implements `VirtualDisk`. Each action maps to a step
  of the abstract disk or to a stutter. A read maps to `ReadOk` because one lookup
  stands for all the cells it returns: inside a grain the location moves with the
  offset (`SameGrainLocation`), so a run of the file is a run of the disk
  (`ReadIsRun`). A hash in progress stutters, and carries in the invariant that
  what it has digested is the disk from where it began.
* `ListingIsRight` and `AllocationIsRight`: the scan and `is_allocated` agree with
  read. The scan enumerates slots and entries, read divides an offset; `GrainStart`
  shows that the two walks meet, and `ScanGteIsGte` that the scan's own recovery
  finds the entry read finds.
* `StoredIsRead` and `SurvivorsRead`: what a read returns is what the producer
  stored, and where one copy of the pointers survives, a read without recovery
  (the primary copy) or with it (either copy) succeeds. They speak of files that
  were written, so their hypothesis is
  `Opens(src) => Written(src)`: every grain has one pointer; each table that can
  be read holds it or was wiped to 0 or 1; the primary table has it unless the
  grain is `lost`, the redundant one where it is `lost` and not `gone`; and the
  pointer leads to the stored cells (`WrittenAs`). The code checks none of this. The module
  of the run asserts it of all its sources, the damaged and cut ones too, so the
  hypothesis describes the files that are checked. `PointerIsFollowed` shows that
  both lookups end at the pointer, or at the failure its damage allows;
  `WrittenCell` and `ViewIsStored` carry this to a cell and to the whole view; the
  invariant `Faithful` adds that `img` is the image the file opens as, and the run
  of cells that `FedIsRun` has of a hash in progress does the rest (`HashIsFaithful`).

For every seSparse file whatever its header and entries say (besides these,
`SeAssumption` on the spans of an entry and `SeReaderAssumption`, by which a file is
no longer than an `i64` can say):

* `SeLookupsAgree` and `SeReaderIsDisk` of `SeSparseReader`: an address that wraps
  leads every copy of the lookup to the same answer, and the reader implements
  `VirtualDisk`. The argument is that of the sparse reader; what is new is that a
  place computed with wrapping sums moves with the offset as long as it stays in
  the file (`SePlaceMoves`).
* `SeSurvivorsRead`: what the producer stored is what a read returns, for files with
  `SeOpens(src) => SeWritten(src)`: outside the `lost` grains, entry and index are as
  the format writes them, with no address taken modulo anything (the module of the
  run asserts it of all its sources). `SeDecode` shows that the rotation of
  `se_gte_grain_index` undoes the split of the index into its two parts, and
  `NoStepWraps` that a place inside the file is reached without wrapping.

For every number of threads, disk and request (assumption: `SourceAssumption`):

* `TypeCorrect` and `CursorExclusive` of `VmdkSource`, from
  `IInv == TypeOK /\ CursorIsMine`: no thread overruns its buffer, and between
  seek and the last read the cursor belongs to the holder of the guard.
* `SourceIsPositioned`: `VmdkSource` implements `ImageSource`. Every `read_at` is one
  positioned read however the threads interleave; the invariant adds that what a
  thread has collected is the disk from its offset on, a gap ends it, and a
  poisoned lock answers nobody with cells.

For every chain of files (assumption: `ChainAssumption`):

* `TypeCorrect` of `ChainReader`, from an `IInv` that adds to the types what `open`
  keeps: every layer is the reader of some file of the directory, and while the chain
  is being opened there is room for one more layer and nothing has been read.
* `ChainIsDisk`: `ChainReader` implements `VirtualDisk`, with the disk that has each
  cell from the newest file that stores it, for chains of any length that fit
  together (`Layered(sc)`): the hints lead from file to file up to a base, grain
  sizes divide one another, a grain is stored or not as a whole, and no layer has
  explicit zeros over data. The code checks none of this and section 5 says what it
  does otherwise; the module of the run asserts it of the chains it reads. The
  invariant `Followed` says that the layers opened are the first files of the chain,
  in order, and once it is open all of them, with the smallest grain as the clamp
  (`MinGrainIs`). A read asks for the layer of its first cell only; that this layer
  stores every cell the clamp lets it answer is `LayerHolds`, from
  `ClampDivides` and `SameGrain`, and `LayerIsRead` and `ZerosAreRead` make the
  cells a run of the merged disk.

For every set of images and command lines (assumptions: `ExamineAssumption`, which
says that sources are well-formed, that a file has one magic and is no longer than
an `i64` can say, and `SeAssumption`):

* the seven safety properties of `CmdExamine`, among them that an image that
  passes can be read (`PassedIsReadable`) and that its fingerprint covers the disk
  (`FingerprintOfWholeDisk`). The inductive invariant is
  `IInv == TypeOK /\ Routed /\ Viewed /\ Reported /\ Passed /\ Fed`: the properties
  speak of the end of a command, so it carries what each stage has found up to
  there (which command a stage belongs to, which mode the view is in, which report
  a line was printed from, what has been digested).
  What the reports mean is in `Image_proofs`, with no state at all. Tables that
  compare equal give equal lookups in both modes (`MatchMeansSameDisk`). The
  slots counted as recoverable are those where the reader swaps its pointer
  (`RecoverableAreSwapped`). A clean report means every cell of the disk can be
  read and the scan completes, for VMDK4 (`CleanVmdk4IsWhole`) and for seSparse
  (`CleanSeIsWhole`), where the wrapping sums of the reader have to be shown equal
  to the saturating ones of the analysis: a sum that stays in a file of at most
  2^63 bytes has not wrapped (`NoWrap`).

For every pair of views (assumption: `DiffAssumption`):

* `DiffVerdictIsRight` and `DiffReportsAreReal` of `CmdDiff`, for images whose reads
  are cut alike (`CutAlike`: the same ends of grains or extents, or ends at multiples
  of the buffer alone). The hypothesis is needed: `diff_grains` is a pair without
  it. The invariant says that both cursors and `offset` are one number until a
  reader is stuck at a cell it cannot read, and that nothing is compared from then
  on (`InTurn`, from `TurnInStep`); that the count is that of the differing cells
  so far; and that of these at most `REPORTS` have been printed (`TurnCounts`, from
  `FirstMembers`: at most m members of a set have fewer than m smaller ones).

For every view, range, buffer and amount of room (assumption: `DumpAssumption`, which
says besides types that the listed grains begin on the disk and hold every cell
that is not zero, as `ListingIsRight` has it of the reader):

* `TypeCorrect`, `NoWrongCells` and `DumpIsComplete` of `CmdDump`. For a range the
  invariant (`RangeInv`) is that output, `BufWriter` and what remains are one
  range cut in three, the output cut where the room ends; `SpillKeep` says that the
  `BufWriter` passes cells on in order and loses none. For the allocated grains
  (`GrainInv`) both cursors are one, and every cell of the disk is in the file, or
  still to come, or skipped because of one before it in its grain.

What the commands need of a read is in `Image_proofs` too: it returns the longest run
that fits (`ReadLenIsLongest`), and what stops it is known (`ReadStops`). It rests on
the least element of a set of naturals (`LeastNatural`, from the library's `WFMin`).

Only model-checked:

* every liveness property: the provers have no fairness;
* `ExtentReader` (`TypeOK`, `ExtentsTile`, `ReadableIsRead`, `DependenciesSuffice`,
  `ImplementsDisk`). A disk of extents is the list that filtering leaves of the
  descriptor's lines (`SelectSeq`) and the sum of their sizes, both recursive over a
  list of any length: even that the sum is a number is an induction over data, and
  the provers have none.

## 5. Other differences between code and documentation

Met while modelling; the models behave as the code does, and no run is kept
for them.

* `rgd_recovery_count` goes up once per lookup (`core/src/read.rs:182`), so a
  grain read in two pieces counts twice; `recovery.rs:19` calls it the number of
  grains.
* `is_allocated` consults the primary directory alone, also with recovery on,
  so `AllocationAgrees` is stated for the mode without recovery.
* In a chain, an explicitly zero grain counts as not allocated and shows the
  parent's data; the chains of the passing run have no zero grains over data.
* A seSparse layer opened by name loses its descriptor (`core/src/lib.rs:453`)
  and ends the chain; the passing run has it as a base only.
* The CID of a parent is not compared with its child's `parentCID`
  (`core/src/chain.rs:51`), although `chain.rs:4` says it is.
* In `diff`, `unwrap_or(0)` makes a failed read the end of a disk, so images that
  cannot be read are called identical with the whole size as compared; hence
  `VerdictRight` is stated of readable disks.
* `copy_n` returns `Ok` when the image ends early (its comment says "Copy exactly `n`
  bytes"). A flat disk of several extents is listed as one grain
  (`core/src/lib.rs:598`), so `dump --allocated-only` of one whose first extent is cut
  leaves out the others and succeeds; `NoWrongCell` allows a hole there (`Skipped`).
  And `w.flush().ok()` drops the error of a full output, so a dump may report bytes
  it has not written; hence `DumpComplete` asks for a readable disk and room.
* `hash` stops at the first read that returns 0, and a read of an uncompressed
  grain past the end of the file returns 0 (`core/src/read.rs:282`), so a truncated
  file hashes to `Ok` with the digest of a prefix; `core/src/lib.rs:726` says
  "digests of the full virtual disk". `FingerprintIsWhole` therefore asks for a
  passing verdict, which such a file does not get.
* The chain's clamp is to the smallest grain size (`core/src/chain.rs:123`), which
  need not divide the others; a read can then run over a grain boundary of another
  layer and zero its data. The chains of the passing run have nested grain sizes.
* `check_integrity` counts a grain as dangling when a raw one of its size would
  end past the file (`forensic/src/lib.rs:506`), also in a compressed image, where
  the last grain is shorter; a sound streamOptimized image can get a High finding.
* `read_rgd` wants the whole redundant directory in the file, the reader one entry:
  a report may call unrecoverable what the reader recovers, never the other way
  round (`RecoveryReportRight`).
* In an image with unmarked seSparse slots the scan skips the slot, a read fails
  and the analysis counts a dangling table; an entry of an unknown type fails a
  read and is passed over by the other two. `LookupsAgree` and `Judged` leave out
  what a read cannot tell.
* COWD, flat and text-descriptor images always report clean: the analysis does not
  look at them.
* `PrimaryGdRecoverableViaRgd` is Medium, but a recoverable directory always comes
  with a mismatch or a dangling table, which are High: `examine --recover` of a
  recoverable image never passes.
* `verify` prints a failed allocation scan and does not count it for the verdict.
* The scan counts recovered grains past the end of the disk, which it does not list.
* `extent_dependencies` reads the descriptor as UTF-8 while `open_path` decodes it,
  so a descriptor in another encoding opens and has no list (its callers drop the
  error); and it lists flat before sparse extents although its comment says
  "in descriptor order".
* In the disk database, typed fields keep the last of two equal keys and `get`
  returns the first.

## 6. What is left, in order

Proofs: `ExtentReader`, once a prover can do induction over the lines of a
descriptor; `ImplementsDisk` there also needs extents that agree with their lines as
a hypothesis (a COWD extent has the size of its own header).

Not modelled, and not planned: tokenising of descriptor text, encodings and
disk-database keys (rules about strings, without state), formatting of reports,
argument parsing, log output and error text, and the fixture builders of
`testutil.rs` (the modules `Images` and `SeImages` build their own).
