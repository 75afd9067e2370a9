------------------------- MODULE VmdkReader_proofs --------------------------
(***************************************************************************)
(* Safety of VmdkReader for every set of files, every buffer length, every *)
(* seek argument and every choice of failing I/O steps.                    *)
(***************************************************************************)
EXTENDS VmdkReader, Image_proofs

\* The view is what the image reads as in the reader's current mode; before
\* open there is none, and recovery is off.
ViewCurrent ==
    /\ st = "open" => view = DiskOf(img, rgd_fallback)
    /\ st # "open" => view = << >> /\ rgd_fallback = FALSE

\* The inductive invariant.
IInv == TypeOK /\ CacheCoherent /\ ViewCurrent /\ DirectoryCoversDisk

----------------------------------------------------------------------------
(* One read                                                                *)

\* The lookup under the cursor is the one a reader without a cache would make.
LEMMA HereUncached ==
    ASSUME TypeOK, CacheCoherent
    PROVE  Here = grain_location(img, rgd_fallback, << >>, pos)
<1>1. Coherent(img, gt_cache)
  BY DEF CacheCoherent, Coherent
<1> QED
  BY <1>1, CacheTransparent DEF TypeOK, Here

\* A read returns cells, and none where it asks for none.
LEMMA OutcomeType ==
    ASSUME TypeOK, CacheCoherent, NEW len \in Nat, NEW o \in ReadOutcomes(len)
    PROVE  o.data \in Seq(Nat)
<1>1. << >> \in Seq(Nat)
  OBVIOUS
<1>2. CASE o \in FaultOutcomes
  <2>1. o.data = << >>
    BY <1>2 DEF FaultOutcomes, Outcome
  <2> QED
    BY <1>1, <2>1
<1>3. CASE o = Outcome(TRUE, << >>, FALSE, FALSE) \/ o = Outcome(FALSE, << >>, TRUE, TRUE)
  <2>1. o.data = << >>
    BY <1>3 DEF Outcome
  <2> QED
    BY <1>1, <2>1
<1>4. CASE /\ pos < img.virtual_disk_size
           /\ Readable(img, Here)
           /\ \E n \in Returned(ToRead(len)) : o = Outcome(TRUE, Contents(img, Here, n), TRUE, TRUE)
  <2>1. PICK n \in Returned(ToRead(len)) : o = Outcome(TRUE, Contents(img, Here, n), TRUE, TRUE)
    BY <1>4
  <2>2. ToRead(len) \in Nat
    <3>1. /\ img.grain_size \in Nat \ {0} /\ img.virtual_disk_size \in Nat /\ pos \in Nat
      BY DEF TypeOK, Image
    <3>2. pos % img.grain_size \in 0..(img.grain_size - 1)
      BY <3>1
    <3> QED
      BY <1>4, <3>1, <3>2 DEF ToRead, Min2
  <2> DEFINE a == Available(img, Here, ToRead(len))
  <2>3. /\ a \in 0..ToRead(len)
        /\ \A k \in 0..a : Contents(img, Here, k) \in Seq(Nat)
    BY <1>4, <2>2, HereUncached, ContentsType DEF TypeOK
  <2>4. n \in 0..a
    <3>1. Returned(ToRead(len)) \in {1..a, {a}}
      BY DEF Returned
    <3> HIDE DEF a
    <3> QED
      BY <2>2, <2>3, <3>1
  <2> QED
    BY <2>1, <2>3, <2>4 DEF Outcome
<1>5. pos \in Nat /\ img.virtual_disk_size \in Nat
  BY DEF TypeOK, Image
<1>6. CASE pos >= img.virtual_disk_size \/ len = 0
  <2>1. ReadOutcomes(len) = {Outcome(TRUE, << >>, FALSE, FALSE)}
    BY <1>6 DEF ReadOutcomes
  <2> QED
    BY <1>3, <2>1
<1>7. CASE ~(pos >= img.virtual_disk_size \/ len = 0)
  <2>1. CASE Readable(img, Here)
    <3>1. ReadOutcomes(len) = FaultOutcomes \cup
              {Outcome(TRUE, Contents(img, Here, n), TRUE, TRUE) : n \in Returned(ToRead(len))}
      BY <1>7, <2>1 DEF ReadOutcomes
    <3>2. pos < img.virtual_disk_size
      BY <1>5, <1>7
    <3> QED
      BY <1>2, <1>4, <2>1, <3>1, <3>2
  <2>2. CASE ~Readable(img, Here)
    <3>1. ReadOutcomes(len) = FaultOutcomes \cup {Outcome(FALSE, << >>, TRUE, TRUE)}
      BY <1>7, <2>2 DEF ReadOutcomes
    <3> QED
      BY <1>2, <1>3, <3>1
  <2> QED
    BY <2>1, <2>2
<1> QED
  BY <1>6, <1>7

\* A read that caches a table caches the one the file holds.
LEMMA CacheStep ==
    ASSUME TypeOK, CacheCoherent, NEW o, Advance(o), UNCHANGED img
    PROVE  CacheCoherent' /\ DOMAIN gt_cache' \subseteq Nat
<1>1. CASE ~(o.cached /\ Fetches(img, rgd_fallback, gt_cache, pos))
  <2>1. gt_cache' = gt_cache
    BY <1>1 DEF Advance, CacheAfter
  <2> QED
    BY <2>1 DEF CacheCoherent, TypeOK
<1>2. CASE o.cached /\ Fetches(img, rgd_fallback, gt_cache, pos)
  <2>1. Sector # 0 /\ TableInFile(img, Sector)
    BY <1>2 DEF Fetches, Sector
  <2>2. Sector \in Nat
    BY IndexType, SectorType DEF TypeOK, Sector
  <2>3. gt_cache' = [s \in DOMAIN gt_cache \cup {Sector} |->
                        IF s \in DOMAIN gt_cache THEN gt_cache[s] ELSE GrainTable(img, Sector)]
    BY <1>2 DEF Advance, CacheAfter
  <2>4. DOMAIN gt_cache' = DOMAIN gt_cache \cup {Sector}
    BY <2>3
  <2>5. ASSUME NEW s \in DOMAIN gt_cache'
        PROVE  s # 0 /\ TableInFile(img, s) /\ gt_cache'[s] = GrainTable(img, s)
    <3>1. CASE s \in DOMAIN gt_cache
      BY <2>3, <3>1 DEF CacheCoherent
    <3>2. CASE s \notin DOMAIN gt_cache
      BY <2>1, <2>3, <2>4, <3>2
    <3> QED
      BY <3>1, <3>2
  <2>6. \A s : TableInFile(img', s) = TableInFile(img, s)
                /\ GrainTable(img', s) = GrainTable(img, s)
    OBVIOUS
  <2>7. CacheCoherent'
    BY <2>5, <2>6 DEF CacheCoherent
  <2> QED
    BY <2>2, <2>4, <2>7 DEF TypeOK
<1> QED
  BY <1>1, <1>2

\* Cursor and counter stay natural numbers.
LEMMA AdvanceType ==
    ASSUME TypeOK, CacheCoherent, NEW len \in Nat, NEW o \in ReadOutcomes(len), Advance(o)
    PROVE  pos' \in Nat /\ rgd_recovery_count' \in Nat
<1>1. Len(o.data) \in Nat
  BY OutcomeType
<1>2. CountOf(o) \in {0, 1}
  BY DEF CountOf
<1> QED
  BY <1>1, <1>2 DEF Advance, TypeOK

\* A scan counts finitely many recoveries.
LEMMA ScanCountType ==
    ASSUME TypeOK, NEW gd \in Nat
    PROVE  ScanCount(gd) \in Nat
<1> DEFINE slots == 0..(gd - 1)
           entries == 0..(img.num_gtes_per_gt - 1)
           found == UNION {{k} \X ScanRecovered(img, rgd_fallback, k) : k \in slots}
<1>1. IsFiniteSet(slots) /\ IsFiniteSet(entries)
  <2>1. img.num_gtes_per_gt - 1 \in Int /\ gd - 1 \in Int /\ 0 \in Int
    BY DEF TypeOK, Image
  <2> QED
    BY <2>1, FS_Interval
<1>2. IsFiniteSet(slots \X entries)
  BY <1>1, FS_Product
<1>3. found \in SUBSET (slots \X entries)
  <2>1. \A k : ScanRecovered(img, rgd_fallback, k) \subseteq entries
    BY DEF ScanRecovered, ScanStored
  <2> HIDE DEF slots, entries
  <2> QED
    BY <2>1
<1> HIDE DEF found, slots, entries
<1>4. IsFiniteSet(found)
  BY <1>2, <1>3, FS_Subset
<1>5. Cardinality(found) \in Nat
  BY <1>4, FS_CardinalityType
<1> QED
  BY <1>5 DEF ScanCount, found, slots

----------------------------------------------------------------------------
(* The induction                                                           *)

Jobs == [on : BOOLEAN, from : Nat, fed : Seq(Nat)]

\* The initial state satisfies the invariant.
LEMMA InitIInv == Init => IInv
<1> SUFFICES ASSUME Init PROVE IInv
  OBVIOUS
<1> USE DEF Init
<1>1. img \in Image
  <2> DEFINE e == << >>
             none == 0
             one == 1
             c == FALSE
  <2>1. img = [file |-> e, grain_dir |-> e, grain_size |-> one, num_gtes_per_gt |-> one,
               virtual_disk_size |-> none, compressed |-> c, rgd_offset |-> none,
               gd_entry_count |-> none]
    BY DEF NoImage
  <2>2. e \in Seq(Nat) /\ none \in Nat /\ one \in Nat \ {0} /\ c \in BOOLEAN
    OBVIOUS
  <2> HIDE DEF e, none, one, c
  <2> QED
    BY <2>1, <2>2 DEF Image
<1>2. job \in Jobs /\ ~job.on
  BY DEF NoJob, Jobs
<1>3. DOMAIN gt_cache = {}
  OBVIOUS
<1>4. TypeOK
  BY <1>1, <1>2, <1>3 DEF TypeOK, Jobs
<1>5. CacheCoherent
  BY <1>3 DEF CacheCoherent
<1> QED
  BY <1>4, <1>5 DEF IInv, ViewCurrent, DirectoryCoversDisk

\* A call on an open reader that leaves image, mode and view alone preserves
\* the invariant if it keeps cursor, counter, job and cache well formed.
LEMMA CallStep ==
    ASSUME IInv, st = "open", UNCHANGED <<src, st, img, rgd_fallback, view>>,
           pos' \in Nat, rgd_recovery_count' \in Nat, job' \in Jobs,
           DOMAIN gt_cache' \subseteq Nat, CacheCoherent'
    PROVE  IInv'
<1>1. TypeOK'
  BY DEF IInv, TypeOK, Jobs
<1>2. ViewCurrent'
  BY DEF IInv, ViewCurrent
<1>3. DirectoryCoversDisk'
  BY DEF IInv, DirectoryCoversDisk
<1> QED
  BY <1>1, <1>2, <1>3 DEF IInv

\* Opening builds a well-formed image, or changes nothing but the state.
LEMMA OpenStep == IInv /\ Open => IInv'
<1> SUFFICES ASSUME IInv, Open PROVE IInv'
  OBVIOUS
<1>1. /\ st = "closed" /\ gt_cache' = << >> /\ gt_cache = << >> /\ rgd_fallback = FALSE
      /\ UNCHANGED <<src, pos, gt_cache, rgd_fallback, rgd_recovery_count, job>>
      /\ ~job.on /\ src \in Source
  BY ReaderAssumption, HeaderAssumption DEF Open, IInv, TypeOK, ViewCurrent
<1>2. DOMAIN gt_cache' = {}
  BY <1>1
<1>3. CacheCoherent'
  BY <1>2 DEF CacheCoherent
<1>4. CASE Opens(src) /\ st' = "open" /\ view' = DiskOf(img', FALSE)
           /\ img' = IF src.hdr.magic = "COWD" THEN CowdImage(src) ELSE Vmdk4Image(src)
  <2>1. img' \in Image /\ img'.file = src.file /\ Covers(img')
    BY <1>1, <1>4, OpenImage DEF Source
  <2>2. TypeOK'
    BY <1>1, <1>2, <1>4, <2>1 DEF IInv, TypeOK
  <2>3. ViewCurrent'
    BY <1>1, <1>4 DEF ViewCurrent
  <2>4. DirectoryCoversDisk'
    BY <2>1 DEF Covers, DirectoryCoversDisk
  <2> QED
    BY <1>3, <2>2, <2>3, <2>4 DEF IInv
<1>5. CASE ~Opens(src) /\ st' = "refused" /\ UNCHANGED <<img, view>>
  <2>1. TypeOK'
    BY <1>1, <1>2, <1>5 DEF IInv, TypeOK
  <2>2. ViewCurrent'
    BY <1>1, <1>5 DEF IInv, ViewCurrent
  <2>3. DirectoryCoversDisk'
    BY <1>5 DEF DirectoryCoversDisk
  <2> QED
    BY <1>3, <2>1, <2>2, <2>3 DEF IInv
<1> QED
  BY <1>4, <1>5 DEF Open

\* A read advances by what it returned and caches what the file holds.
LEMMA ReadStep == ASSUME IInv, NEW len \in Lengths, Read(len) PROVE IInv'
<1>1. /\ st = "open" /\ len \in Nat /\ job \in Jobs /\ TypeOK /\ CacheCoherent
      /\ UNCHANGED <<src, st, img, rgd_fallback, job, view>>
  BY ReaderAssumption, HeaderAssumption DEF Read, Idle, IInv, TypeOK, Jobs
<1>2. PICK o \in ReadOutcomes(len) : Advance(o)
  BY DEF Read
<1>3. pos' \in Nat /\ rgd_recovery_count' \in Nat
  BY <1>1, <1>2, AdvanceType
<1>4. DOMAIN gt_cache' \subseteq Nat /\ CacheCoherent'
  BY <1>1, <1>2, CacheStep
<1> QED
  BY <1>1, <1>3, <1>4, CallStep

\* Starting a hash sets up a job at the cursor.
LEMMA HashStartStep == IInv /\ HashStart => IInv'
<1> SUFFICES ASSUME IInv, HashStart PROVE IInv'
  OBVIOUS
<1>1. /\ st = "open" /\ pos \in Nat /\ rgd_recovery_count \in Nat
      /\ DOMAIN gt_cache \subseteq Nat /\ CacheCoherent
      /\ UNCHANGED <<src, st, img, pos, gt_cache, rgd_fallback, rgd_recovery_count, view>>
      /\ job' = [on |-> TRUE, from |-> pos, fed |-> << >>]
  BY DEF HashStart, Idle, IInv, TypeOK
<1>2. job' \in Jobs
  BY <1>1 DEF Jobs
<1>3. CacheCoherent'
  BY <1>1 DEF CacheCoherent
<1> QED
  BY <1>1, <1>2, <1>3, CallStep

\* A turn of the loop of hash is a read of its own.
LEMMA HashStepStep == IInv /\ HashStep => IInv'
<1> SUFFICES ASSUME IInv, HashStep PROVE IInv'
  OBVIOUS
<1>1. /\ st = "open" /\ HASH_BUF \in Nat /\ job \in Jobs /\ TypeOK /\ CacheCoherent
      /\ UNCHANGED <<src, st, img, rgd_fallback, view>>
  BY ReaderAssumption, HeaderAssumption DEF HashStep, IInv, TypeOK, Jobs
<1>2. PICK o \in ReadOutcomes(HASH_BUF) :
         /\ Advance(o)
         /\ job' = NoJob \/ job' = [job EXCEPT !.fed = job.fed \o o.data]
  BY DEF HashStep
<1>3. pos' \in Nat /\ rgd_recovery_count' \in Nat
  BY <1>1, <1>2, AdvanceType
<1>4. DOMAIN gt_cache' \subseteq Nat /\ CacheCoherent'
  BY <1>1, <1>2, CacheStep
<1>5. job' \in Jobs
  <2>1. CASE job' = NoJob
    BY <2>1 DEF NoJob, Jobs
  <2>2. CASE job' = [job EXCEPT !.fed = job.fed \o o.data]
    <3>1. o.data \in Seq(Nat)
      BY <1>1, <1>2, OutcomeType
    <3>2. job.fed \o o.data \in Seq(Nat)
      BY <1>1, <3>1 DEF Jobs
    <3> QED
      BY <1>1, <2>2, <3>2 DEF Jobs
  <2> QED
    BY <1>2, <2>1, <2>2
<1> QED
  BY <1>1, <1>3, <1>4, <1>5, CallStep

\* The target of a seek is an integer, wrapped to 64 bits.
LEMMA SeeksToInt ==
    ASSUME IInv, Seek
    PROVE  \E x \in Int : SeekTo(x)
<1>1. \A x \in Int : AsI64(x) \in Int
  BY WordAssumption DEF AsI64
<1>2. SeekStarts \subseteq Int /\ SeekDeltas \subseteq Int
  BY ReaderAssumption, HeaderAssumption, WordAssumption
<1>3. pos \in Int /\ img.virtual_disk_size \in Int
  BY DEF IInv, TypeOK, Image
<1>4. PICK x \in Int : SeekTo(AsI64(x))
  BY <1>2, <1>3 DEF Seek
<1> QED
  BY <1>1, <1>4

\* A seek lands on a natural number or does not move.
LEMMA SeekStep == IInv /\ Seek => IInv'
<1> SUFFICES ASSUME IInv, Seek PROVE IInv'
  OBVIOUS
<1>1. PICK x \in Int : SeekTo(x)
  BY SeeksToInt
<1>2. /\ st = "open" /\ pos \in Nat /\ rgd_recovery_count \in Nat /\ job \in Jobs
      /\ DOMAIN gt_cache \subseteq Nat /\ CacheCoherent
      /\ UNCHANGED <<src, st, img, gt_cache, rgd_fallback, rgd_recovery_count, job, view>>
  BY <1>1 DEF SeekTo, Idle, IInv, TypeOK, Jobs
<1>3. pos' \in Nat
  BY <1>1, <1>2 DEF SeekTo
<1>4. CacheCoherent'
  BY <1>2 DEF CacheCoherent
<1> QED
  BY <1>2, <1>3, <1>4, CallStep

\* Turning recovery on leaves the cache coherent: it is keyed by sector, and a
\* sector means the same in both modes.
LEMMA RecoverStep == IInv /\ enable_rgd_fallback => IInv'
<1> SUFFICES ASSUME IInv, enable_rgd_fallback PROVE IInv'
  OBVIOUS
<1>1. /\ st = "open" /\ rgd_fallback' = TRUE /\ view' = DiskOf(img, TRUE)
      /\ UNCHANGED <<src, st, img, pos, gt_cache, rgd_recovery_count, job>>
  BY DEF enable_rgd_fallback, Idle
<1>2. TypeOK'
  BY <1>1 DEF IInv, TypeOK
<1>3. CacheCoherent'
  BY <1>1 DEF IInv, CacheCoherent
<1>4. ViewCurrent'
  BY <1>1 DEF ViewCurrent
<1>5. DirectoryCoversDisk'
  BY <1>1 DEF IInv, DirectoryCoversDisk
<1> QED
  BY <1>2, <1>3, <1>4, <1>5 DEF IInv

\* is_allocated changes nothing but the answer.
LEMMA IsAllocatedStep == ASSUME IInv, NEW lba, is_allocated(lba) PROVE IInv'
<1>1. /\ st = "open" /\ pos \in Nat /\ rgd_recovery_count \in Nat /\ job \in Jobs
      /\ DOMAIN gt_cache \subseteq Nat /\ CacheCoherent
      /\ UNCHANGED <<src, st, img, pos, gt_cache, rgd_fallback, rgd_recovery_count, job, view>>
  BY DEF is_allocated, Idle, IInv, TypeOK, Jobs
<1>2. CacheCoherent'
  BY <1>1 DEF CacheCoherent
<1> QED
  BY <1>1, <1>2, CallStep

\* The scan changes nothing but the counter and the answer.
LEMMA IterStep == IInv /\ iter_allocated_grains => IInv'
<1> SUFFICES ASSUME IInv, iter_allocated_grains PROVE IInv'
  OBVIOUS
<1>1. /\ st = "open" /\ pos \in Nat /\ rgd_recovery_count \in Nat /\ job \in Jobs
      /\ DOMAIN gt_cache \subseteq Nat /\ CacheCoherent /\ TypeOK
      /\ UNCHANGED <<src, st, img, pos, gt_cache, rgd_fallback, job, view>>
  BY DEF iter_allocated_grains, Idle, IInv, TypeOK, Jobs
<1>2. PICK stop \in 0..Len(img.grain_dir) :
          rgd_recovery_count' = rgd_recovery_count + ScanCount(stop)
  BY DEF iter_allocated_grains
<1>3. rgd_recovery_count' \in Nat
  <2>1. ScanCount(stop) \in Nat
    BY <1>1, ScanCountType DEF TypeOK, Image
  <2> QED
    BY <1>1, <1>2, <2>1
<1>4. CacheCoherent'
  BY <1>1 DEF CacheCoherent
<1> QED
  BY <1>1, <1>3, <1>4, CallStep

\* Every step of the reader preserves the invariant.
LEMMA NextIInv == IInv /\ [Next]_vars => IInv'
<1> SUFFICES ASSUME IInv, [Next]_vars PROVE IInv'
  OBVIOUS
<1>1. CASE Open
  BY <1>1, OpenStep
<1>2. ASSUME NEW len \in Lengths, Read(len) PROVE IInv'
  BY <1>2, ReadStep
<1>3. CASE HashStart
  BY <1>3, HashStartStep
<1>4. CASE HashStep
  BY <1>4, HashStepStep
<1>5. CASE Seek
  BY <1>5, SeekStep
<1>6. CASE enable_rgd_fallback
  BY <1>6, RecoverStep
<1>7. ASSUME NEW lba, is_allocated(lba) PROVE IInv'
  BY <1>7, IsAllocatedStep
<1>8. CASE iter_allocated_grains
  BY <1>8, IterStep
<1>9. CASE UNCHANGED vars
  BY <1>9 DEF vars, IInv, TypeOK, CacheCoherent, ViewCurrent, DirectoryCoversDisk
<1> QED
  BY <1>1, <1>2, <1>3, <1>4, <1>5, <1>6, <1>7, <1>8, <1>9 DEF Next

----------------------------------------------------------------------------
(* Theorems                                                                *)

\* The invariant holds in every reachable state.
LEMMA Invariance == Spec => []IInv
BY InitIInv, NextIInv, PTL DEF Spec

\* The reader's fields keep their types over every file, with every fault.
THEOREM TypeCorrect == Spec => []TypeOK
<1>1. IInv => TypeOK
  BY DEF IInv
<1> QED
  BY <1>1, Invariance, PTL

\* gt_cache never disagrees with the file: reads, scans, failed I/O and the
\* switch to recovery may come in any order.
THEOREM CacheIsCoherent == Spec => []CacheCoherent
<1>1. IInv => CacheCoherent
  BY DEF IInv
<1> QED
  BY <1>1, Invariance, PTL

\* Whatever geometry `open` accepts, its grain directory has a slot for every
\* offset of the virtual disk.
THEOREM DirectoryCovers == Spec => []DirectoryCoversDisk
<1>1. IInv => DirectoryCoversDisk
  BY DEF IInv
<1> QED
  BY <1>1, Invariance, PTL

\* No call changes a cell that reads as data: recovery only fills gaps and
\* holes.
THEOREM RecoveryIsConservative == Spec => RecoveryKeepsData
<1> DEFINE Keeps == \A off \in DOMAIN view : view[off].kind = "data" => view'[off] = view[off]
<1>1. IInv /\ [Next]_vars => [Keeps]_view
  <2> SUFFICES ASSUME IInv, [Next]_vars, view' # view PROVE Keeps
    OBVIOUS
  <2>1. Open \/ enable_rgd_fallback
    BY DEF Next, vars, Read, HashStart, HashStep, Seek, SeekTo, is_allocated,
           iter_allocated_grains
  <2>2. CASE Open
    <3>1. DOMAIN view = {}
      BY <2>2 DEF Open, IInv, ViewCurrent
    <3> QED
      BY <3>1
  <2>3. CASE enable_rgd_fallback
    <3>1. /\ view = DiskOf(img, rgd_fallback) /\ view' = DiskOf(img, TRUE)
          /\ rgd_fallback \in BOOLEAN /\ img \in Image
      BY <2>3 DEF enable_rgd_fallback, Idle, IInv, ViewCurrent, TypeOK
    <3>2. rgd_fallback = FALSE
      BY <3>1
    <3>3. img.virtual_disk_size \in Nat
      BY <3>1 DEF Image
    <3> SUFFICES ASSUME NEW off \in DOMAIN view, view[off].kind = "data"
                 PROVE  view'[off] = view[off]
      OBVIOUS
    <3>4. off \in 0..(img.virtual_disk_size - 1) /\ off \in Nat
      BY <3>1, <3>3 DEF DiskOf
    <3>5. view[off] = CellAt(img, FALSE, off) /\ view'[off] = CellAt(img, TRUE, off)
      BY <3>1, <3>2, <3>4 DEF DiskOf
    <3> QED
      BY <3>1, <3>4, <3>5, RecoveryKeepsCell
  <2> QED
    BY <2>1, <2>2, <2>3
<1> QED
  BY <1>1, Invariance, PTL DEF Spec, RecoveryKeepsData

----------------------------------------------------------------------------
(* The reader implements VirtualDisk.                                      *)

\* No call has been made on a reader that is not open.
Untouched == st # "open" => img = NoImage /\ pos = 0 /\ out = NoAnswer

\* A pass in progress has fed the digest the cells from where it began up to
\* the cursor, all of them and no others.
FedIsRun ==
    job.on => LET n == Len(job.fed) IN
                  /\ pos = job.from + n
                  /\ \A i \in 0..(n - 1) : Disk!Has(job.from + i)
                  /\ job.fed = Disk!Run(job.from, n)

\* How much a read asks for: something, inside the grain and inside the disk.
LEMMA ToReadBounds ==
    ASSUME TypeOK, NEW len \in Nat \ {0}, pos < img.virtual_disk_size
    PROVE  /\ ToRead(len) \in Nat \ {0}
           /\ ToRead(len) <= len
           /\ ToRead(len) <= img.virtual_disk_size - pos
           /\ ToRead(len) <= img.grain_size - (pos % img.grain_size)
<1>1. img.grain_size \in Nat \ {0} /\ img.virtual_disk_size \in Nat /\ pos \in Nat
  BY DEF TypeOK, Image
<1>2. pos % img.grain_size \in 0..(img.grain_size - 1)
  BY <1>1
<1> QED
  BY <1>1, <1>2 DEF ToRead, Min2

\* An outcome without an error is a run of the cells of the view at the
\* cursor; one with an error has no data.
LEMMA OutcomeIsRun ==
    ASSUME IInv, st = "open", NEW len \in Nat, NEW o \in ReadOutcomes(len)
    PROVE  /\ o.ok => /\ Len(o.data) \in Disk!Runs(pos, len)
                      /\ o.data = Disk!Run(pos, Len(o.data))
           /\ ~o.ok => o.data = << >>
<1> DEFINE size == img.virtual_disk_size
<1>1. /\ TypeOK /\ CacheCoherent /\ pos \in Nat /\ size \in Nat /\ img \in Image
      /\ rgd_fallback \in BOOLEAN
  BY DEF IInv, TypeOK, Image
<1>2. CASE o \in FaultOutcomes \/ o = Outcome(FALSE, << >>, TRUE, TRUE)
  BY <1>2 DEF FaultOutcomes, Outcome
<1>3. CASE pos >= size \/ len = 0
  <2>1. o = Outcome(TRUE, << >>, FALSE, FALSE)
    BY <1>3 DEF ReadOutcomes
  <2>2. o.ok /\ o.data = << >> /\ Len(o.data) = 0
    BY <2>1 DEF Outcome
  <2>3. Disk!Run(pos, 0) = << >>
    BY EmptyRun DEF Disk!Run
  <2>4. 0 \in Disk!Runs(pos, len)
    BY <1>1, <1>3 DEF Disk!Runs, Disk!Stops
  <2> QED
    BY <2>2, <2>3, <2>4
<1>4. CASE ~(pos >= size \/ len = 0) /\ Readable(img, Here) /\ o \notin FaultOutcomes
  <2> DEFINE m == ToRead(len)
             a == Available(img, Here, m)
  <2>1. PICK n \in Returned(m) : o = Outcome(TRUE, Contents(img, Here, n), TRUE, TRUE)
    BY <1>4 DEF ReadOutcomes
  <2>2. pos < size /\ len \in Nat \ {0}
    BY <1>1, <1>4
  <2>3. /\ m \in Nat \ {0} /\ m <= len /\ m <= size - pos
        /\ m <= img.grain_size - (pos % img.grain_size)
    BY <1>1, <2>2, ToReadBounds
  <2>4. Here = grain_location(img, rgd_fallback, << >>, pos)
    BY <1>1, HereUncached
  <2>5. /\ a \in 0..m
        /\ \A k \in 0..a : Contents(img, Here, k) \in Seq(Nat) /\ Len(Contents(img, Here, k)) = k
    BY <1>1, <1>4, <2>3, <2>4, ContentsType
  <2>6. n \in 0..a /\ (n = 0 => a = 0)
    <3>1. Returned(m) = IF Here.kind = "FileOffset" /\ a > 0 THEN 1..a ELSE {a}
      BY DEF Returned
    <3> HIDE DEF a, m
    <3> QED
      BY <2>3, <2>5, <3>1
  <2>7. /\ \A i \in 0..(n - 1) :
               /\ CellAt(img, rgd_fallback, pos + i).kind \in {"zero", "data"}
               /\ CellAt(img, rgd_fallback, pos + i).val = Contents(img, Here, n)[i + 1]
        /\ a = 0 => CellAt(img, rgd_fallback, pos).kind = "end"
    BY <1>1, <1>4, <2>3, <2>4, <2>6, ReadIsRun
  <2> HIDE DEF a, m
  <2>8. o.ok /\ o.data = Contents(img, Here, n) /\ Len(o.data) = n /\ n \in Nat
    BY <2>1, <2>3, <2>5, <2>6 DEF Outcome
  <2>9. \A i \in 0..(n - 1) : pos + i \in 0..(size - 1)
    BY <1>1, <2>3, <2>5, <2>6, <2>8
  <2>10. \A x \in 0..(size - 1) : view[x] = CellAt(img, rgd_fallback, x)
    BY DEF IInv, ViewCurrent, DiskOf
  <2>11. \A i \in 0..(n - 1) : /\ pos + i < size
                               /\ view[pos + i].kind \in {"zero", "data"}
                               /\ view[pos + i].val = Contents(img, Here, n)[i + 1]
    <3> SUFFICES ASSUME NEW i \in 0..(n - 1)
                 PROVE  /\ pos + i < size
                        /\ view[pos + i].kind \in {"zero", "data"}
                        /\ view[pos + i].val = Contents(img, Here, n)[i + 1]
      OBVIOUS
    <3>1. pos + i \in 0..(size - 1)
      BY <2>9
    <3>2. pos + i < size
      BY <1>1, <3>1
    <3>3. view[pos + i] = CellAt(img, rgd_fallback, pos + i)
      BY <2>10, <3>1
    <3> QED
      BY <2>7, <3>2, <3>3
  <2>12. n = 0 => view[pos].kind = "end"
    <3>1. pos \in 0..(size - 1)
      BY <1>1, <2>2
    <3> QED
      BY <2>6, <2>7, <2>10, <3>1
  <2>13. n \in Disk!Runs(pos, len)
    <3>1. n \in 0..len
      BY <2>3, <2>5, <2>6
    <3>2. \A i \in 0..(n - 1) : Disk!Has(pos + i)
      BY <2>11 DEF Disk!Has
    <3>3. n = 0 => Disk!Stops(pos)
      BY <2>12 DEF Disk!Stops
    <3> QED
      BY <3>1, <3>2, <3>3 DEF Disk!Runs
  <2>14. Contents(img, Here, n) = Disk!Run(pos, n)
    <3> DEFINE c == Contents(img, Here, n)
    <3>1. c \in [1..n -> Nat]
      BY <2>5, <2>6, <2>8
    <3>2. \A i \in 1..n : c[i] = view[pos + i - 1].val
      <4> SUFFICES ASSUME NEW i \in 1..n PROVE c[i] = view[pos + i - 1].val
        OBVIOUS
      <4>1. i - 1 \in 0..(n - 1) /\ (i - 1) + 1 = i /\ pos + (i - 1) = pos + i - 1
        BY <1>1, <2>8
      <4> QED
        BY <2>11, <4>1
    <3> HIDE DEF c
    <3>3. c = [i \in 1..n |-> view[pos + i - 1].val]
      BY <3>1, <3>2
    <3> QED
      BY <3>3 DEF Disk!Run, c
  <2> QED
    BY <2>8, <2>13, <2>14
<1>5. CASE ~(pos >= size \/ len = 0) /\ ~Readable(img, Here)
  BY <1>2, <1>5 DEF ReadOutcomes
<1> QED
  BY <1>2, <1>3, <1>4, <1>5

\* What the pass has fed grows by the run the next read returns.
LEMMA RunsJoin ==
    ASSUME NEW a \in Nat, NEW f \in Seq(Nat), NEW d \in Seq(Nat),
           f = Disk!Run(a, Len(f)), d = Disk!Run(a + Len(f), Len(d)),
           \A i \in 0..(Len(f) - 1) : Disk!Has(a + i),
           \A i \in 0..(Len(d) - 1) : Disk!Has(a + Len(f) + i)
    PROVE  /\ f \o d \in Seq(Nat) /\ Len(f \o d) = Len(f) + Len(d)
           /\ \A i \in 0..(Len(f) + Len(d) - 1) : Disk!Has(a + i)
           /\ f \o d = Disk!Run(a, Len(f) + Len(d))
<1> DEFINE n == Len(f)
           m == Len(d)
           s == f \o d
<1>1. n \in Nat /\ m \in Nat /\ s \in Seq(Nat) /\ Len(s) = n + m
  OBVIOUS
<1>2. \A i \in 0..(n + m - 1) : Disk!Has(a + i)
  <2> SUFFICES ASSUME NEW i \in 0..(n + m - 1) PROVE Disk!Has(a + i)
    OBVIOUS
  <2> HIDE DEF n, m
  <2>1. CASE i < n
    <3>1. i \in 0..(n - 1)
      BY <1>1, <2>1
    <3> QED
      BY <3>1 DEF n
  <2>2. CASE ~(i < n)
    <3>1. i - n \in 0..(m - 1) /\ a + n + (i - n) = a + i
      BY <1>1, <2>2
    <3>2. Disk!Has(a + n + (i - n))
      BY <3>1 DEF n, m
    <3> QED
      BY <3>1, <3>2
  <2> QED
    BY <2>1, <2>2
<1>3. \A i \in 1..(n + m) : s[i] = view[a + i - 1].val
  <2> SUFFICES ASSUME NEW i \in 1..(n + m) PROVE s[i] = view[a + i - 1].val
    OBVIOUS
  <2>1. CASE i <= n
    <3>1. i \in 1..n /\ s[i] = f[i]
      BY <2>1
    <3>2. f[i] = Disk!Run(a, n)[i]
      OBVIOUS
    <3> HIDE DEF n, s
    <3> QED
      BY <3>1, <3>2 DEF Disk!Run
  <2>2. CASE ~(i <= n)
    <3>1. i - n \in 1..m /\ s[i] = d[i - n]
      BY <2>2
    <3>2. d[i - n] = Disk!Run(a + n, m)[i - n]
      OBVIOUS
    <3> HIDE DEF n, m, s
    <3>3. (a + n) + (i - n) - 1 = a + i - 1
      BY <1>1
    <3> QED
      BY <3>1, <3>2, <3>3 DEF Disk!Run
  <2> QED
    BY <2>1, <2>2
<1> HIDE DEF n, m, s
<1>4. s \in [1..(n + m) -> Nat]
  BY <1>1
<1>5. s = [i \in 1..(n + m) |-> view[a + i - 1].val]
  BY <1>3, <1>4
<1> QED
  BY <1>1, <1>2, <1>5 DEF Disk!Run, n, m, s

\* The cells of a run lie on the disk.
LEMMA RunFits ==
    ASSUME TypeOK, NEW a \in Nat, NEW n \in Nat, \A i \in 0..(n - 1) : Disk!Has(a + i)
    PROVE  n <= img.virtual_disk_size
<1>1. img.virtual_disk_size \in Nat
  BY DEF TypeOK, Image
<1>2. CASE n > 0
  <2>1. n - 1 \in 0..(n - 1)
    BY <1>2
  <2>2. a + (n - 1) < img.virtual_disk_size
    BY <2>1 DEF Disk!Has
  <2> QED
    BY <1>1, <2>2
<1> QED
  BY <1>1, <1>2

\* The part of the invariant the refinement needs holds at first.
LEMMA InitRefined == Init => Untouched /\ FedIsRun
<1> SUFFICES ASSUME Init PROVE Untouched /\ FedIsRun
  OBVIOUS
<1>1. ~job.on
  BY DEF Init, NoJob
<1> QED
  BY <1>1 DEF Init, Untouched, FedIsRun

\* A turn of the loop of hash extends what was fed by what it read.
LEMMA HashFeeds ==
    ASSUME IInv, FedIsRun, HashStep
    PROVE  FedIsRun'
<1>1. /\ st = "open" /\ HASH_BUF \in Nat /\ job \in Jobs /\ TypeOK /\ CacheCoherent
      /\ job.on /\ UNCHANGED <<img, view>>
  BY ReaderAssumption, HeaderAssumption DEF HashStep, IInv, TypeOK, Jobs
<1>2. PICK o \in ReadOutcomes(HASH_BUF) :
         /\ Advance(o)
         /\ \/ job' = NoJob
            \/ o.ok /\ job' = [job EXCEPT !.fed = job.fed \o o.data]
  BY DEF HashStep, HashEnds
<1>3. CASE job' = NoJob
  BY <1>3 DEF NoJob, FedIsRun
<1>4. CASE o.ok /\ job' = [job EXCEPT !.fed = job.fed \o o.data]
  <2> DEFINE a == job.from
             f == job.fed
             d == o.data
  <2>1. a \in Nat /\ f \in Seq(Nat) /\ d \in Seq(Nat)
    BY <1>1, OutcomeType DEF Jobs
  <2>2. /\ pos = a + Len(f) /\ f = Disk!Run(a, Len(f))
        /\ \A i \in 0..(Len(f) - 1) : Disk!Has(a + i)
    BY <1>1 DEF FedIsRun
  <2>3. Len(d) \in Disk!Runs(pos, HASH_BUF) /\ d = Disk!Run(pos, Len(d))
    BY <1>1, <1>4, OutcomeIsRun
  <2>4. \A i \in 0..(Len(d) - 1) : Disk!Has(pos + i)
    BY <2>3 DEF Disk!Runs
  <2>5. /\ f \o d \in Seq(Nat) /\ Len(f \o d) = Len(f) + Len(d)
        /\ \A i \in 0..(Len(f) + Len(d) - 1) : Disk!Has(a + i)
        /\ f \o d = Disk!Run(a, Len(f) + Len(d))
    <3> HIDE DEF a, f, d
    <3> QED
      BY <2>1, <2>2, <2>3, <2>4, RunsJoin
  <2>6. job'.from = a /\ job'.fed = f \o d /\ pos' = a + (Len(f) + Len(d))
    <3>1. job'.from = a /\ job'.fed = f \o d
      BY <1>1, <1>4 DEF Jobs
    <3>2. pos' = pos + Len(d)
      BY <1>2 DEF Advance
    <3>3. Len(f) \in Nat /\ Len(d) \in Nat
      BY <2>1
    <3> HIDE DEF a, f, d
    <3> QED
      BY <2>1, <2>2, <3>1, <3>2, <3>3
  <2>7. /\ \A x : Disk!Has(x)' = Disk!Has(x)
        /\ \A x, n : Disk!Run(x, n)' = Disk!Run(x, n)
    BY <1>1 DEF Disk!Has, Disk!Run
  <2> HIDE DEF a, f, d
  <2> QED
    BY <2>5, <2>6, <2>7 DEF FedIsRun
<1> QED
  BY <1>2, <1>3, <1>4

\* Every step keeps the part of the invariant the refinement needs.
LEMMA NextRefined == IInv /\ Untouched /\ FedIsRun /\ [Next]_vars => Untouched' /\ FedIsRun'
<1> SUFFICES ASSUME IInv, Untouched, FedIsRun, [Next]_vars PROVE Untouched' /\ FedIsRun'
  OBVIOUS
<1>1. CASE Open
  <2>1. ~job'.on
    BY <1>1 DEF Open, IInv, TypeOK
  <2>2. st' # "open" => UNCHANGED <<img, pos, out>> /\ st # "open"
    BY <1>1 DEF Open
  <2> QED
    BY <2>1, <2>2 DEF Untouched, FedIsRun
<1>2. CASE HashStart
  <2>1. st' = "open" /\ job'.from = pos /\ job'.fed = << >> /\ pos' = pos /\ pos \in Nat
    BY <1>2 DEF HashStart, Idle, IInv, TypeOK
  <2>2. Len(job'.fed) = 0
    BY <2>1
  <2>3. \A x : Disk!Run(x, 0)' = << >>
    BY EmptyRun DEF Disk!Run
  <2>4. Disk!Run(job.from, Len(job.fed))' = << >>
    BY <2>2, <2>3 DEF Disk!Run
  <2>5. pos' = job'.from + 0
    BY <2>1
  <2> QED
    BY <2>1, <2>2, <2>4, <2>5 DEF Untouched, FedIsRun
<1>3. CASE HashStep
  <2>1. st' = "open"
    BY <1>3 DEF HashStep, IInv, TypeOK
  <2> QED
    BY <1>3, <2>1, HashFeeds DEF Untouched
<1>4. CASE \/ \E len \in Lengths : Read(len)
           \/ Seek
           \/ enable_rgd_fallback
           \/ \E lba \in 0..(img.virtual_disk_size \div SECTOR_SIZE) : is_allocated(lba)
           \/ iter_allocated_grains
  <2>1. st' = "open" /\ ~job'.on
    BY <1>4 DEF Read, Seek, SeekTo, enable_rgd_fallback, is_allocated, iter_allocated_grains,
                Idle
  <2> QED
    BY <2>1 DEF Untouched, FedIsRun
<1>5. CASE UNCHANGED vars
  BY <1>5 DEF vars, Untouched, FedIsRun, Disk!Has, Disk!Run
<1> QED
  BY <1>1, <1>2, <1>3, <1>4, <1>5 DEF Next

\* The initial state is one of VirtualDisk.
LEMMA InitImplements == Init => Disk!Init
BY DEF Init, Disk!Init, NoImage, NoJob, NoAnswer, Answer

\* Turning recovery on is Recover.
LEMMA RecoverImplements ==
    ASSUME IInv, enable_rgd_fallback
    PROVE  Disk!Recover
<1>1. /\ st = "open" /\ view = DiskOf(img, rgd_fallback) /\ view' = DiskOf(img, TRUE)
      /\ rgd_fallback \in BOOLEAN /\ img \in Image /\ out' = NoAnswer
      /\ UNCHANGED <<img, pos, job>>
  BY DEF enable_rgd_fallback, Idle, IInv, ViewCurrent, TypeOK
<1>2. img.virtual_disk_size \in Nat
  BY <1>1 DEF Image
<1>3. ASSUME NEW x \in 0..(img.virtual_disk_size - 1), view[x].kind = "data"
      PROVE  view'[x] = view[x]
  <2>1. x \in Nat
    BY <1>2
  <2>2. view[x] = CellAt(img, rgd_fallback, x) /\ view'[x] = CellAt(img, TRUE, x)
    BY <1>1 DEF DiskOf
  <2>3. CASE rgd_fallback = TRUE
    BY <2>2, <2>3
  <2>4. CASE rgd_fallback = FALSE
    BY <1>1, <1>3, <2>1, <2>2, <2>4, RecoveryKeepsCell
  <2> QED
    BY <1>1, <2>3, <2>4
<1>4. out'.op = "none"
  BY <1>1 DEF NoAnswer, Answer
<1> QED
  BY <1>1, <1>3, <1>4 DEF Disk!Recover

\* A read is ReadOk or ReadErr.
LEMMA ReadImplements ==
    ASSUME IInv, NEW len \in Lengths, Read(len)
    PROVE  Disk!ReadOk \/ Disk!ReadErr
<1>1. /\ st = "open" /\ ~job.on /\ len \in Nat /\ pos \in Nat
      /\ UNCHANGED <<img, job, view>>
  BY ReaderAssumption, HeaderAssumption DEF Read, Idle, IInv, TypeOK
<1>2. PICK o \in ReadOutcomes(len) :
          Advance(o) /\ out' = Answer("read", o.ok, pos, len, o.data, {})
  BY DEF Read
<1>3. pos' = pos + Len(o.data)
  BY <1>2 DEF Advance
<1>4. out'.op = "read" /\ out'.ok = o.ok /\ out'.data = o.data /\ out'.arg = len
  BY <1>2 DEF Answer
<1>5. CASE o.ok
  <2>1. Len(o.data) \in Disk!Runs(pos, len) /\ o.data = Disk!Run(pos, Len(o.data))
    BY <1>1, <1>5, OutcomeIsRun
  <2> QED
    BY <1>1, <1>3, <1>4, <1>5, <2>1 DEF Disk!ReadOk
<1>6. CASE ~o.ok
  <2>1. o.data = << >>
    BY <1>1, <1>6, OutcomeIsRun
  <2>2. pos' = pos
    BY <1>1, <1>3, <2>1
  <2> QED
    BY <1>1, <1>4, <1>6, <2>2 DEF Disk!ReadErr
<1> QED
  BY <1>5, <1>6

\* A turn of the loop of hash leaves the disk alone, or is the whole pass.
LEMMA HashImplements ==
    ASSUME IInv, FedIsRun, HashStep
    PROVE  Disk!HashOk \/ Disk!HashErr \/ UNCHANGED Disk!vars
<1>1. /\ st = "open" /\ HASH_BUF \in Nat \ {0} /\ job \in Jobs /\ TypeOK
      /\ job.on /\ UNCHANGED <<img, view>> /\ pos \in Nat
  BY ReaderAssumption, HeaderAssumption DEF HashStep, IInv, TypeOK, Jobs
<1>2. PICK o \in ReadOutcomes(HASH_BUF) :
         /\ Advance(o)
         /\ \/ /\ HashEnds(o) /\ job' = NoJob
               /\ out' = Answer("hash", o.ok, job.from, 0,
                                IF o.ok THEN job.fed \o o.data ELSE << >>, {})
            \/ job' = [job EXCEPT !.fed = job.fed \o o.data] /\ out' = out
  BY DEF HashStep
<1> DEFINE a == job.from
           n == Len(job.fed)
<1>3. /\ pos = a + n /\ job.fed = Disk!Run(a, n) /\ a \in Nat /\ n \in Nat
      /\ \A i \in 0..(n - 1) : Disk!Has(a + i)
  BY <1>1 DEF FedIsRun, Jobs
<1>4. CASE job' = [job EXCEPT !.fed = job.fed \o o.data] /\ out' = out
  <2>1. job'.on = job.on /\ job'.from = job.from
    BY <1>1, <1>4 DEF Jobs
  <2> QED
    BY <1>1, <1>4, <2>1 DEF Disk!vars
<1>5. CASE /\ HashEnds(o) /\ job' = NoJob
           /\ out' = Answer("hash", o.ok, a, 0, IF o.ok THEN job.fed \o o.data ELSE << >>, {})
  <2>1. ~job'.on
    BY <1>5 DEF NoJob
  <2>2. pos' = pos + Len(o.data)
    BY <1>2 DEF Advance
  <2>3. out'.op = "hash" /\ out'.ok = o.ok
    BY <1>5 DEF Answer
  <2>4. CASE o.ok
    <3>1. Len(o.data) = 0
      BY <1>5, <2>4 DEF HashEnds
    <3>2. o.data \in Seq(Nat) /\ job.fed \in Seq(Nat)
      BY <1>1, OutcomeType DEF Jobs, IInv
    <3>3. o.data = << >>
      BY <3>1, <3>2
    <3>4. job.fed \o o.data = job.fed
      BY <3>2, <3>3
    <3>5. out'.data = job.fed /\ pos' = pos
      BY <1>1, <1>5, <2>2, <2>4, <3>1, <3>4 DEF Answer
    <3>6. Disk!Stops(pos)
      <4>1. 0 \in Disk!Runs(pos, HASH_BUF)
        BY <1>1, <2>4, <3>1, OutcomeIsRun
      <4> QED
        BY <1>1, <4>1 DEF Disk!Runs
    <3> HIDE DEF a
    <3>7. /\ \A i \in 0..(n - 1) : Disk!Has(a + i)
          /\ Disk!Stops(a + n) /\ out'.data = Disk!Run(a, n) /\ Len(out'.data) = n
          /\ pos' = a + n
      BY <1>3, <3>5, <3>6
    <3> HIDE DEF n
    <3>8. Disk!HashOk
      BY <1>1, <2>1, <2>3, <2>4, <3>7 DEF Disk!HashOk, a
    <3> QED
      BY <3>8
  <2>5. CASE ~o.ok
    <3>1. o.data = << >>
      BY <1>1, <2>5, OutcomeIsRun
    <3>2. pos' = a + n
      BY <1>1, <1>3, <2>2, <3>1
    <3>3. n <= img.virtual_disk_size /\ img.virtual_disk_size \in Nat
      BY <1>1, <1>3, RunFits DEF TypeOK, Image
    <3>4. pos' \in a..(a + img.virtual_disk_size)
      <4> HIDE DEF a, n
      <4> QED
        BY <1>3, <3>2, <3>3
    <3> QED
      BY <1>1, <2>1, <2>3, <2>5, <3>4 DEF Disk!HashErr
  <2> QED
    BY <2>4, <2>5
<1> QED
  BY <1>2, <1>4, <1>5

\* Every step of the reader is a step of VirtualDisk or changes nothing there.
LEMMA NextImplements ==
    IInv /\ Untouched /\ FedIsRun /\ [Next]_vars => [Disk!Next]_(Disk!vars)
<1> SUFFICES ASSUME IInv, Untouched, FedIsRun, [Next]_vars
             PROVE  Disk!Next \/ UNCHANGED Disk!vars
  OBVIOUS
<1>1. CASE Open
  <2>1. /\ img = NoImage /\ pos = 0 /\ out = NoAnswer /\ ~job.on
        /\ UNCHANGED <<pos, job, out>>
    BY <1>1 DEF Open, Untouched, IInv, TypeOK
  <2>2. Disk!Open
    BY <2>1 DEF Disk!Open, NoImage, NoAnswer, Answer
  <2> QED
    BY <2>2 DEF Disk!Next
<1>2. ASSUME NEW len \in Lengths, Read(len) PROVE Disk!Next
  BY <1>2, ReadImplements DEF Disk!Next
<1>3. CASE HashStart
  <2>1. /\ ~job.on /\ UNCHANGED <<img, pos, view>>
        /\ job' = [on |-> TRUE, from |-> pos, fed |-> << >>] /\ out' = NoAnswer
    BY <1>3 DEF HashStart, Idle
  <2>2. Disk!Query
    BY <2>1 DEF Disk!Query, NoAnswer, Answer
  <2> QED
    BY <2>2 DEF Disk!Next
<1>4. CASE HashStep
  BY <1>4, HashImplements DEF Disk!Next
<1>5. CASE Seek
  <2>1. PICK x \in Int : SeekTo(x)
    BY <1>5, SeeksToInt
  <2>2. /\ ~job.on /\ UNCHANGED <<img, job, view>>
        /\ out' = Answer("seek", x >= 0, pos, 0, << >>, {})
        /\ pos' = IF x < 0 THEN pos ELSE x
    BY <2>1 DEF SeekTo, Idle
  <2>3. pos' \in Nat
    BY <1>5, SeekStep DEF IInv, TypeOK
  <2>4. out'.op = "seek" /\ (out'.ok <=> x >= 0)
    BY <2>2 DEF Answer
  <2>5. ~out'.ok => pos' = pos
    BY <2>2, <2>4
  <2>6. Disk!Seek
    BY <2>2, <2>3, <2>4, <2>5 DEF Disk!Seek
  <2> QED
    BY <2>6 DEF Disk!Next
<1>6. CASE enable_rgd_fallback
  BY <1>6, RecoverImplements DEF Disk!Next
<1>7. ASSUME NEW lba, is_allocated(lba) PROVE Disk!Next
  <2>1. /\ ~job.on /\ UNCHANGED <<img, pos, job, view>> /\ out'.op = "is_allocated"
    BY <1>7 DEF is_allocated, Idle, Answer
  <2>2. Disk!Query
    BY <2>1 DEF Disk!Query
  <2> QED
    BY <2>2 DEF Disk!Next
<1>8. CASE iter_allocated_grains
  <2>1. /\ ~job.on /\ UNCHANGED <<img, pos, job, view>> /\ out'.op = "iter"
    BY <1>8 DEF iter_allocated_grains, Idle, Answer
  <2>2. Disk!Query
    BY <2>1 DEF Disk!Query
  <2> QED
    BY <2>2 DEF Disk!Next
<1>9. CASE UNCHANGED vars
  BY <1>9 DEF vars, Disk!vars
<1> QED
  BY <1>1, <1>2, <1>3, <1>4, <1>5, <1>6, <1>7, <1>8, <1>9 DEF Next

\* What the refinement needs holds in every reachable state.
LEMMA Refined == Spec => [](Untouched /\ FedIsRun)
<1>1. Untouched /\ FedIsRun /\ IInv /\ [Next]_vars => (Untouched /\ FedIsRun)'
  BY NextRefined
<1> QED
  BY <1>1, InitRefined, Invariance, PTL DEF Spec

\* The reader implements the abstract disk over every file, with every fault:
\* short reads, the cache, recovery and a hash in many turns never show.
THEOREM ReaderIsDisk == Spec => ImplementsDisk
<1>1. Spec => Disk!Init /\ [][Disk!Next]_(Disk!vars)
  BY Refined, InitImplements, NextImplements, Invariance, PTL DEF Spec
<1> QED
  BY <1>1 DEF ImplementsDisk, Disk!Spec

----------------------------------------------------------------------------
(* The allocation queries agree with the reads.                            *)

\* The image of an open reader is measured in whole sectors.
Sectored == st = "open" => InSectors(img)

\* What the last query said still describes the image and the mode.
Agreement == Sectored /\ ListingAgrees /\ AllocationAgrees

\* A finished scan lists what the reads find.
LEMMA IterAgrees ==
    ASSUME IInv, Sectored, iter_allocated_grains
    PROVE  ListingAgrees' /\ AllocationAgrees'
<1>1. /\ st = "open" /\ img \in Image /\ rgd_fallback \in BOOLEAN
      /\ UNCHANGED <<img, rgd_fallback>>
  BY DEF iter_allocated_grains, Idle, IInv, TypeOK
<1>2. PICK stop \in 0..Len(img.grain_dir) :
          /\ \A gd \in 0..(stop - 1) : ~ScanFails(img, rgd_fallback, gd)
          /\ out' = IF stop = Len(img.grain_dir)
                    THEN Answer("iter", TRUE, 0, 0, << >>, Listing(img, rgd_fallback))
                    ELSE Answer("iter", FALSE, 0, 0, << >>, {})
  BY DEF iter_allocated_grains
<1>3. out'.op = "iter"
  BY <1>2 DEF Answer
<1>4. CASE stop # Len(img.grain_dir)
  BY <1>2, <1>3, <1>4 DEF Answer, ListingAgrees, AllocationAgrees
<1>5. CASE stop = Len(img.grain_dir)
  <2>1. out'.list = Listing(img, rgd_fallback)
    BY <1>2, <1>5 DEF Answer
  <2>2. InSectors(img) /\ Covers(img)
    BY <1>1 DEF Sectored, IInv, DirectoryCoversDisk, Covers
  <2>3. Listing(img, rgd_fallback) =
           {g \in 0..(img.virtual_disk_size - 1) :
               /\ g * img.grain_size < img.virtual_disk_size
               /\ Stored(img, rgd_fallback, g * img.grain_size)}
    BY <1>1, <1>2, <1>5, <2>2, ListingIsStored
  <2> QED
    BY <1>1, <1>3, <2>1, <2>3 DEF ListingAgrees, AllocationAgrees
<1> QED
  BY <1>4, <1>5

\* is_allocated answers as the reads would.
LEMMA IsAllocatedAgrees ==
    ASSUME IInv, Sectored, NEW lba \in Nat, is_allocated(lba)
    PROVE  ListingAgrees' /\ AllocationAgrees'
<1>1. /\ st = "open" /\ img \in Image /\ UNCHANGED <<img, rgd_fallback>>
  BY DEF is_allocated, Idle, IInv, TypeOK
<1>2. PICK r \in {AllocatedAt(img, lba), "err"} :
          out' = Answer("is_allocated", r # "err", 0, lba, << >>,
                        IF r = "yes" THEN {lba} ELSE {})
  BY DEF is_allocated
<1>3. /\ out'.op = "is_allocated" /\ (out'.ok <=> r # "err") /\ out'.arg = lba
      /\ out'.list # {} <=> r = "yes"
  BY <1>2 DEF Answer
<1>4. InSectors(img)
  BY <1>1 DEF Sectored
<1>5. ASSUME r # "err", lba * SECTOR_SIZE < img.virtual_disk_size,
             grain_location(img, FALSE, << >>, lba * SECTOR_SIZE).kind # "Err"
      PROVE  r = "yes" <=> Stored(img, FALSE, lba * SECTOR_SIZE)
  BY <1>1, <1>2, <1>4, <1>5, AllocatedIsStored
<1> QED
  BY <1>1, <1>3, <1>5 DEF ListingAgrees, AllocationAgrees

\* Every step keeps the agreement: an answer is replaced before the mode it was
\* given in changes.
LEMMA NextAgreement == IInv /\ Untouched /\ Agreement /\ [Next]_vars => Agreement'
<1> SUFFICES ASSUME IInv, Untouched, Agreement, [Next]_vars PROVE Agreement'
  OBVIOUS
<1> USE DEF Agreement
<1>1. CASE Open
  <2>1. out' = NoAnswer
    BY <1>1 DEF Open, Untouched
  <2>2. ListingAgrees' /\ AllocationAgrees'
    BY <2>1 DEF NoAnswer, Answer, ListingAgrees, AllocationAgrees
  <2>3. CASE st' = "open"
    <3>1. src \in Source
      BY ReaderAssumption, HeaderAssumption DEF IInv, TypeOK
    <3>2. Opens(src) /\ img' = IF src.hdr.magic = "COWD" THEN CowdImage(src) ELSE Vmdk4Image(src)
      BY <1>1, <2>3 DEF Open
    <3>3. InSectors(img')
      BY <3>1, <3>2, OpenImage DEF Source
    <3> QED
      BY <2>2, <3>3 DEF Sectored, InSectors
  <2>4. CASE st' # "open"
    BY <2>2, <2>4 DEF Sectored
  <2> QED
    BY <2>3, <2>4
<1>2. ASSUME NEW len \in Lengths, Read(len) PROVE Agreement'
  <2>1. out'.op = "read" /\ UNCHANGED <<st, img>>
    BY <1>2 DEF Read, Answer
  <2> QED
    BY <2>1 DEF ListingAgrees, AllocationAgrees, Sectored, InSectors
<1>3. CASE HashStart \/ enable_rgd_fallback
  <2>1. out' = NoAnswer /\ UNCHANGED <<st, img>>
    BY <1>3 DEF HashStart, enable_rgd_fallback
  <2>2. out'.op = "none"
    BY <2>1 DEF NoAnswer, Answer
  <2> QED
    BY <2>1, <2>2 DEF ListingAgrees, AllocationAgrees, Sectored, InSectors
<1>4. CASE HashStep
  <2>1. UNCHANGED <<st, img, rgd_fallback>>
    BY <1>4 DEF HashStep
  <2>2. PICK ok, data : out' = Answer("hash", ok, job.from, 0, data, {}) \/ out' = out
    BY <1>4 DEF HashStep
  <2>3. out'.op = "hash" \/ out' = out
    BY <2>2 DEF Answer
  <2> QED
    BY <2>1, <2>3 DEF ListingAgrees, AllocationAgrees, Sectored, InSectors
<1>5. CASE Seek
  <2>1. out'.op = "seek" /\ UNCHANGED <<st, img>>
    BY <1>5 DEF Seek, SeekTo, Answer
  <2> QED
    BY <2>1 DEF ListingAgrees, AllocationAgrees, Sectored, InSectors
<1>6. ASSUME NEW lba \in 0..(img.virtual_disk_size \div SECTOR_SIZE), is_allocated(lba)
      PROVE  Agreement'
  <2>1. lba \in Nat
    <3>1. img.virtual_disk_size \in Nat /\ SECTOR_SIZE \in Nat \ {0}
      BY ImageAssumption DEF IInv, TypeOK, Image
    <3>2. img.virtual_disk_size \div SECTOR_SIZE \in Nat
      BY <3>1, DivMod
    <3> QED
      BY <3>2
  <2>2. UNCHANGED <<st, img>>
    BY <1>6 DEF is_allocated
  <2> QED
    BY <1>6, <2>1, <2>2, IsAllocatedAgrees DEF Sectored, InSectors
<1>7. CASE iter_allocated_grains
  <2>1. UNCHANGED <<st, img>>
    BY <1>7 DEF iter_allocated_grains
  <2> QED
    BY <1>7, <2>1, IterAgrees DEF Sectored, InSectors
<1>8. CASE UNCHANGED vars
  BY <1>8 DEF vars, ListingAgrees, AllocationAgrees, Sectored, InSectors
<1> QED
  BY <1>1, <1>2, <1>3, <1>4, <1>5, <1>6, <1>7, <1>8 DEF Next

\* The agreement holds in every reachable state.
LEMMA Agreed == Spec => []Agreement
<1>1. Init => Agreement
  BY DEF Init, Agreement, Sectored, ListingAgrees, AllocationAgrees, NoAnswer, Answer
<1> QED
  BY <1>1, NextAgreement, Invariance, Refined, PTL DEF Spec

\* Whatever the file and the mode, a completed iter_allocated_grains lists the
\* grains of the disk the read path finds stored, no more and no fewer.
THEOREM ListingIsRight == Spec => []ListingAgrees
<1>1. Agreement => ListingAgrees
  BY DEF Agreement
<1> QED
  BY <1>1, Agreed, PTL

\* Without recovery, is_allocated and the read path never disagree on a sector
\* both can answer for.
THEOREM AllocationIsRight == Spec => []AllocationAgrees
<1>1. Agreement => AllocationAgrees
  BY DEF Agreement
<1> QED
  BY <1>1, Agreed, PTL

----------------------------------------------------------------------------
(* What the reads return is what was stored.                               *)

\* Where a pointer found for an offset leads.
PlaceOf(im, p, off) ==
    IF p <= 1 THEN Location("Sparse", 0, 0, 0)
    ELSE IF im.compressed THEN CompressedAt(im, p * SECTOR_SIZE, off % im.grain_size)
    ELSE Location("FileOffset", p * SECTOR_SIZE + (off % im.grain_size), 0, 0)

\* Entry gi of the table at a sector.
Entry(im, sec, gi) == im.file[sec * SECTOR_SIZE + gi + 1]

\* Without a cache, a lookup acts on the entry of the table it chose, or on the
\* redundant one, and has a table at hand when that table is usable.
LEMMA Uncached ==
    ASSUME NEW im \in Image, NEW fb \in BOOLEAN, NEW off \in Nat,
           NEW gd, gd = GdIdx(im, off), NEW gi, gi = GteIdx(im, off),
           NEW sec, sec = GtSector(im, fb, gd), NEW red, red = rgd_dir_entry(im, gd)
    PROVE  /\ TableAtHand(im, fb, << >>, off) <=> usable(im, sec)
           /\ TableAtHand(im, fb, << >>, off) =>
                  TableGte(im, fb, << >>, off) = Entry(im, sec, gi)
           /\ rgd_gte(im, gd, gi) = IF usable(im, red) THEN Entry(im, red, gi) ELSE 0
<1>1. DOMAIN << >> = {}
  OBVIOUS
<1>2. TableAtHand(im, fb, << >>, off) <=> usable(im, sec)
  BY <1>1 DEF TableAtHand, usable
<1>3. TableGte(im, fb, << >>, off) = GrainTable(im, sec)[gi + 1]
  BY <1>1 DEF TableGte
<1>4. gi \in 0..(im.num_gtes_per_gt - 1) /\ im.num_gtes_per_gt \in Nat /\ gd \in Nat
  BY IndexType DEF Image
<1>5. sec \in Nat
  BY <1>4, SectorType
<1>6. GrainTable(im, sec)[gi + 1] = Entry(im, sec, gi)
  <2>1. gi + 1 \in 1..im.num_gtes_per_gt
    BY <1>4
  <2>2. sec * SECTOR_SIZE + (gi + 1) = sec * SECTOR_SIZE + gi + 1
    BY <1>4, <1>5, ImageAssumption
  <2> QED
    BY <2>1, <2>2 DEF GrainTable, Cells, Entry
<1>7. rgd_gte(im, gd, gi) = IF usable(im, red) THEN Entry(im, red, gi) ELSE 0
  BY DEF rgd_gte, usable, Entry
<1> QED
  BY <1>2, <1>3, <1>6, <1>7

\* The lookup fails, finds a hole, or follows the pointer; it follows it when
\* the primary table has it, and in recovery when the redundant one has.
LEMMA PointerIsFollowed ==
    ASSUME NEW im \in Image, NEW fb \in BOOLEAN, NEW off \in Nat, NEW p \in Nat,
           NEW gd, gd = GdIdx(im, off), NEW gi, gi = GteIdx(im, off),
           NEW prim, prim = PrimaryGt(im, gd), NEW red, red = rgd_dir_entry(im, gd),
           usable(im, prim) => Entry(im, prim, gi) \in {0, 1, p},
           usable(im, red) => Entry(im, red, gi) \in {0, 1, p},
           NEW loc, loc = grain_location(im, fb, << >>, off)
    PROVE  /\ loc \in {Location("Err", 0, 0, 0), PlaceOf(im, 0, off), PlaceOf(im, p, off)}
           /\ \/ usable(im, prim) /\ Entry(im, prim, gi) = p
              \/ prim = 0 /\ p <= 1
              \/ fb /\ usable(im, red) /\ Entry(im, red, gi) = p
              => loc = PlaceOf(im, p, off)
<1> DEFINE sec == GtSector(im, fb, gd)
           gte == Gte(im, fb, << >>, off)
           t == Entry(im, sec, gi)
           r == IF usable(im, red) THEN Entry(im, red, gi) ELSE 0
           hole == PlaceOf(im, 0, off)
<1>1. /\ TableAtHand(im, fb, << >>, off) <=> usable(im, sec)
      /\ usable(im, sec) => TableGte(im, fb, << >>, off) = t
      /\ rgd_gte(im, gd, gi) = r
  BY Uncached
<1>2. usable(im, sec) => gte = IF fb /\ t <= 1 /\ r > 1 THEN r ELSE t
  BY <1>1 DEF Gte, EntryLost
<1>3. sec = IF fb /\ ~usable(im, prim) /\ usable(im, red) THEN red ELSE prim
  BY DEF GtSector, resilient_gt_sector
<1>4. ~usable(im, 0)
  BY DEF usable
<1>5. loc = IF sec = 0 THEN hole
            ELSE IF ~usable(im, sec) THEN Location("Err", 0, 0, 0)
            ELSE PlaceOf(im, gte, off)
  BY <1>1 DEF grain_location, PlaceOf
<1>6. \A x \in {0, 1} : PlaceOf(im, x, off) = hole
  BY DEF PlaceOf
<1>7. usable(im, sec) => t \in {0, 1, p}
  BY <1>3
<1>8. r \in {0, 1, p}
  OBVIOUS
<1> HIDE DEF gte, r, hole
<1>9. usable(im, sec) => gte \in {0, 1, p}
  BY <1>2, <1>7, <1>8
<1>10. loc \in {Location("Err", 0, 0, 0), hole, PlaceOf(im, p, off)}
  BY <1>5, <1>6, <1>9
<1>11. p <= 1 => PlaceOf(im, p, off) = hole
  BY DEF PlaceOf, hole
<1>12. p <= 1 /\ usable(im, sec) => loc = hole
  BY <1>4, <1>5, <1>6, <1>9, <1>11
<1>13. CASE usable(im, prim) /\ Entry(im, prim, gi) = p
  <2>1. sec = prim /\ usable(im, sec) /\ t = p
    BY <1>3, <1>13
  <2>2. CASE p <= 1
    BY <1>11, <1>12, <2>1, <2>2
  <2>3. CASE ~(p <= 1)
    <3>1. gte = p
      BY <1>2, <2>1, <2>3
    <3> QED
      BY <1>4, <1>5, <2>1, <3>1
  <2> QED
    BY <1>10, <2>2, <2>3 DEF hole
<1>14. CASE prim = 0 /\ p <= 1
  <2>1. sec = 0 \/ usable(im, sec)
    BY <1>3, <1>14
  <2>2. loc = hole
    BY <1>5, <1>12, <1>14, <2>1
  <2> QED
    BY <1>10, <1>11, <1>14, <2>2 DEF hole
<1>15. CASE fb /\ usable(im, red) /\ Entry(im, red, gi) = p
  <2>1. usable(im, sec) /\ r = p
    BY <1>3, <1>15 DEF r
  <2>2. CASE p <= 1
    BY <1>11, <1>12, <2>1, <2>2
  <2>3. CASE ~(p <= 1)
    <3>1. gte = IF t <= 1 /\ r > 1 THEN r ELSE t
      BY <1>2, <1>15, <2>1
    <3>2. p > 1
      BY <2>3
    <3>3. gte = p
      BY <1>7, <2>1, <3>1, <3>2
    <3> QED
      BY <1>4, <1>5, <2>1, <3>3
  <2> QED
    BY <1>10, <2>2, <2>3 DEF hole
<1> QED
  BY <1>10, <1>13, <1>14, <1>15 DEF hole

\* What one offset of a written file reads as: what was stored, or zero in a
\* grain whose pointers are lost; and without such a loss it does not fail.
LEMMA WrittenCell ==
    ASSUME NEW s, Written(s), NEW im \in Image, im = ImageOf(s), NEW fb \in BOOLEAN,
           NEW off \in 0..(im.virtual_disk_size - 1),
           NEW c, c = CellAt(im, fb, off),
           NEW dead, dead = IF fb THEN s.gone ELSE s.lost
    PROVE  /\ c.kind \in {"zero", "data"} =>
                  c.val = s.disk[off + 1] \/ (c.val = 0 /\ GrainIdx(im, off) \in dead)
           /\ GrainIdx(im, off) \notin dead /\ ~s.cut => c.kind \in {"zero", "data"}
<1> DEFINE g == GrainIdx(im, off)
           gd == g \div im.num_gtes_per_gt
           gi == g % im.num_gtes_per_gt
           prim == PrimaryGt(im, gd)
           red == rgd_dir_entry(im, gd)
           size == im.virtual_disk_size
           gs == im.grain_size
<1>1. off \in Nat /\ off < size /\ size \in Nat /\ gs \in Nat \ {0}
  BY DEF Image
<1>2. g \in 0..(size - 1) /\ g * gs < size
  <2> DEFINE q == off \div gs
             r == off % gs
  <2>1. q \in Nat /\ r \in 0..(gs - 1) /\ off = q * gs + r
    BY <1>1, DivMod
  <2>2. q * gs \in Nat /\ q <= q * gs
    <3> HIDE DEF q, r, gs
    <3> QED
      BY <1>1, <2>1
  <2> HIDE DEF q, r, gs, size
  <2>3. q \in 0..(size - 1) /\ q * gs < size
    BY <1>1, <2>1, <2>2
  <2> QED
    BY <2>3 DEF GrainIdx, q, gs
<1>3. PICK p \in {im.file[a] : a \in 1..Len(im.file)} \cup {0} : WrittenAs(s, im, g, p)
  BY <1>2 DEF Written
<1>4. p \in Nat
  <2>1. im.file \in Seq(Nat)
    BY DEF Image
  <2>2. \A a \in 1..Len(im.file) : im.file[a] \in Nat
    BY <2>1
  <2> QED
    BY <2>2
<1>5. gd = GdIdx(im, off) /\ gi = GteIdx(im, off)
  BY DEF GdIdx, GteIdx
<1> DEFINE loc == grain_location(im, fb, << >>, off)
           loose == g \notin s.lost \cap s.gone \/ p > 1
<1>6. loose => LET d == Pointed(im, p, off)
               IN  /\ d.kind \in {"zero", "data"} => d.val = s.disk[off + 1]
                   /\ s.cut \/ d.kind \in {"zero", "data"}
  BY <1>3 DEF WrittenAs
<1>7. Pointed(im, p, off) = CellOf(im, PlaceOf(im, p, off))
  BY DEF Pointed, PlaceOf
<1>8. c = CellOf(im, loc)
  BY DEF CellAt
<1>9. loc \in {Location("Err", 0, 0, 0), PlaceOf(im, 0, off), PlaceOf(im, p, off)}
  <2>1. /\ usable(im, prim) => Entry(im, prim, gi) \in {0, 1, p}
        /\ usable(im, red) => Entry(im, red, gi) \in {0, 1, p}
    BY <1>3 DEF WrittenAs, Entry
  <2> QED
    BY <1>1, <1>4, <1>5, <2>1, PointerIsFollowed
<1>10. g \notin dead => loc = PlaceOf(im, p, off)
  <2>1. g \notin dead => \/ usable(im, prim) /\ Entry(im, prim, gi) = p
                         \/ prim = 0 /\ p <= 1
                         \/ fb /\ usable(im, red) /\ Entry(im, red, gi) = p
    BY <1>3 DEF WrittenAs, Entry
  <2>2. /\ usable(im, prim) => Entry(im, prim, gi) \in {0, 1, p}
        /\ usable(im, red) => Entry(im, red, gi) \in {0, 1, p}
    BY <1>3 DEF WrittenAs, Entry
  <2> QED
    BY <1>1, <1>4, <1>5, <2>1, <2>2, PointerIsFollowed
<1>11. g \notin dead => g \notin s.lost \cap s.gone
  OBVIOUS
<1>12. CellOf(im, Location("Err", 0, 0, 0)).kind = "err"
  BY DEF CellOf, Readable, Location
<1>13. CellOf(im, PlaceOf(im, 0, off)).val = 0
  <2>1. PlaceOf(im, 0, off) = Location("Sparse", 0, 0, 0)
    BY DEF PlaceOf
  <2>2. Contents(im, Location("Sparse", 0, 0, 0), 1) = [i \in 1..1 |-> 0]
    BY DEF Contents, Location
  <2>3. 1 \in 1..1
    OBVIOUS
  <2> QED
    BY <2>1, <2>2, <2>3 DEF CellOf
<1>14. p <= 1 => PlaceOf(im, p, off) = PlaceOf(im, 0, off)
  BY DEF PlaceOf
<1> HIDE DEF g, gd, gi, prim, red, loc
<1>15. CASE g \notin dead
  BY <1>6, <1>7, <1>8, <1>10, <1>11, <1>15 DEF g
<1>16. CASE g \in dead
  <2>1. CASE loc = Location("Err", 0, 0, 0)
    BY <1>8, <1>12, <1>16, <2>1 DEF g
  <2>2. CASE loc = PlaceOf(im, 0, off)
    BY <1>8, <1>13, <1>16, <2>2 DEF g
  <2>3. CASE loc = PlaceOf(im, p, off) /\ p > 1
    BY <1>6, <1>7, <1>8, <1>16, <2>3 DEF g
  <2>4. CASE loc = PlaceOf(im, p, off) /\ ~(p > 1)
    BY <1>4, <1>8, <1>13, <1>14, <1>16, <2>4 DEF g
  <2> QED
    BY <1>9, <2>1, <2>2, <2>3, <2>4
<1> QED
  BY <1>15, <1>16

\* An open reader has the image open makes of its file, which was written as
\* the promises assume; and the promises hold of the last answer.
Faithful ==
    /\ Opens(src) => Written(src)
    /\ st = "open" => Opens(src) /\ img = ImageOf(src)
    /\ ReadsAreStored
    /\ SurvivorsAreRead

\* What the view has at an offset is what was stored there.
LEMMA ViewIsStored ==
    ASSUME IInv, Faithful, st = "open", NEW off \in 0..(img.virtual_disk_size - 1)
    PROVE  /\ view[off].kind \in {"zero", "data"} =>
                  \/ view[off].val = src.disk[off + 1]
                  \/ view[off].val = 0 /\ GrainIdx(img, off) \in Dead
           /\ GrainIdx(img, off) \notin Dead /\ ~src.cut =>
                  view[off].kind \in {"zero", "data"}
<1>1. img \in Image /\ rgd_fallback \in BOOLEAN /\ Written(src) /\ img = ImageOf(src)
  BY DEF IInv, TypeOK, Faithful
<1>2. view[off] = CellAt(img, rgd_fallback, off)
  BY DEF IInv, ViewCurrent, DiskOf
<1> QED
  BY <1>1, <1>2, WrittenCell DEF Dead

\* A run of the cells of the view is what was stored there.
LEMMA RunIsStored ==
    ASSUME IInv, Faithful, st = "open", NEW a \in Nat, NEW n \in Nat,
           \A i \in 0..(n - 1) : Disk!Has(a + i),
           NEW d, d = Disk!Run(a, n)
    PROVE  \A i \in 1..n :
               d[i] = src.disk[a + i] \/ (d[i] = 0 /\ GrainIdx(img, a + i - 1) \in Dead)
<1> SUFFICES ASSUME NEW i \in 1..n
             PROVE  \/ d[i] = src.disk[a + i]
                    \/ d[i] = 0 /\ GrainIdx(img, a + i - 1) \in Dead
  OBVIOUS
<1>1. i - 1 \in 0..(n - 1) /\ a + (i - 1) = a + i - 1 /\ a + i - 1 \in Nat
      /\ (a + i - 1) + 1 = a + i
  OBVIOUS
<1>2. Disk!Has(a + i - 1)
  BY <1>1
<1>3. a + i - 1 < img.virtual_disk_size /\ view[a + i - 1].kind \in {"zero", "data"}
  BY <1>2 DEF Disk!Has
<1>4. a + i - 1 \in 0..(img.virtual_disk_size - 1)
  BY <1>1, <1>3 DEF IInv, TypeOK, Image
<1>5. d[i] = view[a + i - 1].val
  BY DEF Disk!Run
<1> QED
  BY <1>1, <1>3, <1>4, <1>5, ViewIsStored

\* A read returns what was stored, and is not refused what survived.
LEMMA ReadIsFaithful ==
    ASSUME IInv, Faithful, NEW len \in Lengths, Read(len)
    PROVE  ReadsAreStored' /\ SurvivorsAreRead'
<1>1. /\ st = "open" /\ len \in Nat /\ pos \in Nat /\ TypeOK /\ CacheCoherent
      /\ img.virtual_disk_size \in Nat /\ UNCHANGED <<src, img, rgd_fallback>>
  BY ReaderAssumption, HeaderAssumption DEF Read, Idle, IInv, TypeOK, Image
<1>2. PICK o \in ReadOutcomes(len) : out' = Answer("read", o.ok, pos, len, o.data, {})
  BY DEF Read
<1>3. /\ out'.op = "read" /\ (out'.ok <=> o.ok) /\ out'.at = pos /\ out'.arg = len
      /\ out'.data = o.data
  BY <1>2 DEF Answer
<1>4. Dead' = Dead
  BY <1>1 DEF Dead
<1>5. o.data \in Seq(Nat)
  BY <1>1, OutcomeType
<1>6. o.ok => Len(o.data) \in Disk!Runs(pos, len) /\ o.data = Disk!Run(pos, Len(o.data))
  BY <1>1, OutcomeIsRun
<1>7. ReadsAreStored'
  <2> SUFFICES ASSUME o.ok, NEW i \in 1..Len(o.data)
               PROVE  \/ o.data[i] = src.disk[pos + i]
                      \/ o.data[i] = 0 /\ GrainIdx(img, pos + i - 1) \in Dead
    BY <1>1, <1>3, <1>4 DEF ReadsAreStored
  <2>1. Len(o.data) \in Nat /\ \A k \in 0..(Len(o.data) - 1) : Disk!Has(pos + k)
    BY <1>5, <1>6 DEF Disk!Runs
  <2> QED
    BY <1>1, <1>6, <2>1, RunIsStored
<1>8. SurvivorsAreRead'
  <2> SUFFICES ASSUME src.fails = {}, ~src.cut, pos < img.virtual_disk_size,
                      GrainIdx(img, pos) \notin Dead
               PROVE  o.ok /\ (len > 0 => o.data # << >>)
    BY <1>1, <1>3, <1>4 DEF SurvivorsAreRead
  <2>1. pos \in 0..(img.virtual_disk_size - 1)
    BY <1>1
  <2>2. view[pos].kind \in {"zero", "data"}
    BY <1>1, <2>1, ViewIsStored
  <2>3. view[pos] = CellAt(img, rgd_fallback, pos)
    BY <1>1, <2>1 DEF IInv, ViewCurrent, DiskOf
  <2>4. Readable(img, Here)
    BY <1>1, <2>2, <2>3, HereUncached DEF CellAt, CellOf
  <2>5. FaultOutcomes = {}
    BY DEF FaultOutcomes
  <2>6. o.ok
    BY <2>4, <2>5 DEF ReadOutcomes, Outcome
  <2>7. ~Disk!Stops(pos)
    BY <1>1, <2>2 DEF Disk!Stops
  <2>8. Len(o.data) = 0 => len = 0
    BY <1>6, <2>6, <2>7 DEF Disk!Runs
  <2>9. o.data = << >> => Len(o.data) = 0
    OBVIOUS
  <2> QED
    BY <2>6, <2>8, <2>9
<1> QED
  BY <1>7, <1>8

\* A finished hash has fed what was stored.
LEMMA HashIsFaithful ==
    ASSUME IInv, FedIsRun, Faithful, HashStep
    PROVE  ReadsAreStored' /\ SurvivorsAreRead'
<1>1. /\ st = "open" /\ HASH_BUF \in Nat /\ job \in Jobs /\ TypeOK /\ CacheCoherent
      /\ job.on /\ UNCHANGED <<src, img, rgd_fallback>>
  BY ReaderAssumption, HeaderAssumption DEF HashStep, IInv, TypeOK, Jobs
<1>2. PICK o \in ReadOutcomes(HASH_BUF) :
         \/ /\ HashEnds(o)
            /\ out' = Answer("hash", o.ok, job.from, 0,
                             IF o.ok THEN job.fed \o o.data ELSE << >>, {})
         \/ out' = out
  BY DEF HashStep
<1>3. Dead' = Dead
  BY <1>1 DEF Dead
<1>4. CASE out' = out
  BY <1>1, <1>3, <1>4 DEF Faithful, ReadsAreStored, SurvivorsAreRead, GrainIdx
<1>5. CASE /\ HashEnds(o)
           /\ out' = Answer("hash", o.ok, job.from, 0,
                            IF o.ok THEN job.fed \o o.data ELSE << >>, {})
  <2>1. out'.op = "hash" /\ (out'.ok <=> o.ok) /\ out'.at = job.from
    BY <1>5 DEF Answer
  <2>2. SurvivorsAreRead'
    BY <2>1 DEF SurvivorsAreRead
  <2>3. CASE ~o.ok
    BY <2>1, <2>2, <2>3 DEF ReadsAreStored
  <2>4. CASE o.ok
    <3>1. o.data \in Seq(Nat) /\ job.fed \in Seq(Nat) /\ Len(o.data) = 0
      BY <1>1, <1>5, <2>4, OutcomeType DEF HashEnds, Jobs
    <3>2. o.data = << >>
      BY <3>1
    <3>3. job.fed \o o.data = job.fed
      BY <3>1, <3>2
    <3>4. out'.data = job.fed
      BY <1>5, <2>4, <3>3 DEF Answer
    <3> SUFFICES ASSUME NEW i \in 1..Len(job.fed)
                 PROVE  \/ job.fed[i] = src.disk[job.from + i]
                        \/ job.fed[i] = 0 /\ GrainIdx(img, job.from + i - 1) \in Dead
      BY <1>1, <1>3, <2>1, <2>2, <3>4 DEF ReadsAreStored
    <3> DEFINE n == Len(job.fed)
    <3>5. n \in Nat /\ job.from \in Nat
      BY <1>1, <3>1 DEF Jobs
    <3>6. (\A k \in 0..(n - 1) : Disk!Has(job.from + k)) /\ job.fed = Disk!Run(job.from, n)
      BY <1>1 DEF FedIsRun
    <3> HIDE DEF n
    <3>7. i \in 1..n
      BY DEF n
    <3> QED
      BY <1>1, <3>5, <3>6, <3>7, RunIsStored
  <2> QED
    BY <2>3, <2>4
<1> QED
  BY <1>2, <1>4, <1>5

\* Every step keeps the promises.
LEMMA NextFaithful ==
    IInv /\ Untouched /\ FedIsRun /\ Faithful /\ [Next]_vars => Faithful'
<1> SUFFICES ASSUME IInv, Untouched, FedIsRun, Faithful, [Next]_vars PROVE Faithful'
  OBVIOUS
<1>1. src' = src
  BY DEF Next, vars, Open, Read, HashStart, HashStep, Seek, SeekTo, enable_rgd_fallback,
         is_allocated, iter_allocated_grains
<1>2. Opens(src') => Written(src')
  BY <1>1 DEF Faithful
<1>3. st' = "open" => Opens(src') /\ img' = ImageOf(src')
  <2>1. CASE Open
    BY <1>1, <2>1 DEF Open, ImageOf
  <2>2. CASE UNCHANGED <<st, img>>
    BY <1>1, <2>2 DEF Faithful
  <2>3. Open \/ UNCHANGED <<st, img>>
    BY DEF Next, vars, Read, HashStart, HashStep, Seek, SeekTo, enable_rgd_fallback,
           is_allocated, iter_allocated_grains
  <2> QED
    BY <2>1, <2>2, <2>3
<1>4. ReadsAreStored' /\ SurvivorsAreRead'
  <2>1. CASE out'.op \notin {"read", "hash"}
    BY <2>1 DEF ReadsAreStored, SurvivorsAreRead
  <2>2. CASE Open
    BY <2>1, <2>2 DEF Open, Untouched, NoAnswer, Answer
  <2>3. ASSUME NEW len \in Lengths, Read(len) PROVE ReadsAreStored' /\ SurvivorsAreRead'
    BY <2>3, ReadIsFaithful
  <2>4. CASE HashStart
    BY <2>1, <2>4 DEF HashStart, NoAnswer, Answer
  <2>5. CASE HashStep
    BY <2>5, HashIsFaithful
  <2>6. CASE Seek
    BY <2>1, <2>6 DEF Seek, SeekTo, Answer
  <2>7. CASE enable_rgd_fallback
    BY <2>1, <2>7 DEF enable_rgd_fallback, NoAnswer, Answer
  <2>8. ASSUME NEW lba, is_allocated(lba) PROVE ReadsAreStored' /\ SurvivorsAreRead'
    BY <2>1, <2>8 DEF is_allocated, Answer
  <2>9. CASE iter_allocated_grains
    BY <2>1, <2>9 DEF iter_allocated_grains, Answer
  <2>10. CASE UNCHANGED vars
    BY <2>10 DEF vars, Faithful, ReadsAreStored, SurvivorsAreRead, Dead, GrainIdx
  <2> QED
    BY <2>2, <2>3, <2>4, <2>5, <2>6, <2>7, <2>8, <2>9, <2>10 DEF Next
<1> QED
  BY <1>2, <1>3, <1>4 DEF Faithful

\* On a file written as Written says, the promises hold in every state.
LEMMA Promised == Spec /\ (Opens(src) => Written(src)) => []Faithful
<1>1. Init /\ (Opens(src) => Written(src)) => Faithful
  BY DEF Init, Faithful, ReadsAreStored, SurvivorsAreRead, NoAnswer, Answer
<1> QED
  BY <1>1, NextFaithful, Invariance, Refined, PTL DEF Spec

\* Whatever the layout, damage, mode and faults, the cells a read or a hash
\* returns are the ones stored, or zeros where the pointers are lost.
THEOREM StoredIsRead == Spec /\ (Opens(src) => Written(src)) => []ReadsAreStored
<1>1. Faithful => ReadsAreStored
  BY DEF Faithful
<1> QED
  BY <1>1, Promised, PTL

\* One intact copy of a grain's pointers is enough for a read with recovery on,
\* and the primary copy for one without, after any sequence of calls.
THEOREM SurvivorsRead == Spec /\ (Opens(src) => Written(src)) => []SurvivorsAreRead
<1>1. Faithful => SurvivorsAreRead
  BY DEF Faithful
<1> QED
  BY <1>1, Promised, PTL
=============================================================================
