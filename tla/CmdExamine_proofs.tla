------------------------- MODULE CmdExamine_proofs --------------------------
(***************************************************************************)
(* Safety of the commands that judge an image, for every set of images and *)
(* command lines: what they print and how they exit is true of the disk    *)
(* the reader returns.                                                     *)
(***************************************************************************)
EXTENDS CmdExamine, Image_proofs

----------------------------------------------------------------------------
(* The view of an opened image.                                            *)

\* An image a command can have opened.
Opened(s) == s \in Sources /\ (Opens(s) \/ SeOpens(s))

\* Which parser has opened it, and with what types.
LEMMA OpenedBy ==
    ASSUME NEW s, Opened(s)
    PROVE  /\ IsSource(s) /\ IsSeSource(s)
           /\ s.se.magic => SeOpens(s) /\ ReaderImage(s) = SeImage(s)
           /\ ~s.se.magic =>
                 /\ Opens(s)
                 /\ ReaderImage(s) \in Image
                 /\ ReaderImage(s) = IF s.hdr.magic = "COWD" THEN CowdImage(s) ELSE Vmdk4Image(s)
<1>1. /\ s \in Source /\ 2 * Len(s.file) <= U64_MAX
      /\ s.se.magic => s.hdr.magic = "other"
  BY ExamineAssumption DEF Opened
<1>2. /\ s.hdr \in HeaderFields /\ s.footer \in HeaderFields /\ s.file \in Seq(Nat)
      /\ s.se \in SeHeader
  BY <1>1 DEF Source
<1>3. IsSource(s) /\ IsSeSource(s)
  BY <1>1, <1>2 DEF IsSource, IsSeSource
<1>4. CASE s.se.magic
  <2>1. ~Opens(s)
    BY <1>1, <1>4 DEF Opens, Vmdk4Opens, CowdOpens, HeaderParses
  <2> QED
    BY <1>3, <1>4, <2>1 DEF Opened, ReaderImage
<1>5. CASE ~s.se.magic
  <2>1. Opens(s)
    BY <1>5 DEF Opened, SeOpens, SeHeaderParses
  <2>2. ReaderImage(s) = IF s.hdr.magic = "COWD" THEN CowdImage(s) ELSE Vmdk4Image(s)
    BY <1>5 DEF ReaderImage
  <2>3. ReaderImage(s) \in Image
    BY <1>2, <2>1, <2>2, OpenImage
  <2> QED
    BY <1>3, <1>5, <2>1, <2>2, <2>3
<1> QED
  BY <1>4, <1>5

\* Every cell of a VMDK4 or COWD disk has its type.
LEMMA CellType ==
    ASSUME NEW im \in Image, NEW fb \in BOOLEAN, NEW off \in Nat
    PROVE  CellAt(im, fb, off) \in Cell
<1> DEFINE loc == grain_location(im, fb, << >>, off)
           n == Available(im, loc, 1)
<1>1. CellAt(im, fb, off) = CellOf(im, loc)
  BY DEF CellAt
<1>2. CASE ~Readable(im, loc)
  BY <1>1, <1>2 DEF CellOf, Cell
<1>3. CASE Readable(im, loc)
  <2>1. n \in 0..1 /\ \A k \in 0..n : Contents(im, loc, k) \in Seq(Nat) /\ Len(Contents(im, loc, k)) = k
    BY <1>3, ContentsType
  <2> HIDE DEF loc
  <2>2. CASE n = 0
    BY <1>1, <1>3, <2>2 DEF CellOf, Cell
  <2>3. CASE n # 0
    <3>1. n = 1
      BY <2>1, <2>3
    <3>2. Contents(im, loc, 1)[1] \in Nat
      BY <2>1, <3>1
    <3> DEFINE kind == IF loc.kind = "Sparse" THEN "zero" ELSE "data"
               val == Contents(im, loc, 1)[1]
    <3>3. CellOf(im, loc) = [kind |-> kind, val |-> val]
      BY <1>3, <2>3 DEF CellOf
    <3>4. kind \in {"zero", "data", "end", "err"} /\ val \in Nat
      BY <3>2
    <3> HIDE DEF kind, val
    <3> QED
      BY <1>1, <3>3, <3>4 DEF Cell
  <2> QED
    BY <2>2, <2>3
<1> QED
  BY <1>2, <1>3

\* Every cell of a seSparse disk has its type.
LEMMA SeCellType ==
    ASSUME NEW s, IsSeSource(s), SeOpens(s), NEW im, im = SeImage(s), NEW off \in Nat
    PROVE  CellOf(im, se_grain_location(im, off)) \in Cell
<1> DEFINE loc == se_grain_location(im, off)
           gte == SeGte(im, off)
           at == SeGrainAt(im, gte, off)
<1>1. im.file \in Seq(Nat)
  BY SeImageOpens
<1>2. CASE loc = Location("Sparse", 0, 0, 0)
  <2> HIDE DEF loc
  <2>1. loc.kind = "Sparse"
    BY <1>2 DEF Location
  <2>2. Readable(im, loc) /\ Available(im, loc, 1) = 1 /\ Contents(im, loc, 1)[1] = 0
    BY <2>1 DEF Readable, Available, Contents
  <2>3. CellOf(im, loc) = [kind |-> "zero", val |-> 0]
    BY <2>1, <2>2 DEF CellOf
  <2> QED
    BY <2>3 DEF Cell, loc
<1>3. CASE loc = Location("Err", 0, 0, 0)
  <2> HIDE DEF loc
  <2>1. ~Readable(im, loc)
    BY <1>3 DEF Location, Readable
  <2>2. CellOf(im, loc) = [kind |-> "err", val |-> 0]
    BY <2>1 DEF CellOf
  <2> QED
    BY <2>2 DEF Cell, loc
<1>4. CASE SeGteReads(im, off) /\ loc = Location("FileOffset", at, 0, 0)
  <2>1. at \in Nat
    BY <1>4, SeAddressType
  <2> HIDE DEF loc, at
  <2>2. loc.kind = "FileOffset" /\ loc.offset = at
    BY <1>4 DEF Location
  <2>3. Readable(im, loc)
    BY <2>2 DEF Readable
  <2>4. CASE at < Len(im.file)
    <3>1. Available(im, loc, 1) = Min2(1, Len(im.file) - at)
      BY <2>2, <2>4 DEF Available
    <3>2. Available(im, loc, 1) # 0
      BY <1>1, <2>1, <2>4, <3>1 DEF Min2
    <3>3. Contents(im, loc, 1)[1] = im.file[at + 1]
      BY <2>2 DEF Contents, Cells
    <3> DEFINE val == im.file[at + 1]
    <3>4. CellOf(im, loc) = [kind |-> "data", val |-> val]
      BY <2>2, <2>3, <3>2, <3>3 DEF CellOf
    <3>5. val \in Nat
      BY <1>1, <2>1, <2>4
    <3> HIDE DEF val
    <3> QED
      BY <3>4, <3>5 DEF Cell, loc
  <2>5. CASE ~(at < Len(im.file))
    <3>1. Available(im, loc, 1) = 0
      BY <2>2, <2>5 DEF Available
    <3>2. CellOf(im, loc) = [kind |-> "end", val |-> 0]
      BY <2>3, <3>1 DEF CellOf
    <3> QED
      BY <3>2 DEF Cell, loc
  <2> QED
    BY <2>4, <2>5
<1>5. \/ loc = Location("Sparse", 0, 0, 0) \/ loc = Location("Err", 0, 0, 0)
      \/ SeGteReads(im, off) /\ loc = Location("FileOffset", at, 0, 0)
  BY DEF se_grain_location
<1> QED
  BY <1>2, <1>3, <1>4, <1>5

\* The view of an opened image is one.
LEMMA ViewType ==
    ASSUME NEW s, Opened(s), NEW fb \in BOOLEAN
    PROVE  IsView(ViewOf(s, fb))
<1> DEFINE im == ReaderImage(s)
           v == ViewOf(s, fb)
           cells == IF s.se.magic THEN SeDiskOf(im) ELSE DiskOf(im, fb)
<1>1. /\ v.size = im.virtual_disk_size /\ v.cells = cells
      /\ v.ends = {e \in 1..im.virtual_disk_size : e % im.grain_size = 0}
  BY DEF ViewOf
<1>2. CASE s.se.magic
  <2>1. IsSeSource(s) /\ SeOpens(s) /\ im = SeImage(s)
    BY <1>2, OpenedBy
  <2>2. im.virtual_disk_size \in Nat
    BY <2>1, SeImageOpens
  <2> HIDE DEF im
  <2>3. \A off \in 0..(im.virtual_disk_size - 1) : CellOf(im, se_grain_location(im, off)) \in Cell
    BY <2>1, <2>2, SeCellType
  <2>4. cells \in [0..(im.virtual_disk_size - 1) -> Cell]
    BY <1>2, <2>3 DEF SeDiskOf
  <2> HIDE DEF cells, v
  <2> QED
    BY <1>1, <2>2, <2>4 DEF IsView, v
<1>3. CASE ~s.se.magic
  <2>1. im \in Image
    BY <1>3, OpenedBy
  <2>2. im.virtual_disk_size \in Nat
    BY <2>1 DEF Image
  <2> HIDE DEF im
  <2>3. \A off \in 0..(im.virtual_disk_size - 1) : CellAt(im, fb, off) \in Cell
    BY <2>1, <2>2, CellType
  <2>4. cells \in [0..(im.virtual_disk_size - 1) -> Cell]
    BY <1>3, <2>3 DEF DiskOf
  <2> HIDE DEF cells, v
  <2> QED
    BY <1>1, <2>2, <2>4 DEF IsView, v
<1> QED
  BY <1>2, <1>3

----------------------------------------------------------------------------
(* The inductive invariant.                                                *)

\* Each step belongs to its command.
Routed ==
    /\ st \in {"rgd", "scan", "check"} => arg.cmd = "verify"
    /\ st \in {"analyse", "render"} => arg.cmd = "examine"
    /\ st = "hash" => arg.cmd \in {"hash", "examine"}
    /\ st = "map" => arg.cmd = "map"
    /\ st = "info" => arg.cmd = "info"
    /\ st = "descriptor" => arg.cmd = "descriptor"
    /\ st = "chain" => arg.cmd = "chain"

\* A command that has not failed is looking at the image it opened.
Viewed ==
    /\ st = "start" => view = NoView
    /\ st \notin {"start", "failed"} => Opened(src) /\ view = ViewOf(src, arg.recover)

\* What verify has said and kept of the redundant directory.
Reported ==
    /\ recovery \in {NoRecoveryReport, grain_directory_recovery(src)}
    /\ rgd = "matches" => validate_rgd(src)
    /\ rgd = "differs" => /\ grain_directory_recovery(src).has_rgd
                          /\ grain_directory_recovery(src).primary_damaged = 0
    /\ (arg.cmd = "verify" /\ st \in {"check", "success"} /\ ~src.fails /\ ~ScanErr(src))
           => scan = "ok"

\* What a command that has not failed has found.
Passed ==
    /\ (st = "success" /\ arg.cmd = "verify")
           => is_ok(check_integrity(src)) \/ ResolvedByRgd(check_integrity(src))
    /\ (arg.cmd = "examine" /\ st \in {"hash", "render", "success"} /\ ~failed)
           => findings = analyse(src) /\ \A k \in findings : severity(k) # "High"
    /\ (arg.cmd = "examine" /\ st = "success") => ~failed
    /\ verdict # "none" => st \in {"success", "failed"}
    /\ TextAgrees

\* The loop of hash has digested the disk up to the cursor, and a fingerprint
\* is printed where a read returns nothing.
Fed ==
    /\ fed = [i \in 1..pos |-> view.cells[i - 1].val]
    /\ (arg.cmd = "examine" /\ arg.fingerprint /\ st \in {"render", "success"} /\ ~failed)
           => digest = fed /\ ReadData(view, pos, HASH_BUF) = << >>

IInv == TypeOK /\ Routed /\ Viewed /\ Reported /\ Passed /\ Fed

\* Initially.
LEMMA InitIInv == Init => IInv
<1> SUFFICES ASSUME Init PROVE IInv
  OBVIOUS
<1>1. IsView(NoView)
  <2>1. NoView.size = 0 /\ NoView.cells = << >> /\ NoView.ends = {}
    BY DEF NoView
  <2>2. 0..(0 - 1) = {} /\ << >> \in [{} -> Cell]
    OBVIOUS
  <2> QED
    BY <2>1, <2>2 DEF IsView
<1>2. NoView.size = 0
  BY DEF NoView
<1>3. << >> = [i \in 1..0 |-> NoView.cells[i - 1].val] /\ Len(<< >>) = 0
  OBVIOUS
<1>4. TypeOK
  <2>1. IsView(view) /\ pos \in Nat /\ pos <= view.size /\ Len(fed) = pos
    BY <1>1, <1>2, <1>3 DEF Init
  <2>2. failed \in BOOLEAN /\ analyse_err \in BOOLEAN /\ findings \subseteq AnomalyKind
    BY DEF Init
  <2> QED
    BY <2>1, <2>2 DEF Init, TypeOK
<1>5. Fed
  BY <1>3 DEF Init, Fed
<1>6. Routed /\ Viewed /\ Reported /\ Passed
  BY DEF Init, Routed, Viewed, Reported, Passed, TextAgrees
<1> QED
  BY <1>4, <1>5, <1>6 DEF IInv

\* What holds of a step that leaves the hash loop alone.
LEMMA FedKept ==
    ASSUME IInv, UNCHANGED <<src, arg, view, pos, fed, digest>>,
           st' \in {"render", "success"} =>
               arg.cmd # "examine" \/ ~arg.fingerprint \/ failed' \/
               (st \in {"render", "success"} /\ ~failed)
    PROVE  Fed'
BY DEF IInv, Fed

LEMMA MapStep == IInv /\ CmdMap => IInv'
<1> SUFFICES ASSUME IInv, CmdMap PROVE IInv'
  OBVIOUS
<1>1. /\ st = "map" /\ arg.cmd = "map" /\ scan' \in {"ok", "error"} /\ st' \in {"success", "failed"}
      /\ UNCHANGED <<src, arg, view, recovery, rgd, findings, failed, analyse_err, pos, fed, digest, verdict>>
  BY DEF CmdMap, ScanResults, IInv, Routed
<1>2. TypeOK'
  BY <1>1 DEF IInv, TypeOK
<1>3. Fed'
  BY <1>1, FedKept
<1>4. Routed' /\ Viewed'
  BY <1>1 DEF IInv, Routed, Viewed
<1>5. Reported'
  BY <1>1 DEF IInv, Reported
<1>6. Passed'
  BY <1>1 DEF IInv, Passed, TextAgrees
<1> QED
  BY <1>2, <1>3, <1>4, <1>5, <1>6 DEF IInv

\* Opening leaves the rest as it was.
LEMMA OpenStep == IInv /\ Open => IInv'
<1> SUFFICES ASSUME IInv, Open PROVE IInv'
  OBVIOUS
<1>1. /\ st = "start" /\ view = NoView
      /\ UNCHANGED <<src, arg, recovery, rgd, scan, findings, failed, analyse_err, pos, fed,
                     digest, verdict>>
      /\ src \in Sources /\ arg \in Args
  BY DEF Open, IInv, Viewed, TypeOK
<1>2. pos = 0 /\ NoView.size = 0
  <2>1. NoView.size = 0
    BY DEF NoView
  <2> QED
    BY <1>1, <2>1 DEF IInv, TypeOK
<1>3. verdict = "none"
  BY <1>1 DEF IInv, Passed
<1>4. arg.cmd \in {"examine", "verify", "hash", "map", "info", "descriptor", "chain"}
      /\ arg.recover \in BOOLEAN
  BY <1>1, ExamineAssumption DEF Arg
<1>5. CASE st' = "failed" /\ UNCHANGED view
  <2>1. TypeOK'
    BY <1>1, <1>5 DEF IInv, TypeOK
  <2>2. Fed'
    BY <1>1, <1>5, FedKept
  <2>3. Routed' /\ Viewed'
    BY <1>5 DEF Routed, Viewed
  <2>4. Reported'
    BY <1>1, <1>5 DEF IInv, Reported
  <2>5. Passed'
    BY <1>1, <1>3, <1>5 DEF Passed, TextAgrees
  <2> QED
    BY <2>1, <2>2, <2>3, <2>4, <2>5 DEF IInv
<1>6. CASE /\ Opens(src) \/ SeOpens(src)
           /\ st' = FirstStep[arg.cmd]
           /\ view' = ViewOf(src, arg.recover)
  <2>1. Opened(src)
    BY <1>1, <1>6 DEF Opened
  <2>2. \/ arg.cmd = "examine" /\ st' = "analyse"
        \/ arg.cmd = "verify" /\ st' = "rgd"
        \/ arg.cmd = "hash" /\ st' = "hash"
        \/ arg.cmd = "map" /\ st' = "map"
        \/ arg.cmd = "info" /\ st' = "info"
        \/ arg.cmd = "descriptor" /\ st' = "descriptor"
        \/ arg.cmd = "chain" /\ st' = "chain"
    BY <1>4, <1>6 DEF FirstStep
  <2>3. IsView(view')
    BY <1>4, <1>6, <2>1, ViewType
  <2>4. TypeOK'
    <3>1. view'.size \in Nat
      BY <2>3 DEF IsView
    <3>2. pos' \in Nat /\ pos' <= view'.size /\ Len(fed') = pos'
      BY <1>1, <1>2, <3>1 DEF IInv, TypeOK
    <3>3. IsView(view)'
      BY <2>3 DEF IsView, Cell
    <3> QED
      BY <1>1, <2>2, <3>2, <3>3 DEF IInv, TypeOK
  <2>5. Fed'
    <3>1. fed' = << >> /\ pos' = 0
      BY <1>1, <1>2 DEF IInv, Fed
    <3>2. << >> = [i \in 1..0 |-> view'.cells[i - 1].val]
      OBVIOUS
    <3> QED
      BY <2>2, <3>1, <3>2 DEF Fed
  <2>6. Routed'
    BY <1>1, <2>2 DEF Routed
  <2>7. Viewed'
    BY <1>1, <1>6, <2>1, <2>2 DEF Viewed
  <2>8. Reported'
    BY <1>1, <2>2 DEF IInv, Reported
  <2>9. Passed'
    BY <1>1, <1>3, <2>2 DEF Passed, TextAgrees
  <2> QED
    BY <2>4, <2>5, <2>6, <2>7, <2>8, <2>9 DEF IInv
<1> QED
  BY <1>5, <1>6 DEF Open

\* What verify says of the redundant directory is what the analysis found.
LEMMA VerifyRgdStep == IInv /\ VerifyRgd => IInv'
<1> SUFFICES ASSUME IInv, VerifyRgd PROVE IInv'
  OBVIOUS
<1>1. /\ st = "rgd" /\ arg.cmd = "verify" /\ st' \in {"scan", "failed"} /\ verdict = "none"
      /\ UNCHANGED <<src, arg, view, scan, findings, failed, analyse_err, pos, fed, digest,
                     verdict>>
  BY DEF VerifyRgd, IInv, Routed, Passed
<1> DEFINE line(rec) == rgd_status_line(validate_rgd(src), rec)
<1>2. \/ /\ recovery' \in {NoRecoveryReport, grain_directory_recovery(src)}
         /\ rgd' \in {line(recovery'), "error"}
      \/ UNCHANGED <<recovery, rgd>>
  BY DEF VerifyRgd
<1>3. line(NoRecoveryReport) = "absent"
  BY DEF rgd_status_line, NoRecoveryReport, GdRecoveryReport
<1>4. /\ line(grain_directory_recovery(src)) \in {"absent", "matches", "differs", "damaged"}
      /\ line(grain_directory_recovery(src)) = "matches" => validate_rgd(src)
      /\ line(grain_directory_recovery(src)) = "differs" =>
             /\ grain_directory_recovery(src).has_rgd
             /\ grain_directory_recovery(src).primary_damaged = 0
  BY DEF rgd_status_line
<1> HIDE DEF line
<1>5. TypeOK'
  <2>1. rgd' \in {"none", "absent", "matches", "differs", "damaged", "error"}
    BY <1>2, <1>3, <1>4 DEF IInv, TypeOK
  <2> QED
    BY <1>1, <2>1 DEF IInv, TypeOK
<1>6. Fed'
  BY <1>1, FedKept
<1>7. Routed' /\ Viewed'
  BY <1>1 DEF IInv, Routed, Viewed
<1>8. Reported'
  BY <1>1, <1>2, <1>3, <1>4 DEF IInv, Reported
<1>9. Passed'
  BY <1>1 DEF Passed, TextAgrees
<1> QED
  BY <1>5, <1>6, <1>7, <1>8, <1>9 DEF IInv

\* The scan is kept as it ended.
LEMMA VerifyScanStep == IInv /\ VerifyScan => IInv'
<1> SUFFICES ASSUME IInv, VerifyScan PROVE IInv'
  OBVIOUS
<1>1. /\ st = "scan" /\ arg.cmd = "verify" /\ st' = "check" /\ verdict = "none"
      /\ scan' \in {"ok", "error"}
      /\ ~src.fails /\ ~ScanErr(src) => scan' = "ok"
      /\ UNCHANGED <<src, arg, view, recovery, rgd, findings, failed, analyse_err, pos, fed,
                     digest, verdict>>
  BY DEF VerifyScan, ScanResults, IInv, Routed, Passed
<1>2. TypeOK'
  BY <1>1 DEF IInv, TypeOK
<1>3. Fed'
  BY <1>1, FedKept
<1>4. Routed' /\ Viewed'
  BY <1>1 DEF IInv, Routed, Viewed
<1>5. Reported'
  <2>1. ScanErr(src)' = ScanErr(src)
    BY <1>1 DEF ScanErr
  <2> QED
    BY <1>1, <2>1 DEF IInv, Reported
<1>6. Passed'
  BY <1>1 DEF Passed, TextAgrees
<1> QED
  BY <1>2, <1>3, <1>4, <1>5, <1>6 DEF IInv

\* verify passes where the check is clean, or forgiven.
LEMMA VerifyCheckStep == IInv /\ VerifyCheck => IInv'
<1> SUFFICES ASSUME IInv, VerifyCheck PROVE IInv'
  OBVIOUS
<1> DEFINE r == check_integrity(src)
<1>1. /\ st = "check" /\ arg.cmd = "verify" /\ st' \in {"success", "failed"}
      /\ verdict' \in {"ok", "recovered", "fail", "error"}
      /\ st' = "success" <=> verdict' \in {"ok", "recovered"}
      /\ verdict' = "ok" => is_ok(r)
      /\ verdict' = "recovered" => ResolvedByRgd(r)
      /\ UNCHANGED <<src, arg, view, recovery, rgd, scan, findings, failed, analyse_err, pos,
                     fed, digest>>
  BY DEF VerifyCheck, IInv, Routed
<1>2. TypeOK'
  BY <1>1 DEF IInv, TypeOK
<1>3. Fed'
  BY <1>1, FedKept
<1>4. Routed' /\ Viewed'
  BY <1>1 DEF IInv, Routed, Viewed
<1>5. Reported'
  <2>1. ScanErr(src)' = ScanErr(src)
    BY <1>1 DEF ScanErr
  <2> QED
    BY <1>1, <2>1 DEF IInv, Reported
<1>6. Passed'
  <2>1. ResolvedByRgd(check_integrity(src))' = ResolvedByRgd(r)
    BY <1>1 DEF ResolvedByRgd
  <2>2. is_ok(check_integrity(src))' = is_ok(r)
    BY <1>1
  <2> QED
    BY <1>1, <2>1, <2>2 DEF Passed, TextAgrees
<1> QED
  BY <1>2, <1>3, <1>4, <1>5, <1>6 DEF IInv

\* A finding of high severity, and an analysis that does not complete, fail.
LEMMA AnalyseStep == IInv /\ Analyse => IInv'
<1> SUFFICES ASSUME IInv, Analyse PROVE IInv'
  OBVIOUS
<1>1. /\ st = "analyse" /\ arg.cmd = "examine" /\ verdict = "none"
      /\ st' \in {"hash", "render", "failed"}
      /\ st' = "render" => ~arg.fingerprint
      /\ UNCHANGED <<src, arg, view, recovery, rgd, scan, pos, fed, digest, verdict>>
  BY DEF Analyse, AfterAnalysis, IInv, Routed, Passed
<1>2. st' # "failed" =>
          failed' \/ (findings' = analyse(src) /\ \A k \in findings' : severity(k) # "High")
  BY <1>1 DEF Analyse
<1>3. findings' \subseteq AnomalyKind /\ failed' \in BOOLEAN /\ analyse_err' \in BOOLEAN
  <2>1. analyse(src) \subseteq AnomalyKind /\ {} \subseteq AnomalyKind
    BY DEF analyse
  <2> QED
    BY <2>1 DEF Analyse, IInv, TypeOK
<1>4. TypeOK'
  BY <1>1, <1>3 DEF IInv, TypeOK
<1>5. Fed'
  BY <1>1, FedKept
<1>6. Routed' /\ Viewed'
  BY <1>1 DEF IInv, Routed, Viewed
<1>7. Reported'
  BY <1>1 DEF IInv, Reported
<1>8. Passed'
  BY <1>1, <1>2 DEF Passed, TextAgrees
<1> QED
  BY <1>4, <1>5, <1>6, <1>7, <1>8 DEF IInv

\* A read of the loop extends what has been digested by the cells it returned.
LEMMA HashStepStep == IInv /\ HashStep => IInv'
<1> SUFFICES ASSUME IInv, HashStep PROVE IInv'
  OBVIOUS
<1> DEFINE data == ReadData(view, pos, HASH_BUF)
<1>1. /\ st = "hash" /\ arg.cmd \in {"hash", "examine"} /\ verdict = "none"
      /\ UNCHANGED <<src, arg, view, recovery, rgd, scan, findings, failed, analyse_err,
                     verdict>>
  BY DEF HashStep, IInv, Routed, Passed
<1>2. /\ IsView(view) /\ pos \in Nat /\ pos <= view.size /\ Len(fed) = pos
      /\ HASH_BUF \in Nat
  BY ExamineAssumption DEF IInv, TypeOK
<1>3. /\ data \in Seq(Nat) /\ Len(data) \in Nat /\ pos + Len(data) <= view.size
      /\ \A i \in 1..Len(data) : data[i] = view.cells[pos + i - 1].val
  BY <1>2, ReadReturns
<1>4. fed = [i \in 1..pos |-> view.cells[i - 1].val]
  BY DEF IInv, Fed
<1>5. CASE data = << >>
  <2>1. /\ digest' = fed /\ UNCHANGED <<pos, fed>>
        /\ st' = IF arg.cmd = "hash" THEN "success" ELSE "render"
    BY <1>5 DEF HashStep, HashEnds
  <2>2. TypeOK'
    BY <1>1, <2>1 DEF IInv, TypeOK
  <2>3. Fed'
    BY <1>1, <1>4, <1>5, <2>1 DEF Fed
  <2>4. Routed' /\ Viewed'
    BY <1>1, <2>1 DEF IInv, Routed, Viewed
  <2>5. Reported'
    BY <1>1, <2>1 DEF IInv, Reported
  <2>6. Passed'
    BY <1>1, <2>1 DEF IInv, Passed, TextAgrees
  <2> QED
    BY <2>2, <2>3, <2>4, <2>5, <2>6 DEF IInv
<1>6. CASE data # << >>
  <2>1. fed' = fed \o data /\ pos' = pos + Len(data) /\ UNCHANGED <<digest, st>>
    BY <1>6 DEF HashStep, HashEnds, Digested
  <2> HIDE DEF data
  <2>2. \A i \in 1..pos : view.cells[i - 1].val \in Nat
    <3> SUFFICES ASSUME NEW i \in 1..pos PROVE view.cells[i - 1].val \in Nat
      OBVIOUS
    <3>1. i - 1 \in 0..(view.size - 1)
      BY <1>2 DEF IsView
    <3>2. view.cells[i - 1] \in Cell
      BY <1>2, <3>1 DEF IsView
    <3> QED
      BY <3>2 DEF Cell
  <2>3. fed \in Seq(Nat)
    <3>1. fed \in [1..pos -> Nat]
      BY <1>4, <2>2
    <3> QED
      BY <1>2, <3>1, FunctionIsSeq
  <2>4. /\ fed' \in Seq(Nat) /\ Len(fed') = pos' /\ pos' \in Nat /\ pos' <= view.size
        /\ DOMAIN fed' = 1..pos'
    <3>1. fed' \in Seq(Nat) /\ Len(fed') = Len(fed) + Len(data)
      BY <1>3, <2>1, <2>3
    <3>2. Len(fed') = pos' /\ pos' \in Nat
      BY <1>2, <1>3, <2>1, <3>1
    <3>3. DOMAIN fed' = 1..Len(fed')
      BY <3>1
    <3> QED
      BY <1>3, <2>1, <3>1, <3>2, <3>3
  <2>5. ASSUME NEW i \in 1..pos' PROVE fed'[i] = view.cells[i - 1].val
    <3>1. CASE i <= pos
      <4>1. i \in 1..pos
        BY <1>2, <3>1
      <4>2. fed'[i] = fed[i]
        BY <1>2, <1>3, <2>1, <2>3, <4>1
      <4> QED
        BY <1>4, <4>1, <4>2
    <3>2. CASE ~(i <= pos)
      <4>1. i - pos \in 1..Len(data) /\ pos + (i - pos) - 1 = i - 1
        BY <1>2, <1>3, <2>1, <3>2
      <4>2. fed'[i] = data[i - pos]
        BY <1>2, <1>3, <2>1, <2>3, <4>1
      <4> QED
        BY <1>3, <4>1, <4>2
    <3> QED
      BY <3>1, <3>2
  <2>6. fed' = [i \in 1..pos' |-> view.cells[i - 1].val]
    BY <2>4, <2>5
  <2>7. TypeOK'
    BY <1>1, <2>1, <2>4 DEF IInv, TypeOK
  <2>8. Fed'
    BY <1>1, <2>1, <2>6 DEF Fed
  <2>9. Routed' /\ Viewed'
    BY <1>1, <2>1 DEF IInv, Routed, Viewed
  <2>10. Reported'
    BY <1>1, <2>1 DEF IInv, Reported
  <2>11. Passed'
    BY <1>1, <2>1 DEF IInv, Passed, TextAgrees
  <2> QED
    BY <2>7, <2>8, <2>9, <2>10, <2>11 DEF IInv
<1> QED
  BY <1>5, <1>6

\* A read that fails fails the command, at once or once it has been rendered.
LEMMA HashFailsStep == IInv /\ HashFails => IInv'
<1> SUFFICES ASSUME IInv, HashFails PROVE IInv'
  OBVIOUS
<1>1. /\ st = "hash" /\ arg.cmd \in {"hash", "examine"} /\ verdict = "none"
      /\ failed' = TRUE /\ st' = IF arg.cmd = "hash" THEN "failed" ELSE "render"
      /\ UNCHANGED <<src, arg, view, recovery, rgd, scan, findings, analyse_err, pos, fed,
                     digest, verdict>>
  BY DEF HashFails, IInv, Routed, Passed
<1>2. TypeOK'
  BY <1>1 DEF IInv, TypeOK
<1>3. Fed'
  BY <1>1, FedKept
<1>4. Routed' /\ Viewed'
  BY <1>1 DEF IInv, Routed, Viewed
<1>5. Reported'
  BY <1>1 DEF IInv, Reported
<1>6. Passed'
  BY <1>1 DEF Passed, TextAgrees
<1> QED
  BY <1>2, <1>3, <1>4, <1>5, <1>6 DEF IInv

\* The line printed and the exit agree.
LEMMA RenderStep == IInv /\ Render => IInv'
<1> SUFFICES ASSUME IInv, Render PROVE IInv'
  OBVIOUS
<1>1. /\ st = "render" /\ arg.cmd = "examine"
      /\ verdict' = IntegrityLine /\ st' = IF failed THEN "failed" ELSE "success"
      /\ UNCHANGED <<src, arg, view, recovery, rgd, scan, findings, failed, analyse_err, pos,
                     fed, digest>>
  BY DEF Render, IInv, Routed
<1>2. verdict' \in {"none", "ok", "error", "findings"} /\ (verdict' = "ok" => ~failed)
  BY <1>1 DEF IntegrityLine
<1>3. TypeOK'
  BY <1>1, <1>2 DEF IInv, TypeOK
<1>4. Fed'
  BY <1>1 DEF IInv, Fed
<1>5. Routed' /\ Viewed'
  BY <1>1 DEF IInv, Routed, Viewed
<1>6. Reported'
  BY <1>1 DEF IInv, Reported
<1>7. Passed'
  BY <1>1, <1>2 DEF IInv, Passed, TextAgrees
<1> QED
  BY <1>3, <1>4, <1>5, <1>6, <1>7 DEF IInv

\* The views of info end where they are.
LEMMA InfoStep == IInv /\ (CmdInfo \/ print_descriptor \/ print_chain) => IInv'
<1> SUFFICES ASSUME IInv, CmdInfo \/ print_descriptor \/ print_chain PROVE IInv'
  OBVIOUS
<1>1. /\ st \in {"info", "descriptor", "chain"} /\ st' \in {"success", "failed"}
      /\ arg.cmd \in {"info", "descriptor", "chain"} /\ verdict = "none"
      /\ UNCHANGED <<src, arg, view, recovery, rgd, scan, findings, failed, analyse_err, pos,
                     fed, digest, verdict>>
  BY DEF CmdInfo, print_descriptor, print_chain, Ends, IInv, Routed, Passed
<1>2. TypeOK'
  BY <1>1 DEF IInv, TypeOK
<1>3. Fed'
  BY <1>1, FedKept
<1>4. Routed' /\ Viewed'
  BY <1>1 DEF IInv, Routed, Viewed
<1>5. Reported'
  BY <1>1 DEF IInv, Reported
<1>6. Passed'
  BY <1>1 DEF Passed, TextAgrees
<1> QED
  BY <1>2, <1>3, <1>4, <1>5, <1>6 DEF IInv

\* Every step preserves the invariant.
LEMMA NextIInv == IInv /\ [Next]_vars => IInv'
<1> SUFFICES ASSUME IInv, [Next]_vars PROVE IInv'
  OBVIOUS
<1>1. CASE UNCHANGED vars
  <2>1. TypeOK' /\ Routed' /\ Viewed'
    BY <1>1 DEF vars, IInv, TypeOK, Routed, Viewed
  <2>2. Reported'
    <3>1. ScanErr(src)' = ScanErr(src)
      BY <1>1 DEF vars, ScanErr
    <3> QED
      BY <1>1, <3>1 DEF vars, IInv, Reported
  <2>3. Passed'
    BY <1>1 DEF vars, IInv, Passed, TextAgrees, ResolvedByRgd
  <2>4. Fed'
    BY <1>1 DEF vars, IInv, Fed
  <2> QED
    BY <2>1, <2>2, <2>3, <2>4 DEF IInv
<1> QED
  BY <1>1, OpenStep, MapStep, VerifyRgdStep, VerifyScanStep, VerifyCheckStep, AnalyseStep,
     HashStepStep, HashFailsStep, RenderStep, InfoStep DEF Next

----------------------------------------------------------------------------
(* What the verdicts mean.                                                 *)

\* A judged image that opens is one both parsers have laid out.
LEMMA JudgedHasLayout ==
    ASSUME NEW s, Opened(s), Judged(s)
    PROVE  \/ /\ s.se.magic /\ SeOpens(s) /\ SePlain(s) /\ ReaderImage(s) = SeImage(s)
           \/ /\ ~s.se.magic /\ HasLayout(s) /\ s.hdr.compress = 0
              /\ ReaderImage(s) = Vmdk4Image(s)
<1>1. CASE s.se.magic
  <2>1. s.hdr.magic # "VMDK4"
    BY <1>1, ExamineAssumption DEF Opened
  <2> QED
    BY <1>1, <2>1, OpenedBy DEF Judged
<1>2. CASE ~s.se.magic
  <2>1. s.hdr.magic = "VMDK4" /\ s.hdr.compress = 0
    BY <1>2 DEF Judged
  <2>2. Opens(s) /\ ReaderImage(s) = Vmdk4Image(s)
    BY <1>2, <2>1, OpenedBy
  <2>3. Vmdk4Opens(s) /\ InFile(s, 0, SECTOR_SIZE)
    BY <2>1, <2>2 DEF Opens, CowdOpens
  <2>4. Len(s.file) >= 2 * SECTOR_SIZE => InFile(s, 0, 2 * SECTOR_SIZE)
    BY OpenedBy, ImageAssumption DEF InFile, IsSource
  <2>5. HasLayout(s)
    BY <2>3, <2>4 DEF HasLayout, Vmdk4Opens
  <2> QED
    BY <1>2, <2>1, <2>2, <2>5
<1> QED
  BY <1>1, <1>2

\* The counts of its report are natural numbers.
LEMMA ReportType ==
    ASSUME NEW s, Opened(s), Judged(s)
    PROVE  /\ check_integrity(s).out_of_bounds_grains \in Nat
           /\ check_integrity(s).out_of_bounds_grain_tables \in Nat
<1>1. CASE s.se.magic /\ SeOpens(s) /\ SePlain(s)
  <2> DEFINE im == SeImage(s)
             slots == 0..(Len(im.grain_dir) - 1)
  <2>1. IsSeSource(s) /\ s.se.gd_offset * SECTOR_SIZE <= U64_MAX
    BY <1>1, OpenedBy DEF SePlain
  <2>2. SeHasLayout(s) /\ SeLayout(s) = im /\ InFile(s, 0, SECTOR_SIZE)
    BY <1>1, <2>1, SeSameDirectory DEF SeOpens
  <2>3. /\ check_integrity(s).out_of_bounds_grains = Cardinality(SeDanglingGrains(im))
        /\ check_integrity(s).out_of_bounds_grain_tables = Cardinality(SeDanglingTables(im))
    BY <1>1, <2>2 DEF check_integrity, IntegrityReport
  <2>4. Len(im.grain_dir) - 1 \in Int /\ im.num_gtes_per_gt - 1 \in Int /\ 0 \in Int
    BY <1>1, <2>1, SeImageOpens
  <2> HIDE DEF im
  <2>5. IsFiniteSet(slots) /\ IsFiniteSet(Entries(im))
    BY <2>4, FS_Interval DEF Entries
  <2>6. IsFiniteSet(slots \X Entries(im))
    BY <2>5, FS_Product
  <2>7. /\ SeDanglingTables(im) \in SUBSET slots
        /\ SeDanglingGrains(im) \in SUBSET (slots \X Entries(im))
    BY DEF SeDanglingTables, SeDanglingGrains, SeCheckedGrains
  <2> HIDE DEF slots
  <2>8. IsFiniteSet(SeDanglingTables(im)) /\ IsFiniteSet(SeDanglingGrains(im))
    BY <2>5, <2>6, <2>7, FS_Subset
  <2> QED
    BY <2>3, <2>8, FS_CardinalityType
<1>2. CASE ~s.se.magic /\ HasLayout(s)
  <2> DEFINE im == Vmdk4Image(s)
  <2>1. im \in Image
    BY <1>2, OpenedBy, LayoutType DEF Layout
  <2>2. /\ check_integrity(s).out_of_bounds_grains = Cardinality(DanglingGrains(im))
        /\ check_integrity(s).out_of_bounds_grain_tables = Cardinality(DanglingTables(im))
    BY <1>2 DEF check_integrity, IntegrityReport, Layout
  <2> HIDE DEF im
  <2>3. IsFiniteSet(Slots(im)) /\ IsFiniteSet(Slots(im) \X Entries(im))
    BY <2>1, SlotsFinite
  <2>4. /\ DanglingTables(im) \in SUBSET Slots(im)
        /\ DanglingGrains(im) \in SUBSET (Slots(im) \X Entries(im))
    BY DEF DanglingTables, DanglingGrains, CheckedGrains
  <2>5. IsFiniteSet(DanglingTables(im)) /\ IsFiniteSet(DanglingGrains(im))
    BY <2>3, <2>4, FS_Subset
  <2> QED
    BY <2>2, <2>5, FS_CardinalityType
<1> QED
  BY <1>1, <1>2, JudgedHasLayout

\* A clean report means a readable disk, and a scan that completes.
LEMMA CleanIsWhole ==
    ASSUME NEW s, Opened(s), Judged(s), is_ok(check_integrity(s))
    PROVE  /\ Whole(ViewOf(s, FALSE))
           /\ IF s.se.magic THEN \A gd \in SeScanned(ReaderImage(s)) :
                                     ~SeScanFails(ReaderImage(s), gd)
              ELSE \A gd \in 0..(Len(ReaderImage(s).grain_dir) - 1) :
                       ~ScanFails(ReaderImage(s), FALSE, gd)
<1> DEFINE v == ViewOf(s, FALSE)
<1>1. CASE s.se.magic /\ SeOpens(s) /\ SePlain(s) /\ ReaderImage(s) = SeImage(s)
  <2> DEFINE im == SeImage(s)
  <2>1. IsSeSource(s) /\ s.se.gd_offset * SECTOR_SIZE <= U64_MAX
    BY <1>1, OpenedBy DEF SePlain
  <2>2. \A off \in 0..(im.virtual_disk_size - 1) :
            SeGteReads(im, off) =>
                \/ SeGte(im, off) = 0
                \/ SeType(SeGte(im, off)) \in {SE_UNMAPPED, SE_ZERO, SE_ALLOCATED}
    BY <1>1 DEF SePlain
  <2> HIDE DEF im
  <2>3. /\ \A off \in 0..(im.virtual_disk_size - 1) :
               CellOf(im, se_grain_location(im, off)).kind \in {"zero", "data"}
        /\ \A gd \in SeScanned(im) : ~SeScanFails(im, gd)
    BY <1>1, <2>1, <2>2, CleanSeIsWhole DEF im
  <2>4. v.size = im.virtual_disk_size /\ v.cells = SeDiskOf(im)
    BY <1>1 DEF ViewOf, im
  <2>5. Whole(v)
    BY <2>3, <2>4 DEF Whole, HasCell, SeDiskOf
  <2> QED
    BY <1>1, <2>3, <2>5 DEF im
<1>2. CASE ~s.se.magic /\ HasLayout(s) /\ s.hdr.compress = 0 /\ ReaderImage(s) = Vmdk4Image(s)
  <2> DEFINE im == Vmdk4Image(s)
  <2>1. /\ \A off \in 0..(im.virtual_disk_size - 1) :
               CellAt(im, FALSE, off).kind \in {"zero", "data"}
        /\ \A gd \in 0..(Len(im.grain_dir) - 1) : ~ScanFails(im, FALSE, gd)
    BY <1>2, OpenedBy, CleanVmdk4IsWhole
  <2>2. v.size = im.virtual_disk_size /\ v.cells = DiskOf(im, FALSE)
    BY <1>2 DEF ViewOf
  <2> HIDE DEF im
  <2>3. Whole(v)
    BY <2>1, <2>2 DEF Whole, HasCell, DiskOf
  <2> QED
    BY <1>2, <2>1, <2>3 DEF im
<1> QED
  BY <1>1, <1>2, JudgedHasLayout

\* An analysis without a high finding is a clean report, of a disk recovery
\* does not change.
LEMMA NoHighFinding ==
    ASSUME NEW s, Opened(s), Judged(s), \A k \in analyse(s) : severity(k) # "High"
    PROVE  is_ok(check_integrity(s)) /\ ViewOf(s, TRUE) = ViewOf(s, FALSE)
<1>1. /\ severity("RedundantGdMismatch") = "High" /\ severity("DanglingGrainTable") = "High"
      /\ severity("DanglingGrain") = "High"
  BY DEF severity
<1>2. /\ "RedundantGdMismatch" \notin analyse(s) /\ "DanglingGrainTable" \notin analyse(s)
      /\ "DanglingGrain" \notin analyse(s)
  BY <1>1
<1>3. /\ ~grain_directory_recovery(s).has_rgd \/ validate_rgd(s)
      /\ ~(check_integrity(s).out_of_bounds_grain_tables > 0)
      /\ ~(check_integrity(s).out_of_bounds_grains > 0)
  BY <1>2 DEF analyse, AnomalyKind
<1>4. is_ok(check_integrity(s))
  BY <1>3, ReportType DEF is_ok
<1>5. CASE s.se.magic
  BY <1>4, <1>5 DEF ViewOf
<1>6. CASE ~s.se.magic /\ HasLayout(s) /\ ReaderImage(s) = Vmdk4Image(s)
  <2>1. validate_rgd(s) \/ ~HasRgd(Layout(s))
    BY <1>3, <1>6 DEF grain_directory_recovery, GdRecoveryReport
  <2>2. DiskOf(Vmdk4Image(s), TRUE) = DiskOf(Vmdk4Image(s), FALSE)
    BY <1>6, <2>1, OpenedBy, MatchMeansSameDisk
  <2> QED
    BY <1>4, <1>6, <2>2 DEF ViewOf
<1> QED
  BY <1>5, <1>6, JudgedHasLayout

\* Where no primary table dangles, or the redundant directory has every damaged
\* one, the reader in recovery mode reaches a table wherever it looks for one.
LEMMA TablesReached ==
    ASSUME NEW im \in Image, NEW gd \in Slots(im),
           DanglingTables(im) = {} \/ DamagedSlots(im) = RecoverableSlots(im)
    PROVE  GtSector(im, TRUE, gd) = 0 \/ TableInFile(im, GtSector(im, TRUE, gd))
<1> DEFINE p == PrimaryGt(im, gd)
           r == rgd_dir_entry(im, gd)
           sec == GtSector(im, TRUE, gd)
<1>1. sec = IF ~usable(im, p) /\ usable(im, r) THEN r ELSE p
  BY DEF GtSector, resilient_gt_sector
<1>2. usable(im, r) => r # 0 /\ TableInFile(im, r)
  BY DEF usable
<1>3. p = 0 \/ TableInFile(im, p) \/ usable(im, r)
  <2> SUFFICES ASSUME p # 0, ~TableInFile(im, p) PROVE usable(im, r)
    OBVIOUS
  <2>1. gd \in DanglingTables(im)
    BY DEF DanglingTables
  <2>2. gd \in DamagedSlots(im)
    BY DEF DamagedSlots, in_bounds
  <2>3. gd \in RecoverableSlots(im)
    BY <2>1, <2>2
  <2>4. RgdReads(im) /\ in_bounds(im, RgdEntry(im, gd))
    BY <2>3 DEF RecoverableSlots
  <2>5. r = RgdEntry(im, gd)
    BY <2>4, SameRgdEntry
  <2> QED
    BY <2>4, <2>5 DEF in_bounds, usable
<1> HIDE DEF p, r
<1>4. sec = 0 \/ TableInFile(im, sec)
  <2>1. CASE usable(im, p)
    BY <1>1, <2>1 DEF usable
  <2>2. CASE ~usable(im, p) /\ usable(im, r)
    BY <1>1, <1>2, <2>2
  <2>3. CASE ~usable(im, p) /\ ~usable(im, r)
    BY <1>1, <1>3, <2>3
  <2> QED
    BY <2>1, <2>2, <2>3
<1> QED
  BY <1>4

\* Then a raw grain is never out of reach: at worst its storage ends early.
LEMMA NeverErr ==
    ASSUME NEW im \in Image, ~im.compressed, NEW off \in Nat,
           \/ GtSector(im, TRUE, GdIdx(im, off)) = 0
           \/ TableInFile(im, GtSector(im, TRUE, GdIdx(im, off)))
    PROVE  CellAt(im, TRUE, off).kind # "err"
<1> DEFINE loc == grain_location(im, TRUE, << >>, off)
           sec == GtSector(im, TRUE, GdIdx(im, off))
<1>1. sec # 0 => TableAtHand(im, TRUE, << >>, off)
  BY DEF TableAtHand
<1>2. loc.kind \in {"Sparse", "FileOffset"}
  BY <1>1 DEF grain_location, Location
<1>3. CellAt(im, TRUE, off) = CellOf(im, loc)
  BY DEF CellAt
<1> HIDE DEF loc
<1>4. Readable(im, loc)
  BY <1>2 DEF Readable
<1>5. CellOf(im, loc).kind \in {"end", "zero", "data"}
  BY <1>4 DEF CellOf
<1> QED
  BY <1>3, <1>5

----------------------------------------------------------------------------
(* Theorems                                                                *)

\* The invariant holds in every reachable state.
LEMMA Invariance == Spec => []IInv
BY InitIInv, NextIInv, PTL DEF Spec

\* The command's variables keep their types, and the loop of hash has digested
\* exactly the cells before its cursor.
THEOREM TypeCorrect == Spec => []TypeOK
<1>1. IInv => TypeOK
  BY DEF IInv
<1> QED
  BY <1>1, Invariance, PTL

\* No command prints that the integrity is fine and exits as failed.
THEOREM TextAgreesWithExit == Spec => []TextAgrees
<1>1. IInv => TextAgrees
  BY DEF IInv, Passed
<1> QED
  BY <1>1, Invariance, PTL

\* The image a command looks at is one of the sources, with its types.
LEMMA SourceType == IInv => IsSource(src)
BY ExamineAssumption DEF IInv, TypeOK, Source, IsSource

\* The RGD line of verify, from a parser of its own, is true of the reader.
THEOREM RgdLineIsRight == Spec => []RgdLineRight
<1>1. IInv => RgdLineRight
  <2> SUFFICES ASSUME IInv PROVE RgdLineRight
    OBVIOUS
  <2>1. IsSource(src)
    BY SourceType
  <2>2. ASSUME rgd = "matches"
        PROVE  DiskOf(Vmdk4Image(src), TRUE) = DiskOf(Vmdk4Image(src), FALSE)
    <3>1. validate_rgd(src) /\ HasLayout(src)
      BY <2>2 DEF IInv, Reported, validate_rgd
    <3> QED
      BY <2>1, <3>1, MatchMeansSameDisk
  <2> DEFINE im == Vmdk4Image(src)
  <2>3. ASSUME rgd = "differs", NEW gd \in Slots(im), PrimaryGt(im, gd) # 0
        PROVE  TableInFile(im, PrimaryGt(im, gd))
    <3>1. /\ grain_directory_recovery(src).has_rgd
          /\ grain_directory_recovery(src).primary_damaged = 0
      BY <2>3 DEF IInv, Reported
    <3>2. DamagedSlots(im) = {}
      BY <2>1, <3>1, ReportCounts
    <3> HIDE DEF im
    <3> QED
      BY <2>3, <3>2 DEF DamagedSlots, in_bounds
  <2> QED
    BY <2>2, <2>3 DEF RgdLineRight
<1> QED
  BY <1>1, Invariance, PTL

\* The recovery report adds up, and what it counts as recoverable is what the
\* reader takes from the redundant directory.
THEOREM RecoveryReportIsRight == Spec => []RecoveryReportRight
<1>1. IInv => RecoveryReportRight
  <2> SUFFICES ASSUME IInv, recovery.has_rgd PROVE RecoveryReportRight
    BY DEF RecoveryReportRight
  <2>1. IsSource(src)
    BY SourceType
  <2>2. ~NoRecoveryReport.has_rgd
    BY DEF NoRecoveryReport, GdRecoveryReport
  <2>3. recovery = grain_directory_recovery(src)
    BY <2>2 DEF IInv, Reported
  <2> DEFINE im == Vmdk4Image(src)
  <2>4. /\ recovery.primary_intact + recovery.primary_damaged = recovery.total_entries
        /\ recovery.recoverable_via_rgd + recovery.unrecoverable = recovery.primary_damaged
        /\ recovery.recoverable_via_rgd <= Cardinality(Swapped(im))
        /\ RgdReads(im) => recovery.recoverable_via_rgd = Cardinality(Swapped(im))
    BY <2>1, <2>3, ReportCounts
  <2> QED
    BY <2>4 DEF RecoveryReportRight, Swapped
<1> QED
  BY <1>1, Invariance, PTL

\* Where examine passes an image both parsers know, the disk is whole, and the
\* same in both modes of the reader.
LEMMA ExaminePasses ==
    ASSUME IInv, st = "success", arg.cmd = "examine", Judged(src)
    PROVE  /\ Whole(view) /\ view = ViewOf(src, FALSE)
<1>1. Opened(src) /\ view = ViewOf(src, arg.recover)
  BY DEF IInv, Viewed
<1>2. \A k \in analyse(src) : severity(k) # "High"
  BY DEF IInv, Passed
<1>3. is_ok(check_integrity(src)) /\ ViewOf(src, TRUE) = ViewOf(src, FALSE)
  BY <1>1, <1>2, NoHighFinding
<1>4. arg.recover \in BOOLEAN
  BY ExamineAssumption DEF IInv, TypeOK, Arg
<1>5. view = ViewOf(src, FALSE)
  BY <1>1, <1>3, <1>4
<1> QED
  BY <1>1, <1>3, <1>5, CleanIsWhole

\* An image that passes can be read from end to end, and its scan completes.
THEOREM PassedIsReadable == Spec => []PassIsReadable
<1>1. IInv => PassIsReadable
  <2> SUFFICES ASSUME IInv, st = "success", Judged(src),
                      arg.cmd = "examine" \/ (arg.cmd = "verify" /\ ~arg.recover)
               PROVE  /\ Whole(view)
                      /\ arg.cmd = "verify" /\ ~src.fails => scan = "ok"
    BY DEF PassIsReadable
  <2>1. CASE arg.cmd = "examine"
    BY <2>1, ExaminePasses
  <2>2. CASE arg.cmd = "verify" /\ ~arg.recover
    <3>1. Opened(src) /\ view = ViewOf(src, arg.recover)
      BY DEF IInv, Viewed
    <3>2. arg.recover = FALSE
      BY <2>2, ExamineAssumption DEF IInv, TypeOK, Arg
    <3>3. is_ok(check_integrity(src))
      BY <2>2 DEF IInv, Passed, ResolvedByRgd
    <3>4. /\ Whole(ViewOf(src, FALSE))
          /\ IF src.se.magic THEN \A gd \in SeScanned(ReaderImage(src)) :
                                      ~SeScanFails(ReaderImage(src), gd)
             ELSE \A gd \in 0..(Len(ReaderImage(src).grain_dir) - 1) :
                      ~ScanFails(ReaderImage(src), FALSE, gd)
      BY <3>1, <3>3, CleanIsWhole
    <3>5. ~ScanErr(src)
      BY <3>2, <3>4 DEF ScanErr
    <3>6. ~src.fails => scan = "ok"
      BY <2>2, <3>5 DEF IInv, Reported
    <3> QED
      BY <3>1, <3>2, <3>4, <3>6
  <2> QED
    BY <2>1, <2>2
<1> QED
  BY <1>1, Invariance, PTL

\* A fingerprint printed of an image that passes is that of the whole disk.
THEOREM FingerprintOfWholeDisk == Spec => []FingerprintIsWhole
<1>1. IInv => FingerprintIsWhole
  <2> SUFFICES ASSUME IInv, st = "success", arg.cmd = "examine", arg.fingerprint, Judged(src)
               PROVE  digest = [i \in 1..view.size |-> ViewOf(src, FALSE).cells[i - 1].val]
    BY DEF FingerprintIsWhole
  <2>1. Whole(view) /\ view = ViewOf(src, FALSE)
    BY ExaminePasses
  <2>2. /\ digest = fed /\ ReadData(view, pos, HASH_BUF) = << >>
        /\ fed = [i \in 1..pos |-> view.cells[i - 1].val]
    BY DEF IInv, Passed, Fed
  <2>3. IsView(view) /\ pos \in Nat /\ pos <= view.size /\ HASH_BUF \in Nat /\ HASH_BUF > 0
    BY ExamineAssumption DEF IInv, TypeOK
  <2>4. pos < view.size => ~HasCell(view, pos)
    BY <2>2, <2>3, ReadReturns
  <2>5. view.size \in Nat
    BY <2>3 DEF IsView
  <2>6. ~(pos < view.size)
    <3> SUFFICES ASSUME pos < view.size PROVE FALSE
      OBVIOUS
    <3>1. pos \in 0..(view.size - 1)
      BY <2>3, <2>5
    <3> QED
      BY <2>1, <2>4, <3>1 DEF Whole
  <2>7. pos = view.size
    BY <2>3, <2>5, <2>6
  <2> QED
    BY <2>1, <2>2, <2>7
<1> QED
  BY <1>1, Invariance, PTL

\* If verify --recover passes an image after looking at its redundant directory,
\* the reader in that mode finds every grain table.
THEOREM RecoveredReaches == Spec => []RecoveredIsReachable
<1>1. IInv => RecoveredIsReachable
  <2> SUFFICES ASSUME IInv, st = "success", arg.cmd = "verify", arg.recover,
                      recovery.has_rgd, src.hdr.compress = 0,
                      NEW off \in 0..(view.size - 1)
               PROVE  view.cells[off].kind # "err"
    BY DEF RecoveredIsReachable
  <2> DEFINE im == Vmdk4Image(src)
  <2>1. IsSource(src) /\ Opened(src) /\ view = ViewOf(src, arg.recover)
    BY SourceType DEF IInv, Viewed
  <2>2. ~NoRecoveryReport.has_rgd
    BY DEF NoRecoveryReport, GdRecoveryReport
  <2>3. recovery = grain_directory_recovery(src)
    BY <2>2 DEF IInv, Reported
  <2>4. /\ HasLayout(src)
        /\ recovery.unrecoverable = 0 => DamagedSlots(im) = RecoverableSlots(im)
    BY <2>1, <2>3, ReportCounts
  <2>5. src.hdr.magic = "VMDK4"
    BY <2>4 DEF HasLayout, HeaderParses
  <2>6. ~src.se.magic
    BY <2>5, ExamineAssumption DEF IInv, TypeOK
  <2>7. im \in Image /\ Covers(im) /\ Len(im.grain_dir) = im.gd_entry_count
    BY <2>1, <2>4, LayoutType DEF Layout
  <2>8. ~im.compressed
    BY DEF Vmdk4Image
  <2>9. arg.recover = TRUE
    BY ExamineAssumption DEF IInv, TypeOK, Arg
  <2>10. view.size = im.virtual_disk_size /\ view.cells = DiskOf(im, TRUE)
    BY <2>1, <2>5, <2>6, <2>9 DEF ViewOf, ReaderImage
  <2>11. DanglingTables(im) = {} \/ DamagedSlots(im) = RecoverableSlots(im)
    <3>1. CASE is_ok(check_integrity(src))
      <4>1. check_integrity(src).out_of_bounds_grain_tables = Cardinality(DanglingTables(im))
        BY <2>4, <2>6 DEF check_integrity, IntegrityReport, Layout
      <4>2. Cardinality(DanglingTables(im)) = 0
        BY <3>1, <4>1 DEF is_ok
      <4> HIDE DEF im
      <4>3. IsFiniteSet(Slots(im)) /\ DanglingTables(im) \in SUBSET Slots(im)
        BY <2>7, SlotsFinite DEF DanglingTables
      <4> QED
        BY <4>2, <4>3, CountZero
    <3>2. CASE ResolvedByRgd(check_integrity(src))
      BY <2>4, <3>2 DEF ResolvedByRgd
    <3> QED
      BY <3>1, <3>2 DEF IInv, Passed
  <2> HIDE DEF im
  <2>12. off \in Nat /\ GdIdx(im, off) \in Slots(im)
    BY <2>7, <2>10, SlotOf
  <2>13. CellAt(im, TRUE, off).kind # "err"
    BY <2>7, <2>8, <2>11, <2>12, TablesReached, NeverErr
  <2>14. off \in 0..(im.virtual_disk_size - 1)
    BY <2>10
  <2>15. DiskOf(im, TRUE)[off] = CellAt(im, TRUE, off)
    BY <2>14 DEF DiskOf
  <2> QED
    BY <2>10, <2>13, <2>15
<1> QED
  BY <1>1, Invariance, PTL
=============================================================================
