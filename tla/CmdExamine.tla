----------------------------- MODULE CmdExamine -----------------------------
(***************************************************************************)
(* The commands of cli/src/main.rs that judge or describe one image: the   *)
(* default view (examine), verify, hash, map and info.  They put two       *)
(* parsers side by side: the reader (SparseImage, SeSparse) opens the image*)
(* and reads it, vmdk-forensic (Integrity) parses it again for the verdict.*)
(*                                                                         *)
(* Any I/O of a command may fail where the medium does; each command has   *)
(* its own way of carrying on.  The commands open regular files, so reads  *)
(* are cut as DiskView says.  Of the text only the verdict is kept.        *)
(***************************************************************************)
EXTENDS Integrity, DiskView

CONSTANTS
    Sources,    \* the images
    Args,       \* the command lines
    HASH_BUF    \* buffer length of hash, 65536 in the code

\* hdr, footer and se are what the parsers find in the file; unclean and
\* mangled the bytes of a VMDK4 header that only header_provenance reads.
Source == [hdr : HeaderFields, footer : HeaderFields, desc_ok : BOOLEAN, se : SeHeader,
           file : Seq(Nat), unclean : BOOLEAN, mangled : BOOLEAN, fails : BOOLEAN]

Arg == [cmd : {"examine", "verify", "hash", "map", "info", "descriptor", "chain"},
        recover : BOOLEAN, fingerprint : BOOLEAN]

\* One file has one magic, and no file is longer than an i64 can say.
ASSUME ExamineAssumption ==
    /\ \A s \in Sources : /\ s \in Source
                          /\ s.se.magic => s.hdr.magic = "other"
                          /\ 2 * Len(s.file) <= U64_MAX
    /\ Args \subseteq Arg
    /\ HASH_BUF \in Nat \ {0}

VARIABLES
    src, arg,    \* the image and the command line
    st,          \* where the command is, "success" or "failed"
    view,        \* the opened image, in the mode of the command
    recovery,    \* what verify holds of grain_directory_recovery
    rgd,         \* the RGD line of verify
    scan,        \* whether its allocation scan completed
    findings,    \* of examine
    failed,      \* the verdict of examine so far
    analyse_err, \* the analysis did not complete
    pos, fed,    \* hash: the cursor and what has been digested
    digest,      \* the fingerprint printed, or << >> for none
    verdict      \* the Integrity line printed

vars == <<src, arg, st, view, recovery, rgd, scan, findings, failed, analyse_err, pos,
          fed, digest, verdict>>

NoView == [size |-> 0, cells |-> << >>, ends |-> {}]

Init ==
    /\ src \in Sources
    /\ arg \in Args
    /\ st = "start"
    /\ view = NoView
    /\ recovery = NoRecoveryReport
    /\ rgd = "none"
    /\ scan = "none"
    /\ findings = {}
    /\ failed = FALSE
    /\ analyse_err = FALSE
    /\ pos = 0
    /\ fed = << >>
    /\ digest = << >>
    /\ verdict = "none"

----------------------------------------------------------------------------
(* open                                                                    *)

ReaderImage(s) ==
    IF s.se.magic THEN SeImage(s)
    ELSE IF s.hdr.magic = "COWD" THEN CowdImage(s) ELSE Vmdk4Image(s)

\* The disk as the reader returns it; recover is enable_rgd_fallback, which a
\* seSparse reader ignores.
ViewOf(s, recover) ==
    LET im == ReaderImage(s)
    IN  [size |-> im.virtual_disk_size,
         cells |-> IF s.se.magic THEN SeDiskOf(im) ELSE DiskOf(im, recover),
         ends |-> {e \in 1..im.virtual_disk_size : e % im.grain_size = 0}]

FirstStep == [examine |-> "analyse", verify |-> "rgd", hash |-> "hash", map |-> "map",
              info |-> "info", descriptor |-> "descriptor", chain |-> "chain"]

Open ==
    /\ st = "start"
    /\ \/ /\ Opens(src) \/ SeOpens(src)
          /\ st' = FirstStep[arg.cmd]
          /\ view' = ViewOf(src, arg.recover)
       \/ /\ (~Opens(src) /\ ~SeOpens(src)) \/ src.fails
          /\ st' = "failed"
          /\ UNCHANGED view
    /\ UNCHANGED <<src, arg, recovery, rgd, scan, findings, failed, analyse_err, pos, fed,
                   digest, verdict>>

----------------------------------------------------------------------------
(* iter_allocated_grains, of verify and map.                               *)

ScanErr(s) ==
    LET im == ReaderImage(s)
    IN  IF s.se.magic THEN \E gd \in SeScanned(im) : SeScanFails(im, gd)
        ELSE \E gd \in 0..(Len(im.grain_dir) - 1) : ScanFails(im, arg.recover, gd)

ScanResults == {IF ScanErr(src) THEN "error" ELSE "ok"}
                   \cup (IF src.fails THEN {"error"} ELSE {})

CmdMap ==
    /\ st = "map"
    /\ scan' \in ScanResults
    /\ st' = IF scan' = "ok" THEN "success" ELSE "failed"
    /\ UNCHANGED <<src, arg, view, recovery, rgd, findings, failed, analyse_err, pos, fed,
                   digest, verdict>>

----------------------------------------------------------------------------
(* verify                                                                  *)

rgd_status_line(matches, rec) ==
    IF ~rec.has_rgd THEN "absent"
    ELSE IF matches THEN "matches"
    ELSE IF rec.primary_damaged = 0 THEN "differs" ELSE "damaged"

\* The raw image is opened again and the directories compared.  A recovery
\* analysis that fails is taken for the default one.
VerifyRgd ==
    /\ st = "rgd"
    /\ \/ /\ recovery' \in {grain_directory_recovery(src)}
                              \cup (IF src.fails THEN {NoRecoveryReport} ELSE {})
          /\ rgd' \in {rgd_status_line(validate_rgd(src), recovery')}
                         \cup (IF src.fails THEN {"error"} ELSE {})
          /\ st' = "scan"
       \/ /\ src.fails
          /\ st' = "failed"
          /\ UNCHANGED <<recovery, rgd>>
    /\ UNCHANGED <<src, arg, view, scan, findings, failed, analyse_err, pos, fed, digest,
                   verdict>>

\* The scan is reported and does not count for the verdict.
VerifyScan ==
    /\ st = "scan"
    /\ scan' \in ScanResults
    /\ st' = "check"
    /\ UNCHANGED <<src, arg, view, recovery, rgd, findings, failed, analyse_err, pos, fed,
                   digest, verdict>>

\* Mutated form: tables the redundant directory has lost too are forgiven.
ResolvedByRgd_Any(r) == arg.recover /\ r.out_of_bounds_grains = 0

\* The arm "OK after recovery".
ResolvedByRgd(r) ==
    arg.recover /\ recovery.unrecoverable = 0 /\ r.out_of_bounds_grains = 0

VerifyCheck ==
    /\ st = "check"
    /\ \/ verdict' = LET r == check_integrity(src)
                     IN  IF is_ok(r) THEN "ok"
                         ELSE IF ResolvedByRgd(r) THEN "recovered" ELSE "fail"
       \/ src.fails /\ verdict' = "error"
    /\ st' = IF verdict' \in {"ok", "recovered"} THEN "success" ELSE "failed"
    /\ UNCHANGED <<src, arg, view, recovery, rgd, scan, findings, failed, analyse_err, pos,
                   fed, digest>>

----------------------------------------------------------------------------
(* examine, and the loop of hash it shares with the hash command.          *)

AfterAnalysis == IF arg.fingerprint THEN "hash" ELSE "render"

\* The raw image is opened again and analysed.
Analyse ==
    /\ st = "analyse"
    /\ \/ /\ findings' = analyse(src)
          /\ failed' = \E k \in findings' : severity(k) = "High"
          /\ analyse_err' = FALSE
          /\ st' = AfterAnalysis
       \/ /\ src.fails
          /\ findings' = {}
          /\ failed' = TRUE
          /\ analyse_err' = TRUE
          /\ st' = AfterAnalysis
       \/ /\ src.fails
          /\ st' = "failed"
          /\ UNCHANGED <<findings, failed, analyse_err>>
    /\ UNCHANGED <<src, arg, view, recovery, rgd, scan, pos, fed, digest, verdict>>

\* Mutated form: the pass ends with the first read that does not fill the buffer.
HashEnds_OnShortRead(data) == Len(data) < HASH_BUF

\* Mutated form: the pass ends once the cursor is past the end of the disk.
HashEnds_PastEnd(data) == pos > view.size

HashEnds(data) == data = << >>

\* Mutated form: the whole buffer is digested after every read.
Digested_WholeBuffer(data) == fed \o data \o [i \in 1..(HASH_BUF - Len(data)) |-> 0]

Digested(data) == fed \o data

\* One read of the loop.
HashStep ==
    /\ st = "hash" /\ ~ReadErr(view, pos, HASH_BUF)
    /\ LET data == ReadData(view, pos, HASH_BUF) IN
       IF HashEnds(data)
       THEN /\ digest' = fed
            /\ st' = IF arg.cmd = "hash" THEN "success" ELSE "render"
            /\ UNCHANGED <<pos, fed>>
       ELSE /\ fed' = Digested(data)
            /\ pos' = pos + Len(data)
            /\ UNCHANGED <<digest, st>>
    /\ UNCHANGED <<src, arg, view, recovery, rgd, scan, findings, failed, analyse_err,
                   verdict>>

\* A read of the loop fails.
HashFails ==
    /\ st = "hash"
    /\ ReadErr(view, pos, HASH_BUF) \/ (src.fails /\ pos < view.size)
    /\ failed' = TRUE
    /\ st' = IF arg.cmd = "hash" THEN "failed" ELSE "render"
    /\ UNCHANGED <<src, arg, view, recovery, rgd, scan, findings, analyse_err, pos, fed,
                   digest, verdict>>

\* Mutated form: no finding means no anomaly.
IntegrityLine_NoFinding ==
    IF analyse_err THEN "error" ELSE IF findings = {} THEN "ok" ELSE "findings"

\* The line of render_examine_text; "none" when only the fingerprint failed.
IntegrityLine ==
    IF analyse_err THEN "error"
    ELSE IF findings # {} THEN "findings"
    ELSE IF failed THEN "none" ELSE "ok"

Render ==
    /\ st = "render"
    /\ verdict' = IntegrityLine
    /\ st' = IF failed THEN "failed" ELSE "success"
    /\ UNCHANGED <<src, arg, view, recovery, rgd, scan, findings, failed, analyse_err, pos,
                   fed, digest>>

----------------------------------------------------------------------------
(* info                                                                    *)

\* The embedded descriptor, cut at its first NUL, is not empty.
HasDescriptor(s) ==
    /\ s.hdr.magic = "VMDK4" /\ s.hdr.descriptor_offset # 0 /\ s.hdr.descriptor_size # 0
    /\ s.file[s.hdr.descriptor_offset * SECTOR_SIZE + 1] # 0

Ends(result) ==
    /\ st' = result
    /\ UNCHANGED <<src, arg, view, recovery, rgd, scan, findings, failed, analyse_err, pos,
                   fed, digest, verdict>>

CmdInfo == st = "info" /\ Ends("success")

print_descriptor ==
    st = "descriptor" /\ Ends(IF HasDescriptor(src) THEN "success" ELSE "failed")

\* A chain that cannot be opened is shown as the image by itself.
print_chain == st = "chain" /\ Ends("success")

Next == Open \/ CmdMap \/ VerifyRgd \/ VerifyScan \/ VerifyCheck \/ Analyse \/ HashStep
        \/ HashFails \/ Render \/ CmdInfo \/ print_descriptor \/ print_chain

\* A command runs alone, to its end.
Spec == Init /\ [][Next]_vars /\ WF_vars(Next)

----------------------------------------------------------------------------
(* Properties                                                              *)

\* Types; what has been digested is the disk up to the cursor.
TypeOK ==
    /\ src \in Sources /\ arg \in Args
    /\ st \in {"start", "rgd", "scan", "check", "analyse", "hash", "render", "map", "info",
               "descriptor", "chain", "success", "failed"}
    /\ IsView(view)
    /\ rgd \in {"none", "absent", "matches", "differs", "damaged", "error"}
    /\ scan \in {"none", "ok", "error"}
    /\ findings \subseteq AnomalyKind
    /\ failed \in BOOLEAN /\ analyse_err \in BOOLEAN
    /\ pos \in Nat /\ pos <= view.size /\ Len(fed) = pos
    /\ verdict \in {"none", "ok", "recovered", "fail", "error", "findings"}

\* No entry of a seSparse disk has a type the reader refuses, and the address
\* of its directory is not one that wraps.
SePlain(s) ==
    LET im == SeImage(s) IN
    /\ s.se.gd_offset * SECTOR_SIZE <= U64_MAX
    /\ \A off \in 0..(im.virtual_disk_size - 1) :
           SeGteReads(im, off) =>
               SeGte(im, off) = 0 \/ SeType(SeGte(im, off)) \in {SE_UNMAPPED, SE_ZERO, SE_ALLOCATED}

\* The images the analysis is about: raw grains, entries of known types.
Judged(s) ==
    \/ s.hdr.magic = "VMDK4" /\ s.hdr.compress = 0
    \/ s.se.magic /\ SePlain(s)

\* An image that passes verify, or examine with or without --recover, can be
\* read from end to end by the reader in that mode, although the verdict comes
\* from a second parser; and unless the medium failed its scan completed.
PassIsReadable ==
    (/\ st = "success" /\ Judged(src)
     /\ arg.cmd = "examine" \/ (arg.cmd = "verify" /\ ~arg.recover))
        => /\ Whole(view)
           /\ arg.cmd = "verify" /\ ~src.fails => scan = "ok"

\* The fingerprint of an image that passes is that of the whole disk as it is
\* without recovery: none that was cut short, none that recovery has changed.
FingerprintIsWhole ==
    (st = "success" /\ arg.cmd = "examine" /\ arg.fingerprint /\ Judged(src))
        => digest = [i \in 1..view.size |-> ViewOf(src, FALSE).cells[i - 1].val]

\* What verify says of the redundant directory is true of the reader: where it
\* matches, recovery changes no cell; where it differs and the primary is
\* called intact, no primary table is out of reach.
RgdLineRight ==
    /\ rgd = "matches" =>
           DiskOf(Vmdk4Image(src), TRUE) = DiskOf(Vmdk4Image(src), FALSE)
    /\ rgd = "differs" =>
           LET im == Vmdk4Image(src)
           IN  \A gd \in Slots(im) :
                   PrimaryGt(im, gd) # 0 => TableInFile(im, PrimaryGt(im, gd))

\* The recovery report adds up, and counts as recoverable only slots for which
\* the reader takes the redundant pointer, all of them when the redundant
\* directory lies in the file.
RecoveryReportRight ==
    recovery.has_rgd =>
        LET im == Vmdk4Image(src)
            swapped == {gd \in Slots(im) : resilient_gt_sector(im, gd) # PrimaryGt(im, gd)}
        IN  /\ recovery.primary_intact + recovery.primary_damaged = recovery.total_entries
            /\ recovery.recoverable_via_rgd + recovery.unrecoverable = recovery.primary_damaged
            /\ recovery.recoverable_via_rgd <= Cardinality(swapped)
            /\ RgdReads(im) => recovery.recoverable_via_rgd = Cardinality(swapped)

\* If verify --recover passes an image whose redundant directory it has looked
\* at, the reader finds every grain table.
RecoveredIsReachable ==
    (/\ st = "success" /\ arg.cmd = "verify" /\ arg.recover /\ recovery.has_rgd
     /\ src.hdr.compress = 0)
        => \A off \in 0..(view.size - 1) : view.cells[off].kind # "err"

\* If verify --recover passes an image, the reader can read it in that mode.
RecoverPassIsReadable ==
    (st = "success" /\ arg.cmd = "verify" /\ arg.recover /\ Judged(src)) => Whole(view)

\* No command prints that the integrity is fine and exits as failed.
TextAgrees == verdict \in {"ok", "recovered"} => st # "failed"

\* Every command ends.
CommandEnds == <>(st \in {"success", "failed"})
=============================================================================
