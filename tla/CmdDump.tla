------------------------------ MODULE CmdDump ------------------------------
(***************************************************************************)
(* `vmdk dump`: cmd_dump, dump_allocated_only, copy_n and dump_hex of      *)
(* cli/src/main.rs.  The image is the disk the reader returns, with        *)
(* recovery already on where --recover is given.                           *)
(*                                                                         *)
(* A range is copied through a BufWriter; the allocated grains are written *)
(* straight to a file of the disk's size, each at its own offset; a hex    *)
(* dump prints lines and ignores what becomes of them.                     *)
(***************************************************************************)
EXTENDS DiskView, Words

CONSTANTS
    Views,      \* views; size -1 stands for a file that does not open, and
                \* grains lists the allocated ones, if the scan succeeds
    Offsets,    \* values of --offset
    Amounts,    \* values of --length, -1 for none
    Rooms,      \* offsets from which on the output takes nothing
    BUF,        \* the copy buffer, 65536 in the code
    LINE,       \* cells of a line of hex, 16 in the code
    WBUF        \* the capacity of a BufWriter, 8192

\* The allocated grains begin on the disk, the last one may end behind it, and
\* every cell that is not zero lies in one of them (VmdkReader's ListingAgrees).
ListsGrains(d) ==
    /\ d.grains \in Seq([start : 0..d.size, len : Nat])
    /\ \A o \in 0..(d.size - 1) : HasCell(d, o) =>
           \/ d.cells[o].val = 0
           \/ \E k \in 1..Len(d.grains) :
                  d.grains[k].start <= o /\ o < d.grains[k].start + d.grains[k].len

ASSUME DumpAssumption ==
    /\ \A d \in Views : d.size = -1 \/ (IsView(d) /\ (d.scans => ListsGrains(d)))
    /\ Offsets \subseteq 0..U64_MAX /\ Amounts \subseteq -1..U64_MAX /\ Rooms \subseteq Nat
    /\ BUF \in Nat \ {0} /\ LINE \in Nat \ {0} /\ WBUF \in Nat \ {0}

VARIABLES
    v,          \* the image
    arg,        \* mode, output, offset, length; and the room there is
    st,         \* "start", "copying", "success" or "failed"
    todo,       \* grains still to be copied
    remaining,  \* of copy_n or dump_hex
    pos,        \* the reader's cursor
    at,         \* the file's cursor
    buffered,   \* what the BufWriter holds
    file        \* what has reached the output

vars == <<v, arg, st, todo, remaining, pos, at, buffered, file>>

Init ==
    /\ v \in Views
    /\ arg \in [mode : {"range", "hex", "allocated"},
                output : {"stdout", "file", "uncreatable"},
                offset : Offsets, length : Amounts, room : Rooms]
    /\ st = "start"
    /\ todo = << >>
    /\ remaining = 0
    /\ pos = 0
    /\ at = 0
    /\ buffered = << >>
    /\ file = << >>

\* Mutated form: a range that begins behind the end counts backwards.
ToOutput_Unsaturated ==
    (IF arg.length = -1 THEN v.size ELSE Min2(Min2(arg.offset + arg.length, U64_MAX), v.size))
        - arg.offset

\* The cells of the range that lie on the disk (end, to_output).
ToOutput ==
    LET end == IF arg.length = -1 THEN v.size
               ELSE Min2(Min2(arg.offset + arg.length, U64_MAX), v.size)
    IN  IF end > arg.offset THEN end - arg.offset ELSE 0

\* cmd_dump of a range, up to the loop.
StartRange ==
    /\ st = "start" /\ arg.mode \in {"range", "hex"}
    /\ IF \/ v.size = -1 \/ AsI64(arg.offset) < 0
          \/ arg.mode = "range" /\ arg.output = "uncreatable"
       THEN st' = "failed" /\ UNCHANGED <<remaining, pos>>
       ELSE st' = "copying" /\ remaining' = ToOutput /\ pos' = arg.offset
    /\ UNCHANGED <<v, arg, todo, at, buffered, file>>

\* dump_allocated_only, up to its loop: the file has the size of the disk and
\* is one hole.
StartAllocated ==
    /\ st = "start" /\ arg.mode = "allocated"
    /\ IF v.size = -1 \/ arg.output # "file" \/ ~v.scans
       THEN st' = "failed" /\ UNCHANGED <<todo, file>>
       ELSE st' = "copying" /\ todo' = v.grains /\ file' = [i \in 1..v.size |-> 0]
    /\ UNCHANGED <<v, arg, remaining, pos, at, buffered>>

\* Mutated form: the file is not sought, grains are written one after another.
NextGrain_NoSeek ==
    /\ st = "copying" /\ remaining = 0 /\ todo # << >>
    /\ pos' = Head(todo).start
    /\ remaining' = Head(todo).len
    /\ todo' = Tail(todo)
    /\ UNCHANGED <<v, arg, st, at, buffered, file>>

\* The next grain: both cursors are set, and copy_n begins.
NextGrain ==
    /\ st = "copying" /\ remaining = 0 /\ todo # << >>
    /\ pos' = Head(todo).start
    /\ at' = Head(todo).start
    /\ remaining' = Head(todo).len
    /\ todo' = Tail(todo)
    /\ UNCHANGED <<v, arg, st, buffered, file>>

Want == Min2(IF arg.mode = "hex" THEN LINE ELSE BUF, remaining)

\* s written at the file's cursor, as far as there is room.
Written(s) ==
    LET fits == Min2(Len(s), IF arg.room > at THEN arg.room - at ELSE 0)
    IN  IF fits = 0 THEN file
        ELSE [i \in 1..(IF at + fits > Len(file) THEN at + fits ELSE Len(file)) |->
                 IF at < i /\ i <= at + fits THEN s[i - at] ELSE file[i]]

Fits(s) == s = << >> \/ at + Len(s) <= arg.room

\* What write_all(s) pushes out, in order: the buffer when s no longer fits
\* in it, and s itself when it is as large as the buffer.
Spilled(s) ==
    IF arg.mode = "allocated" THEN s
    ELSE IF Len(buffered) + Len(s) <= WBUF /\ Len(s) < WBUF THEN << >>
    ELSE IF Len(s) >= WBUF THEN buffered \o s ELSE buffered

\* What stays in the buffer after write_all(s).
Kept(s) ==
    IF arg.mode = "allocated" \/ Len(s) >= WBUF THEN << >>
    ELSE IF Len(buffered) + Len(s) <= WBUF THEN buffered \o s ELSE s

\* Mutated form: a read that returns less than was asked ends the copy.
Last_OnShortRead(s) == Len(s) < Want

\* Mutated form: only the count ends the copy.
Last_Never(s) == FALSE

\* The read that ends the copy.
Last(s) == s = << >>

\* What the BufWriter holds is written, by flush or when it is dropped, and
\* nobody asks whether it could be.
Flush ==
    /\ file' = Written(buffered)
    /\ at' = at + Len(buffered)
    /\ buffered' = << >>

\* One turn of copy_n or dump_hex: something is read and written.  A hex line
\* that cannot be written is lost without a word.
Copy ==
    /\ st = "copying" /\ remaining > 0 /\ ~ReadErr(v, pos, Want)
    /\ LET s == ReadData(v, pos, Want)
           out == Spilled(s)
       IN  /\ ~Last(s)
           /\ st' = IF Fits(out) \/ arg.mode = "hex" THEN st ELSE "failed"
           /\ file' = Written(out)
           /\ at' = at + Len(out)
           /\ buffered' = Kept(s)
           /\ pos' = pos + Len(s)
           /\ remaining' = remaining - Len(s)
    /\ UNCHANGED <<v, arg, todo>>

\* A turn in which nothing is read.
CopyEnds ==
    /\ st = "copying" /\ remaining > 0 /\ ~ReadErr(v, pos, Want)
    /\ Last(ReadData(v, pos, Want))
    /\ remaining' = 0
    /\ UNCHANGED <<v, arg, st, todo, pos, at, buffered, file>>

\* A turn in which the read fails.
CopyFails ==
    /\ st = "copying" /\ remaining > 0 /\ ReadErr(v, pos, Want)
    /\ st' = "failed"
    /\ Flush
    /\ UNCHANGED <<v, arg, todo, remaining, pos>>

Finish ==
    /\ st = "copying" /\ remaining = 0 /\ todo = << >>
    /\ st' = "success"
    /\ Flush
    /\ UNCHANGED <<v, arg, todo, remaining, pos>>

Next == StartRange \/ StartAllocated \/ NextGrain \/ Copy \/ CopyEnds \/ CopyFails
        \/ Finish

\* The command runs alone.
Spec == Init /\ [][Next]_vars /\ WF_vars(Next)

----------------------------------------------------------------------------
(* Properties                                                              *)

\* Types; no more is read than was asked for, and the BufWriter never holds
\* more than its capacity.
TypeOK ==
    /\ st \in {"start", "copying", "success", "failed"}
    /\ remaining \in Nat /\ pos \in Nat /\ at \in Nat
    /\ buffered \in Seq(Nat) /\ Len(buffered) <= WBUF
    /\ file \in Seq(Nat)

\* The disk offset of a file's first cell.
Base == IF arg.mode = "allocated" THEN 0 ELSE arg.offset

\* What the range should be.
Asked == IF arg.mode = "allocated" THEN v.size ELSE ToOutput

\* The cell cannot be read, or one before it in its grain cannot: copy_n takes
\* the short read there for the end, and goes on with the next grain.
Skipped(o) ==
    \/ ~HasCell(v, o)
    \/ \E k \in 1..Len(v.grains) :
           LET g == v.grains[k]
           IN  /\ g.start <= o /\ o < g.start + g.len
               /\ \E x \in g.start..o : ~HasCell(v, x)

\* The file that is left behind, complete or not, has no cell that is not the
\* disk's at that place; a hole is zero where grains are still to come or were
\* skipped.
NoWrongCell ==
    \A i \in 1..Len(file) :
        \/ /\ Base + i <= v.size
           /\ HasCell(v, Base + i - 1)
           /\ file[i] = v.cells[Base + i - 1].val
        \/ /\ arg.mode = "allocated"
           /\ file[i] = 0
           /\ st # "success" \/ Skipped(i - 1)

Complete ==
    /\ Len(file) = Asked
    /\ \A i \in 1..Asked : HasCell(v, Base + i - 1) /\ file[i] = v.cells[Base + i - 1].val

\* A dump of a readable disk with room for it yields the whole range, and one
\* of the allocated grains the whole disk.
DumpComplete == (st = "success" /\ Whole(v) /\ arg.room >= Asked) => Complete

\* The command ends.
DumpEnds == <>(st \in {"success", "failed"})
=============================================================================
