--------------------------- MODULE CmdDump_proofs ---------------------------
(***************************************************************************)
(* Safety of `vmdk dump`, for every image, range, buffer size and amount   *)
(* of room in the output.                                                  *)
(***************************************************************************)
EXTENDS CmdDump, Image_proofs

\* The cell at o is stored and x is its value.
Holds(o, x) == o < v.size /\ HasCell(v, o) /\ x = v.cells[o].val

----------------------------------------------------------------------------
(* Ranges: cmd_dump and dump_hex through a BufWriter                       *)

\* What has left the reader: at cells have been written, of which the output
\* took as many as it had room for, and more are in the BufWriter.
Carried ==
    /\ Len(file) = Min2(at, arg.room)
    /\ at + Len(buffered) <= ToOutput
    /\ \A i \in 1..Len(file) : Holds(arg.offset + i - 1, file[i])
    /\ \A i \in 1..Len(buffered) : Holds(arg.offset + at + i - 1, buffered[i])

RangeInv ==
    /\ todo = << >>
    /\ Carried
    /\ st = "copying" =>
           /\ pos = arg.offset + at + Len(buffered)
           /\ at + Len(buffered) + remaining <= ToOutput
           /\ Whole(v) => at + Len(buffered) + remaining = ToOutput
    /\ st = "success" => (Whole(v) => at = ToOutput)

----------------------------------------------------------------------------
(* Allocated grains: dump_allocated_only straight to a file                *)

\* The cell has still to be copied.
Pending(o) ==
    \/ pos <= o /\ o < pos + remaining
    \/ \E j \in 1..Len(todo) : todo[j].start <= o /\ o < todo[j].start + todo[j].len

\* The copy is inside one of the listed grains.
InGrain ==
    \E k \in 1..Len(v.grains) : /\ v.grains[k].start <= pos
                                /\ pos + remaining = v.grains[k].start + v.grains[k].len

GrainInv ==
    /\ buffered = << >>
    /\ Len(file) = v.size
    /\ \A i \in 1..v.size : file[i] = 0 \/ Holds(i - 1, file[i])
    /\ st = "copying" =>
           /\ at = pos /\ pos <= v.size
           /\ todo \in Seq([start : 0..v.size, len : Nat])
           /\ \A j \in 1..Len(todo) : \E k \in 1..Len(v.grains) : todo[j] = v.grains[k]
           /\ remaining > 0 => InGrain
           /\ \A i \in 1..v.size : Holds(i - 1, file[i]) \/ Skipped(i - 1) \/ Pending(i - 1)
    /\ st = "success" => \A i \in 1..v.size : Holds(i - 1, file[i]) \/ Skipped(i - 1)

----------------------------------------------------------------------------
(* The inductive invariant                                                 *)

Args == [mode : {"range", "hex", "allocated"}, output : {"stdout", "file", "uncreatable"},
         offset : Offsets, length : Amounts, room : Rooms]

Fresh ==
    todo = << >> /\ remaining = 0 /\ pos = 0 /\ at = 0 /\ buffered = << >> /\ file = << >>

Ranging == st # "start" /\ IsView(v) /\ arg.mode # "allocated" /\ RangeInv
Graining == st # "start" /\ IsView(v) /\ ListsGrains(v) /\ arg.mode = "allocated" /\ GrainInv

IInv ==
    /\ TypeOK
    /\ v \in Views
    /\ arg \in Args
    /\ (st \in {"start", "failed"} /\ Fresh) \/ Ranging \/ Graining

\* What the arguments and the constants are.
LEMMA ArgTypes ==
    ASSUME arg \in Args
    PROVE  /\ arg.offset \in Nat /\ arg.length \in Int /\ arg.room \in Nat
           /\ BUF \in Nat \ {0} /\ LINE \in Nat \ {0} /\ WBUF \in Nat \ {0} /\ U64_MAX \in Nat
<1>1. /\ Offsets \subseteq 0..U64_MAX /\ Amounts \subseteq -1..U64_MAX /\ Rooms \subseteq Nat
      /\ BUF \in Nat \ {0} /\ LINE \in Nat \ {0} /\ WBUF \in Nat \ {0} /\ U64_MAX \in Nat
  BY DumpAssumption, WordAssumption
<1>2. arg.offset \in Offsets /\ arg.length \in Amounts /\ arg.room \in Rooms
  BY DEF Args
<1>3. arg.offset \in 0..U64_MAX /\ arg.length \in -1..U64_MAX /\ arg.room \in Nat
  BY <1>1, <1>2
<1> QED
  BY <1>1, <1>3

\* The range lies on the disk.
LEMMA ToOutputType ==
    ASSUME arg \in Args, v.size \in Nat
    PROVE  ToOutput \in Nat /\ (ToOutput > 0 => arg.offset + ToOutput <= v.size)
BY ArgTypes DEF ToOutput, Min2

\* One read asks for something and for no more than is left.
LEMMA WantType ==
    ASSUME arg \in Args, remaining \in Nat
    PROVE  Want \in Nat /\ Want <= remaining /\ (remaining > 0 => Want > 0)
BY ArgTypes DEF Want, Min2

\* What a write leaves in the file: its cells from the cursor on, as far as
\* there is room, and the rest of the file as it was.
LEMMA WrittenIs ==
    ASSUME arg \in Args, at \in Nat, file \in Seq(Nat),
           NEW s \in Seq(Nat), Len(file) >= Min2(at, arg.room),
           NEW f, f = Written(s),
           NEW m, m = (IF Min2(at + Len(s), arg.room) > at THEN Min2(at + Len(s), arg.room) ELSE at)
    PROVE  /\ f \in Seq(Nat)
           /\ m \in Nat /\ at <= m /\ m <= at + Len(s)
           /\ Len(f) = IF at < m /\ m > Len(file) THEN m ELSE Len(file)
           /\ \A i \in 1..Len(f) : f[i] = IF at < i /\ i <= m THEN s[i - at] ELSE file[i]
<1>0. Len(s) \in Nat /\ Len(file) \in Nat /\ arg.room \in Nat
  BY ArgTypes
<1> DEFINE fits == Min2(Len(s), IF arg.room > at THEN arg.room - at ELSE 0)
           len == IF at + fits > Len(file) THEN at + fits ELSE Len(file)
           g == [i \in 1..len |-> IF at < i /\ i <= at + fits THEN s[i - at] ELSE file[i]]
<1>1. f = IF fits = 0 THEN file ELSE g
  BY DEF Written
<1>2. fits \in Nat /\ fits <= Len(s) /\ m = at + fits /\ m \in Nat
  <2> DEFINE n == Len(s)
             room == arg.room
  <2>1. /\ n \in Nat /\ room \in Nat /\ at \in Nat
        /\ fits = Min2(n, IF room > at THEN room - at ELSE 0)
        /\ m = IF Min2(at + n, room) > at THEN Min2(at + n, room) ELSE at
    BY <1>0
  <2> HIDE DEF fits, n, room
  <2>2. fits \in Nat /\ fits <= n /\ m = at + fits /\ m \in Nat
    <3>1. CASE room > at /\ n <= room - at
      <4>1. fits = n /\ Min2(at + n, room) = at + n
        BY <2>1, <3>1 DEF Min2
      <4> QED
        BY <2>1, <4>1
    <3>2. CASE room > at /\ ~(n <= room - at)
      <4>1. fits = room - at /\ Min2(at + n, room) = room
        BY <2>1, <3>2 DEF Min2
      <4> QED
        BY <2>1, <3>2, <4>1
    <3>3. CASE ~(room > at)
      <4>1. fits = 0 /\ m = at
        BY <2>1, <3>3 DEF Min2
      <4> QED
        BY <2>1, <4>1
    <3> QED
      BY <3>1, <3>2, <3>3
  <2> QED
    BY <2>2 DEF n
<1>3. CASE fits = 0
  BY <1>0, <1>1, <1>2, <1>3
<1>4. CASE fits # 0
  <2>1. at <= arg.room /\ at <= Len(file)
    BY <1>0, <1>4 DEF Min2
  <2>2. len \in Nat /\ len = IF at < m /\ m > Len(file) THEN m ELSE Len(file)
    BY <1>0, <1>2, <1>4
  <2>3. g \in [1..len -> Nat]
    <3> SUFFICES ASSUME NEW i \in 1..len
                 PROVE  (IF at < i /\ i <= at + fits THEN s[i - at] ELSE file[i]) \in Nat
      OBVIOUS
    <3>1. CASE at < i /\ i <= at + fits
      <4>1. i - at \in 1..Len(s)
        BY <1>0, <1>2, <3>1
      <4> QED
        BY <3>1, <4>1
    <3>2. CASE ~(at < i /\ i <= at + fits)
      <4>1. i \in 1..Len(file)
        BY <1>0, <1>2, <2>1, <3>2
      <4> QED
        BY <3>2, <4>1
    <3> QED
      BY <3>1, <3>2
  <2>4. f = g
    BY <1>1, <1>4
  <2>5. \A i \in 1..len : g[i] = IF at < i /\ i <= m THEN s[i - at] ELSE file[i]
    BY <1>2
  <2> HIDE DEF g, len
  <2>6. g \in Seq(Nat) /\ Len(g) = len
    <3>0. len \in Nat
      BY <2>2
    <3>1. g \in Seq(Nat) /\ DOMAIN g = 1..len
      BY <2>3, <3>0
    <3>2. Len(g) \in Nat /\ DOMAIN g = 1..Len(g)
      BY <3>1
    <3> QED
      BY <2>2, <3>1, <3>2
  <2>7. Len(f) = IF at < m /\ m > Len(file) THEN m ELSE Len(file)
    BY <2>2, <2>4, <2>6
  <2>8. at <= m /\ m <= at + Len(s)
    BY <1>0, <1>2
  <2>9. \A i \in 1..Len(f) : f[i] = IF at < i /\ i <= m THEN s[i - at] ELSE file[i]
    BY <2>4, <2>5, <2>6
  <2> QED
    BY <1>2, <2>4, <2>6, <2>7, <2>8, <2>9
<1> QED
  BY <1>3, <1>4

\* What a read returns is stored on the disk, from the cursor on.
LEMMA ReadHolds ==
    ASSUME IsView(v), pos \in Nat, pos <= v.size, NEW n \in Nat,
           NEW s, s = ReadData(v, pos, n)
    PROVE  /\ s \in Seq(Nat) /\ Len(s) \in Nat /\ Len(s) <= n /\ pos + Len(s) <= v.size
           /\ \A i \in 1..Len(s) : Holds(pos + i - 1, s[i])
           /\ (s = << >> /\ n > 0 /\ pos < v.size) => ~HasCell(v, pos)
<1> DEFINE k == ReadLen(v, pos, n)
<1>1. s \in Seq(Nat) /\ Len(s) \in Nat /\ pos + Len(s) <= v.size
  BY ReadReturns
<1>6. ASSUME s = << >>, n > 0, pos < v.size PROVE ~HasCell(v, pos)
  BY <1>6, ReadReturns
<1>2. k \in 0..n /\ \A o \in pos..(pos + k - 1) : HasCell(v, o)
  BY ReadStops
<1>3. s = [i \in 1..k |-> v.cells[pos + i - 1].val]
  BY DEF ReadData
<1> HIDE DEF k
<1>4. Len(s) = k
  <2>1. DOMAIN s = 1..k
    BY <1>3
  <2>2. DOMAIN s = 1..Len(s)
    BY <1>1
  <2> QED
    BY <1>1, <1>2, <2>1, <2>2
<1>5. ASSUME NEW i \in 1..Len(s) PROVE Holds(pos + i - 1, s[i])
  <2>1. pos + i - 1 \in pos..(pos + k - 1) /\ v.size \in Nat
    BY <1>1, <1>4 DEF IsView
  <2>2. pos + i - 1 < v.size
    BY <1>1, <2>1
  <2>3. s[i] = v.cells[pos + i - 1].val
    BY <1>3, <1>4
  <2> QED
    BY <1>1, <1>2, <2>1, <2>2, <2>3 DEF Holds
<1> QED
  BY <1>1, <1>2, <1>4, <1>5, <1>6

----------------------------------------------------------------------------
(* Ranges                                                                  *)

\* Writing the cells of the range that come next keeps the file right.
LEMMA RangeWritten ==
    ASSUME arg \in Args, at \in Nat, file \in Seq(Nat), Len(file) = Min2(at, arg.room),
           \A i \in 1..Len(file) : Holds(arg.offset + i - 1, file[i]),
           NEW s \in Seq(Nat),
           \A i \in 1..Len(s) : Holds(arg.offset + at + i - 1, s[i])
    PROVE  /\ Written(s) \in Seq(Nat)
           /\ Len(Written(s)) = Min2(at + Len(s), arg.room)
           /\ \A i \in 1..Len(Written(s)) : Holds(arg.offset + i - 1, Written(s)[i])
<1> DEFINE f == Written(s)
           m == IF Min2(at + Len(s), arg.room) > at THEN Min2(at + Len(s), arg.room) ELSE at
<1>0. Len(s) \in Nat /\ Len(file) \in Nat /\ arg.room \in Nat /\ arg.offset \in Nat
  BY ArgTypes
<1>1. Len(file) >= Min2(at, arg.room)
  BY <1>0
<1>2. /\ f \in Seq(Nat)
      /\ m \in Nat /\ at <= m /\ m <= at + Len(s)
      /\ Len(f) = IF at < m /\ m > Len(file) THEN m ELSE Len(file)
      /\ \A i \in 1..Len(f) : f[i] = IF at < i /\ i <= m THEN s[i - at] ELSE file[i]
  <2>1. f = Written(s) /\ m = IF Min2(at + Len(s), arg.room) > at THEN Min2(at + Len(s), arg.room) ELSE at
    OBVIOUS
  <2> HIDE DEF f, m
  <2> QED
    BY <1>1, <2>1, WrittenIs
<1> HIDE DEF f
<1>3. Len(f) = Min2(at + Len(s), arg.room)
  BY <1>0, <1>2 DEF Min2
<1> HIDE DEF m
<1>4. ASSUME NEW i \in 1..Len(f) PROVE Holds(arg.offset + i - 1, f[i])
  <2>0. /\ i \in Nat /\ 1 <= i /\ i <= Len(f) /\ Len(f) \in Nat /\ m \in Nat
        /\ (Len(f) = m /\ Len(file) = at) \/ Len(f) = Len(file)
        /\ m <= at + Len(s)
        /\ Len(file) <= at
    BY <1>0, <1>2 DEF m, Min2
  <2>1. CASE at < i /\ i <= m
    <3>1. i - at \in 1..Len(s) /\ arg.offset + at + (i - at) - 1 = arg.offset + i - 1
      BY <1>0, <2>0, <2>1
    <3>2. f[i] = s[i - at]
      BY <1>2, <2>1
    <3>3. Holds(arg.offset + at + (i - at) - 1, s[i - at])
      BY <3>1
    <3> QED
      BY <3>1, <3>2, <3>3
  <2>2. CASE ~(at < i /\ i <= m)
    <3>1. i \in 1..Len(file)
      BY <1>0, <2>0, <2>2
    <3>2. f[i] = file[i]
      BY <1>2, <2>2
    <3> QED
      BY <3>1, <3>2
  <2> QED
    BY <2>1, <2>2
<1> QED
  BY <1>2, <1>3, <1>4 DEF f

\* o and then k are what the BufWriter holds and then s.
Splits(s, o, k) ==
    /\ o \in Seq(Nat) /\ k \in Seq(Nat) /\ Len(k) <= WBUF
    /\ Len(o) + Len(k) = Len(buffered) + Len(s)
    /\ \A i \in 1..Len(o) : o[i] = (buffered \o s)[i]
    /\ \A i \in 1..Len(k) : k[i] = (buffered \o s)[Len(o) + i]

\* The BufWriter passes cells on in order and loses none: what it holds and s
\* are what it passes on and what it keeps.
LEMMA SpillKeep ==
    ASSUME arg.mode # "allocated", WBUF \in Nat \ {0},
           buffered \in Seq(Nat), NEW s \in Seq(Nat)
    PROVE  Splits(s, Spilled(s), Kept(s))
<1> DEFINE o == Spilled(s)
           k == Kept(s)
<1> SUFFICES Splits(s, o, k)
  OBVIOUS
<1>0. /\ Len(buffered) \in Nat /\ Len(s) \in Nat /\ buffered \o s \in Seq(Nat)
      /\ Len(buffered \o s) = Len(buffered) + Len(s) /\ Len(<< >>) = 0 /\ << >> \in Seq(Nat)
  OBVIOUS
<1>1. CASE Len(s) >= WBUF
  <2>1. o = buffered \o s /\ k = << >>
    BY <1>0, <1>1 DEF Spilled, Kept
  <2> HIDE DEF o, k
  <2> QED
    BY <1>0, <2>1 DEF Splits
<1>2. CASE ~(Len(s) >= WBUF) /\ Len(buffered) + Len(s) <= WBUF
  <2>1. o = << >> /\ k = buffered \o s
    BY <1>0, <1>2 DEF Spilled, Kept
  <2> HIDE DEF o, k
  <2> QED
    BY <1>0, <1>2, <2>1 DEF Splits
<1>3. CASE ~(Len(s) >= WBUF) /\ ~(Len(buffered) + Len(s) <= WBUF)
  <2>1. o = buffered /\ k = s
    BY <1>0, <1>3 DEF Spilled, Kept
  <2> HIDE DEF o, k
  <2>2. \A i \in 1..Len(s) : s[i] = (buffered \o s)[Len(buffered) + i]
    BY <1>0
  <2>3. \A i \in 1..Len(buffered) : buffered[i] = (buffered \o s)[i]
    BY <1>0
  <2> QED
    BY <1>0, <1>3, <2>1, <2>2, <2>3 DEF Splits
<1> QED
  BY <1>1, <1>2, <1>3

LEMMA InitInv == Init => IInv
<1> SUFFICES ASSUME Init PROVE IInv
  OBVIOUS
<1>1. WBUF \in Nat /\ << >> \in Seq(Nat) /\ Len(<< >>) = 0
  BY DumpAssumption
<1>2. TypeOK
  BY <1>1 DEF Init, TypeOK
<1> QED
  BY <1>2 DEF Init, IInv, Fresh, Args

LEMMA StartRangeInv == IInv /\ StartRange => IInv'
<1> SUFFICES ASSUME IInv, StartRange PROVE IInv'
  OBVIOUS
<1>0. /\ st = "start" /\ arg.mode \in {"range", "hex"}
      /\ UNCHANGED <<v, arg, todo, at, buffered, file>>
  BY DEF StartRange
<1>1. TypeOK /\ v \in Views /\ arg \in Args /\ Fresh
  BY <1>0 DEF IInv, Ranging, Graining
<1>2. CASE v.size = -1 \/ AsI64(arg.offset) < 0 \/ (arg.mode = "range" /\ arg.output = "uncreatable")
  <2>1. st' = "failed" /\ UNCHANGED <<remaining, pos>>
    BY <1>2 DEF StartRange
  <2>2. TypeOK' /\ Fresh' /\ v' \in Views /\ arg' \in Args
    BY <1>0, <1>1, <2>1 DEF TypeOK, Fresh, Args
  <2> QED
    BY <2>1, <2>2 DEF IInv
<1>3. CASE ~(v.size = -1 \/ AsI64(arg.offset) < 0 \/ (arg.mode = "range" /\ arg.output = "uncreatable"))
  <2>1. st' = "copying" /\ remaining' = ToOutput /\ pos' = arg.offset
    BY <1>3 DEF StartRange
  <2>2. IsView(v) /\ v.size \in Nat
    BY <1>1, <1>3, DumpAssumption DEF IsView
  <2>3. ToOutput \in Nat /\ arg.offset \in Nat /\ arg.room \in Nat
    BY <1>1, <2>2, ToOutputType, ArgTypes
  <2>4. TypeOK' /\ v' \in Views /\ arg' \in Args
    BY <1>0, <1>1, <2>1, <2>3 DEF TypeOK, Args
  <2>5. ToOutput' = ToOutput /\ Len(<< >>) = 0
    BY <1>0 DEF ToOutput
  <2>6. Carried'
    BY <1>0, <1>1, <2>3, <2>5 DEF Carried, Fresh, Min2
  <2>7. RangeInv'
    BY <1>0, <1>1, <2>1, <2>3, <2>5, <2>6 DEF RangeInv, Fresh
  <2>8. Ranging'
    BY <1>0, <2>1, <2>2, <2>7 DEF Ranging
  <2> QED
    BY <2>4, <2>8 DEF IInv
<1> QED
  BY <1>2, <1>3

\* What holds of a range while it is copied.
LEMMA InRange ==
    ASSUME IInv, st = "copying", arg.mode # "allocated"
    PROVE  /\ TypeOK /\ v \in Views /\ arg \in Args
           /\ Ranging /\ RangeInv /\ Carried
           /\ IsView(v) /\ v.size \in Nat
           /\ ToOutput \in Nat /\ arg.offset \in Nat /\ arg.room \in Nat
           /\ Len(buffered) \in Nat
<1>1. TypeOK /\ v \in Views /\ arg \in Args /\ Ranging
  BY DEF IInv, Graining
<1>2. RangeInv /\ IsView(v)
  BY <1>1 DEF Ranging
<1>3. v.size \in Nat /\ Carried
  BY <1>2 DEF IsView, RangeInv
<1>4. Len(buffered) \in Nat
  BY <1>1 DEF TypeOK
<1> QED
  BY <1>1, <1>2, <1>3, <1>4, ToOutputType, ArgTypes

\* A range that still has cells to copy has its cursor on the disk.
LEMMA RangeOnDisk ==
    ASSUME IInv, st = "copying", arg.mode # "allocated", remaining > 0
    PROVE  pos \in Nat /\ pos < v.size /\ Want \in Nat /\ Want <= remaining /\ Want > 0
<1>1. /\ TypeOK /\ arg \in Args /\ v.size \in Nat /\ ToOutput \in Nat
      /\ arg.offset \in Nat /\ Len(buffered) \in Nat
      /\ RangeInv
  BY InRange
<1>2. pos \in Nat /\ at \in Nat /\ remaining \in Nat
  BY <1>1 DEF TypeOK
<1>3. /\ pos = arg.offset + at + Len(buffered)
      /\ at + Len(buffered) + remaining <= ToOutput
  BY <1>1 DEF RangeInv
<1>4. ToOutput > 0 => arg.offset + ToOutput <= v.size
  BY <1>1, ToOutputType
<1>5. pos < v.size
  BY <1>1, <1>2, <1>3, <1>4
<1> QED
  BY <1>1, <1>2, <1>5, WantType

\* The invariant after a step that leaves the image and the arguments alone.
LEMMA RangeStep ==
    ASSUME IInv, st = "copying", arg.mode # "allocated",
           UNCHANGED <<v, arg, todo>>, st' # "start", TypeOK',
           Len(file') = Min2(at', arg.room),
           at' + Len(buffered') <= ToOutput,
           \A i \in 1..Len(file') : Holds(arg.offset + i - 1, file'[i]),
           \A i \in 1..Len(buffered') : Holds(arg.offset + at' + i - 1, buffered'[i]),
           st' = "copying" =>
               /\ pos' = arg.offset + at' + Len(buffered')
               /\ at' + Len(buffered') + remaining' <= ToOutput
               /\ Whole(v) => at' + Len(buffered') + remaining' = ToOutput,
           st' = "success" => (Whole(v) => at' = ToOutput)
    PROVE  IInv'
<1>1. v \in Views /\ arg \in Args /\ Ranging /\ IsView(v) /\ RangeInv
  BY InRange
<1>2. ToOutput' = ToOutput
  BY DEF ToOutput
<1>3. Carried'
  BY <1>2 DEF Carried, Holds
<1>4. RangeInv'
  BY <1>1, <1>2, <1>3 DEF RangeInv
<1>5. Ranging'
  BY <1>1, <1>4 DEF Ranging
<1> QED
  BY <1>1, <1>5 DEF IInv, Args

LEMMA RangeCopyInv ==
    ASSUME IInv, Copy, arg.mode # "allocated"
    PROVE  IInv'
<1> DEFINE s == ReadData(v, pos, Want)
           out == Spilled(s)
           k == Kept(s)
<1>1. /\ st = "copying" /\ remaining > 0
      /\ st' = IF Fits(out) \/ arg.mode = "hex" THEN st ELSE "failed"
      /\ file' = Written(out) /\ at' = at + Len(out) /\ buffered' = k
      /\ pos' = pos + Len(s) /\ remaining' = remaining - Len(s)
      /\ UNCHANGED <<v, arg, todo>>
  BY DEF Copy
<1>2. /\ TypeOK /\ arg \in Args /\ IsView(v) /\ RangeInv /\ Carried
      /\ ToOutput \in Nat /\ arg.offset \in Nat /\ arg.room \in Nat /\ Len(buffered) \in Nat
  BY <1>1, InRange
<1>3. pos \in Nat /\ pos < v.size /\ Want \in Nat /\ Want <= remaining /\ Want > 0
  BY <1>1, RangeOnDisk
<1>4. /\ at \in Nat /\ remaining \in Nat /\ buffered \in Seq(Nat) /\ file \in Seq(Nat)
  BY <1>2 DEF TypeOK
<1>5. /\ s \in Seq(Nat) /\ Len(s) \in Nat /\ Len(s) <= Want
      /\ \A i \in 1..Len(s) : Holds(pos + i - 1, s[i])
  <2>1. pos <= v.size
    BY <1>2, <1>3 DEF IsView
  <2> QED
    BY <1>2, <1>3, <2>1, ReadHolds
<1> HIDE DEF s
<1>6. WBUF \in Nat \ {0}
  BY DumpAssumption
<1>7. /\ out \in Seq(Nat) /\ k \in Seq(Nat) /\ Len(k) <= WBUF
      /\ Len(out) + Len(k) = Len(buffered) + Len(s)
      /\ \A i \in 1..Len(out) : out[i] = (buffered \o s)[i]
      /\ \A i \in 1..Len(k) : k[i] = (buffered \o s)[Len(out) + i]
  <2>1. Splits(s, out, k)
    BY <1>4, <1>5, <1>6, SpillKeep
  <2> HIDE DEF out, k
  <2> QED
    BY <2>1 DEF Splits
<1> HIDE DEF out, k
<1>8. PICK held \in Nat, taken \in Nat, passed \in Nat, kept \in Nat :
          /\ held = Len(buffered) /\ taken = Len(s) /\ passed = Len(out) /\ kept = Len(k)
          /\ passed + kept = held + taken
  BY <1>2, <1>5, <1>7
<1>9. /\ at' = at + passed /\ pos' = pos + taken /\ remaining' = remaining - taken
      /\ taken <= remaining /\ pos = arg.offset + at + held
      /\ arg.offset \in Nat /\ at \in Nat /\ remaining \in Nat /\ ToOutput \in Nat
      /\ held \in Nat /\ taken \in Nat /\ passed \in Nat /\ kept \in Nat
      /\ passed + kept = held + taken
  <2>1. taken <= remaining
    BY <1>3, <1>4, <1>5, <1>8
  <2> QED
    BY <1>1, <1>2, <1>4, <1>8, <2>1 DEF RangeInv
<1>10. \A i \in 1..(held + taken) : Holds(arg.offset + at + i - 1, (buffered \o s)[i])
  <2> SUFFICES ASSUME NEW i \in 1..(held + taken)
               PROVE  Holds(arg.offset + at + i - 1, (buffered \o s)[i])
    OBVIOUS
  <2>1. CASE i <= held
    <3>1. i \in 1..held
      BY <1>9, <2>1
    <3>2. (buffered \o s)[i] = buffered[i]
      BY <1>4, <1>5, <1>8, <3>1
    <3>3. Holds(arg.offset + at + i - 1, buffered[i])
      BY <1>2, <1>8, <3>1 DEF Carried
    <3> QED
      BY <3>2, <3>3
  <2>2. CASE i > held
    <3> DEFINE j == i - held
    <3>1. j \in 1..taken /\ pos + j - 1 = arg.offset + at + i - 1
      BY <1>9, <2>2
    <3>2. i \in (held + 1)..(held + taken)
      BY <1>9, <2>2
    <3>3. (buffered \o s)[i] = s[j]
      BY <1>4, <1>5, <1>8, <3>2
    <3> HIDE DEF j
    <3>4. Holds(pos + j - 1, s[j])
      BY <1>5, <1>8, <3>1
    <3> QED
      BY <3>1, <3>3, <3>4
  <2>3. i <= held \/ i > held
    BY <1>9
  <2> QED
    BY <2>1, <2>2, <2>3
<1>11. \A i \in 1..Len(out) : Holds(arg.offset + at + i - 1, out[i])
  <2> SUFFICES ASSUME NEW i \in 1..passed PROVE Holds(arg.offset + at + i - 1, out[i])
    BY <1>8
  <2>1. i \in 1..(held + taken)
    BY <1>9
  <2>2. out[i] = (buffered \o s)[i]
    BY <1>7, <1>8
  <2> QED
    BY <1>10, <2>1, <2>2
<1>12. \A i \in 1..Len(k) : Holds(arg.offset + at' + i - 1, k[i])
  <2> SUFFICES ASSUME NEW i \in 1..kept PROVE Holds(arg.offset + at' + i - 1, k[i])
    BY <1>8
  <2>1. /\ passed + i \in 1..(held + taken)
        /\ arg.offset + at + (passed + i) - 1 = arg.offset + at' + i - 1
    BY <1>9
  <2>2. Holds(arg.offset + at + (passed + i) - 1, (buffered \o s)[passed + i])
    BY <1>10, <2>1
  <2>3. k[i] = (buffered \o s)[passed + i]
    BY <1>7, <1>8
  <2> QED
    BY <2>1, <2>2, <2>3
<1>13. /\ file' \in Seq(Nat)
       /\ Len(file') = Min2(at', arg.room)
       /\ \A i \in 1..Len(file') : Holds(arg.offset + i - 1, file'[i])
  <2>1. /\ Len(file) = Min2(at, arg.room)
        /\ \A i \in 1..Len(file) : Holds(arg.offset + i - 1, file[i])
    BY <1>2 DEF Carried
  <2>2. /\ Written(out) \in Seq(Nat)
        /\ Len(Written(out)) = Min2(at + Len(out), arg.room)
        /\ \A i \in 1..Len(Written(out)) : Holds(arg.offset + i - 1, Written(out)[i])
    BY <1>2, <1>4, <1>7, <1>11, <2>1, RangeWritten
  <2> QED
    BY <1>1, <2>2
<1>14. /\ remaining' \in Nat /\ pos' \in Nat /\ at' \in Nat
       /\ at' + kept + remaining' = at + held + remaining
       /\ pos' = arg.offset + at' + kept
       /\ at' + kept <= at + held + remaining
  <2>1. remaining' \in Nat /\ pos' \in Nat /\ at' \in Nat
    BY <1>9
  <2>2. pos' = arg.offset + at' + kept
    BY <1>9
  <2>3. at' + kept + remaining' = at + held + remaining
    BY <1>9
  <2>4. at' + kept <= at + held + remaining
    BY <1>9
  <2> QED
    BY <2>1, <2>2, <2>3, <2>4
<1>15. /\ pos' = arg.offset + at' + Len(buffered')
       /\ at' + Len(buffered') + remaining' <= ToOutput
       /\ at' + Len(buffered') <= ToOutput
       /\ Whole(v) => at' + Len(buffered') + remaining' = ToOutput
  <2>1. /\ at + held + remaining <= ToOutput
        /\ Whole(v) => at + held + remaining = ToOutput
    BY <1>1, <1>2, <1>8 DEF RangeInv
  <2>2. at' + kept <= ToOutput
    BY <1>9, <1>14, <2>1
  <2>3. Len(buffered') = kept
    BY <1>1, <1>8
  <2> QED
    BY <1>14, <2>1, <2>2, <2>3
<1>16. TypeOK' /\ st' # "start" /\ st' # "success"
  BY <1>1, <1>7, <1>13, <1>14 DEF TypeOK
<1> QED
  BY <1>1, <1>12, <1>13, <1>15, <1>16, RangeStep

\* A range ends early only where the disk cannot be read.
LEMMA RangeEndsInv ==
    ASSUME IInv, CopyEnds, arg.mode # "allocated"
    PROVE  IInv'
<1>1. /\ st = "copying" /\ remaining > 0 /\ ReadData(v, pos, Want) = << >>
      /\ remaining' = 0
      /\ UNCHANGED <<v, arg, st, todo, pos, at, buffered, file>>
  BY DEF CopyEnds, Last
<1>2. /\ TypeOK /\ arg \in Args /\ IsView(v) /\ RangeInv /\ Carried /\ v.size \in Nat
      /\ ToOutput \in Nat /\ arg.offset \in Nat /\ Len(buffered) \in Nat
  BY <1>1, InRange
<1>3. pos \in Nat /\ pos < v.size /\ Want \in Nat /\ Want > 0
  BY <1>1, RangeOnDisk
<1>4. ~HasCell(v, pos)
  <2>1. pos <= v.size
    BY <1>2, <1>3
  <2> QED
    BY <1>1, <1>2, <1>3, <2>1, ReadHolds
<1>5. ~Whole(v)
  <2>1. pos \in 0..(v.size - 1)
    BY <1>2, <1>3
  <2> QED
    BY <1>4, <2>1 DEF Whole
<1>6. TypeOK'
  BY <1>1, <1>2 DEF TypeOK
<1>7. /\ pos = arg.offset + at + Len(buffered)
      /\ at + Len(buffered) <= ToOutput
  BY <1>1, <1>2 DEF RangeInv, Carried
<1>8. at \in Nat
  BY <1>2 DEF TypeOK
<1>9. at' + Len(buffered') + remaining' <= ToOutput
  BY <1>1, <1>2, <1>7, <1>8
<1>10. /\ Len(file') = Min2(at', arg.room)
       /\ \A i \in 1..Len(file') : Holds(arg.offset + i - 1, file'[i])
       /\ \A i \in 1..Len(buffered') : Holds(arg.offset + at' + i - 1, buffered'[i])
  BY <1>1, <1>2 DEF Carried
<1> QED
  BY <1>1, <1>5, <1>6, <1>7, <1>9, <1>10, RangeStep

\* Whatever the BufWriter holds is the next part of the range.
LEMMA RangeFlushInv ==
    ASSUME IInv, st = "copying", arg.mode # "allocated", Flush, st' \in {"success", "failed"},
           UNCHANGED <<v, arg, todo, remaining, pos>>, st' = "success" => remaining = 0
    PROVE  IInv'
<1>1. file' = Written(buffered) /\ at' = at + Len(buffered) /\ buffered' = << >>
  BY DEF Flush
<1>2. /\ TypeOK /\ arg \in Args /\ RangeInv /\ Carried
      /\ ToOutput \in Nat /\ arg.offset \in Nat /\ Len(buffered) \in Nat
  BY InRange
<1>3. at \in Nat /\ buffered \in Seq(Nat) /\ file \in Seq(Nat)
  BY <1>2 DEF TypeOK
<1>4. /\ file' \in Seq(Nat)
      /\ Len(file') = Min2(at', arg.room)
      /\ \A i \in 1..Len(file') : Holds(arg.offset + i - 1, file'[i])
  BY <1>1, <1>2, <1>3, RangeWritten DEF Carried
<1>5. at' \in Nat /\ Len(buffered') = 0 /\ at' + Len(buffered') <= ToOutput
  BY <1>1, <1>2, <1>3 DEF Carried
<1>6. TypeOK'
  <2>1. buffered' \in Seq(Nat) /\ Len(buffered') <= WBUF
    BY <1>1, <1>5, DumpAssumption
  <2> QED
    BY <1>2, <1>4, <1>5, <2>1 DEF TypeOK
<1>7. st' = "success" => (Whole(v) => at' = ToOutput)
  BY <1>1, <1>2, <1>3 DEF RangeInv
<1>8. \A i \in 1..Len(buffered') : Holds(arg.offset + at' + i - 1, buffered'[i])
  BY <1>5
<1>9. st' # "start" /\ st' # "copying"
  OBVIOUS
<1> QED
  BY <1>4, <1>5, <1>6, <1>7, <1>8, <1>9, RangeStep

----------------------------------------------------------------------------
(* Allocated grains                                                        *)

\* Before the first grain is copied, the holes are right where the disk is
\* zero, and everything else is to come.
LEMMA StartAllocatedInv == IInv /\ StartAllocated => IInv'
<1> SUFFICES ASSUME IInv, StartAllocated PROVE IInv'
  OBVIOUS
<1>0. /\ st = "start" /\ arg.mode = "allocated"
      /\ UNCHANGED <<v, arg, remaining, pos, at, buffered>>
  BY DEF StartAllocated
<1>1. TypeOK /\ v \in Views /\ arg \in Args /\ Fresh
  BY <1>0 DEF IInv, Ranging, Graining
<1>2. CASE v.size = -1 \/ arg.output # "file" \/ ~v.scans
  <2>1. st' = "failed" /\ UNCHANGED <<todo, file>>
    BY <1>2 DEF StartAllocated
  <2>2. TypeOK' /\ Fresh' /\ v' \in Views /\ arg' \in Args
    BY <1>0, <1>1, <2>1 DEF TypeOK, Fresh, Args
  <2> QED
    BY <2>1, <2>2 DEF IInv
<1>3. CASE ~(v.size = -1 \/ arg.output # "file" \/ ~v.scans)
  <2>1. st' = "copying" /\ todo' = v.grains /\ file' = [i \in 1..v.size |-> 0]
    BY <1>3 DEF StartAllocated
  <2>2. IsView(v) /\ ListsGrains(v) /\ v.size \in Nat
    BY <1>1, <1>3, DumpAssumption DEF IsView
  <2>3. file' \in Seq(Nat) /\ Len(file') = v.size /\ \A i \in 1..v.size : file'[i] = 0
    <3>1. file' \in [1..v.size -> Nat]
      BY <2>1
    <3>2. file' \in Seq(Nat) /\ DOMAIN file' = 1..v.size
      BY <2>2, <3>1
    <3>3. Len(file') \in Nat /\ DOMAIN file' = 1..Len(file')
      BY <3>2
    <3> QED
      BY <2>1, <2>2, <3>2, <3>3
  <2>4. TypeOK' /\ v' \in Views /\ arg' \in Args
    BY <1>0, <1>1, <2>1, <2>3 DEF TypeOK, Args
  <2>5. todo' \in Seq([start : 0..v.size, len : Nat])
    BY <2>1, <2>2 DEF ListsGrains
  <2>6. ASSUME NEW i \in 1..v.size
        PROVE  (Holds(i - 1, file[i]) \/ Skipped(i - 1) \/ Pending(i - 1))'
    <3>1. i - 1 \in 0..(v.size - 1) /\ i - 1 < v.size
      BY <2>2
    <3>2. CASE ~HasCell(v, i - 1)
      BY <1>0, <3>2 DEF Skipped
    <3>3. CASE HasCell(v, i - 1) /\ v.cells[i - 1].val = 0
      BY <1>0, <2>3, <3>1, <3>3 DEF Holds
    <3>4. CASE HasCell(v, i - 1) /\ v.cells[i - 1].val # 0
      <4>1. \E k \in 1..Len(v.grains) :
               v.grains[k].start <= i - 1 /\ i - 1 < v.grains[k].start + v.grains[k].len
        BY <2>2, <3>1, <3>4 DEF ListsGrains
      <4> QED
        BY <2>1, <4>1 DEF Pending
    <3> QED
      BY <3>2, <3>3, <3>4
  <2>7. \A j \in 1..Len(todo') : \E k \in 1..Len(v.grains) : todo'[j] = v.grains[k]
    BY <2>1
  <2>8. GrainInv'
    <3>1. buffered' = << >> /\ at' = pos' /\ pos' = 0 /\ remaining' = 0 /\ v' = v
      BY <1>0, <1>1 DEF Fresh
    <3>2. \A i \in 1..v.size : file'[i] = 0
      BY <2>3
    <3>3. pos' <= v'.size /\ ~(remaining' > 0)
      BY <2>2, <3>1
    <3> QED
      BY <2>1, <2>3, <2>5, <2>6, <2>7, <3>1, <3>3 DEF GrainInv
  <2>9. Graining'
    BY <1>0, <2>1, <2>2, <2>8 DEF Graining
  <2> QED
    BY <2>4, <2>9 DEF IInv
<1> QED
  BY <1>2, <1>3

\* What holds while grains are copied.
LEMMA InGrains ==
    ASSUME IInv, st = "copying", arg.mode = "allocated"
    PROVE  /\ TypeOK /\ v \in Views /\ arg \in Args
           /\ IsView(v) /\ ListsGrains(v) /\ GrainInv /\ v.size \in Nat
           /\ at = pos /\ pos \in Nat /\ pos <= v.size /\ remaining \in Nat
           /\ todo \in Seq([start : 0..v.size, len : Nat]) /\ Len(todo) \in Nat
           /\ file \in Seq(Nat) /\ Len(file) = v.size /\ buffered = << >>
<1>1. TypeOK /\ v \in Views /\ arg \in Args /\ Graining
  BY DEF IInv, Ranging
<1>2. IsView(v) /\ ListsGrains(v) /\ GrainInv
  BY <1>1 DEF Graining
<1>3. v.size \in Nat /\ pos \in Nat /\ remaining \in Nat /\ file \in Seq(Nat)
  BY <1>1, <1>2 DEF IsView, TypeOK
<1>4. /\ at = pos /\ pos <= v.size /\ todo \in Seq([start : 0..v.size, len : Nat])
      /\ Len(file) = v.size /\ buffered = << >>
  BY <1>2 DEF GrainInv
<1>5. Len(todo) \in Nat
  BY <1>4
<1> QED
  BY <1>1, <1>2, <1>3, <1>4, <1>5

\* The invariant after a step that leaves the image and the arguments alone.
LEMMA GrainStep ==
    ASSUME IInv, st = "copying", arg.mode = "allocated",
           UNCHANGED <<v, arg>>, st' # "start", TypeOK', GrainInv'
    PROVE  IInv'
<1>1. v \in Views /\ arg \in Args /\ IsView(v) /\ ListsGrains(v)
  BY InGrains
<1>2. Graining'
  BY <1>1 DEF Graining
<1> QED
  BY <1>1, <1>2 DEF IInv, Args

LEMMA NextGrainInv == IInv /\ NextGrain => IInv'
<1> SUFFICES ASSUME IInv, NextGrain PROVE IInv'
  OBVIOUS
<1>1. /\ st = "copying" /\ remaining = 0 /\ todo # << >>
      /\ pos' = Head(todo).start /\ at' = Head(todo).start /\ remaining' = Head(todo).len
      /\ todo' = Tail(todo)
      /\ UNCHANGED <<v, arg, st, buffered, file>>
  BY DEF NextGrain
<1>2. arg.mode = "allocated"
  BY <1>1 DEF IInv, Ranging, Graining, RangeInv
<1>3. /\ TypeOK /\ GrainInv /\ v.size \in Nat /\ pos \in Nat
      /\ todo \in Seq([start : 0..v.size, len : Nat]) /\ Len(todo) \in Nat
  BY <1>1, <1>2, InGrains
<1>4. /\ Len(todo) >= 1 /\ 1 \in 1..Len(todo) /\ Head(todo) = todo[1]
      /\ todo[1].start \in 0..v.size /\ todo[1].len \in Nat
      /\ todo' \in Seq([start : 0..v.size, len : Nat])
      /\ Len(todo') = Len(todo) - 1
      /\ \A j \in 1..Len(todo') : todo'[j] = todo[j + 1]
  <2>1. Len(todo) >= 1 /\ 1 \in 1..Len(todo) /\ Head(todo) = todo[1]
    BY <1>1, <1>3
  <2>2. todo[1] \in [start : 0..v.size, len : Nat]
    <3> DEFINE G == [start : 0..v.size, len : Nat]
    <3>1. todo \in Seq(G)
      BY <1>3
    <3> HIDE DEF G
    <3>2. todo[1] \in G
      BY <2>1, <3>1
    <3> QED
      BY <3>2 DEF G
  <2>3. todo' \in Seq([start : 0..v.size, len : Nat]) /\ Len(todo') = Len(todo) - 1
    BY <1>1, <1>3
  <2>4. \A j \in 1..Len(todo') : todo'[j] = todo[j + 1]
    BY <1>1, <1>3, <2>3
  <2> QED
    BY <2>1, <2>2, <2>3, <2>4
<1> DEFINE h == todo[1]
<1>5. h.start \in Nat /\ h.start <= v.size /\ h.len \in Nat
  BY <1>3, <1>4
<1>6. pos' = h.start /\ at' = h.start /\ remaining' = h.len
  BY <1>1, <1>4
<1>7. TypeOK'
  BY <1>1, <1>3, <1>5, <1>6 DEF TypeOK
<1>8. \A j \in 1..Len(todo) : \E k \in 1..Len(v.grains) : todo[j] = v.grains[k]
  BY <1>1, <1>3 DEF GrainInv
<1>9. InGrain'
  <2>1. PICK k \in 1..Len(v.grains) : h = v.grains[k]
    BY <1>4, <1>8
  <2>2. v.grains[k].start <= pos' /\ pos' + remaining' = v.grains[k].start + v.grains[k].len
    BY <1>5, <1>6, <2>1
  <2> QED
    BY <1>1, <2>2 DEF InGrain
<1>10. ASSUME NEW o \in Int, Pending(o) PROVE Pending(o)'
  <2>1. ~(pos <= o /\ o < pos + remaining)
    BY <1>1, <1>3
  <2>2. PICK j \in 1..Len(todo) : todo[j].start <= o /\ o < todo[j].start + todo[j].len
    BY <1>10, <2>1 DEF Pending
  <2>3. CASE j = 1
    BY <1>6, <2>2, <2>3 DEF Pending
  <2>4. CASE j # 1
    <3>1. j - 1 \in 1..Len(todo') /\ todo'[j - 1] = todo[j]
      BY <1>3, <1>4, <2>4
    <3> QED
      BY <2>2, <3>1 DEF Pending
  <2> QED
    BY <2>3, <2>4
<1>11. \A i \in 1..v.size : (Holds(i - 1, file[i]) \/ Skipped(i - 1) \/ Pending(i - 1))'
  <2> SUFFICES ASSUME NEW i \in 1..v.size
               PROVE  (Holds(i - 1, file[i]) \/ Skipped(i - 1) \/ Pending(i - 1))'
    OBVIOUS
  <2>1. Holds(i - 1, file[i]) \/ Skipped(i - 1) \/ Pending(i - 1)
    BY <1>1, <1>3 DEF GrainInv
  <2>2. Holds(i - 1, file[i]) => Holds(i - 1, file[i])'
    BY <1>1 DEF Holds
  <2>3. Skipped(i - 1) => Skipped(i - 1)'
    BY <1>1 DEF Skipped
  <2>4. Pending(i - 1) => Pending(i - 1)'
    BY <1>10
  <2> QED
    BY <2>1, <2>2, <2>3, <2>4
<1>12. \A j \in 1..Len(todo') : \E k \in 1..Len(v.grains) : todo'[j] = v.grains[k]
  <2> SUFFICES ASSUME NEW j \in 1..Len(todo')
               PROVE  \E k \in 1..Len(v.grains) : todo'[j] = v.grains[k]
    OBVIOUS
  <2>1. todo'[j] = todo[j + 1]
    BY <1>4
  <2>2. j + 1 \in 1..Len(todo)
    <3>1. PICK n \in Nat : n = Len(todo)
      BY <1>3
    <3>2. j \in 1..(n - 1)
      BY <1>4, <3>1
    <3>3. j + 1 \in 1..n
      BY <3>1, <3>2
    <3> QED
      BY <3>1, <3>3
  <2> QED
    BY <1>8, <2>1, <2>2
<1>13. GrainInv'
  <2>1. \A i \in 1..v.size : (file[i] = 0 \/ Holds(i - 1, file[i]))'
    BY <1>1, <1>3 DEF GrainInv, Holds
  <2>2. buffered' = << >> /\ Len(file') = v'.size /\ st' # "success"
    BY <1>1, <1>3 DEF GrainInv
  <2>3. at' = pos' /\ pos' <= v'.size
    BY <1>1, <1>5, <1>6
  <2> QED
    BY <1>1, <1>4, <1>9, <1>11, <1>12, <2>1, <2>2, <2>3 DEF GrainInv
<1> QED
  BY <1>1, <1>2, <1>7, <1>13, GrainStep

\* The read and the write of one turn, at one place of the disk.
LEMMA GrainCopyInv ==
    ASSUME IInv, Copy, arg.mode = "allocated"
    PROVE  IInv'
<1> DEFINE s == ReadData(v, pos, Want)
           m == IF Min2(at + Len(s), arg.room) > at THEN Min2(at + Len(s), arg.room) ELSE at
<1>1. /\ st = "copying" /\ remaining > 0
      /\ st' = IF Fits(s) THEN st ELSE "failed"
      /\ file' = Written(s) /\ at' = at + Len(s) /\ buffered' = << >>
      /\ pos' = pos + Len(s) /\ remaining' = remaining - Len(s)
      /\ UNCHANGED <<v, arg, todo>>
  BY DEF Copy, Spilled, Kept
<1>2. /\ TypeOK /\ arg \in Args /\ IsView(v) /\ GrainInv /\ v.size \in Nat
      /\ at = pos /\ pos \in Nat /\ pos <= v.size /\ remaining \in Nat
      /\ file \in Seq(Nat) /\ Len(file) = v.size /\ buffered = << >>
  BY <1>1, InGrains
<1>3. Want \in Nat /\ Want <= remaining /\ arg.room \in Nat
  BY <1>2, WantType, ArgTypes
<1>4. /\ s \in Seq(Nat) /\ Len(s) \in Nat /\ Len(s) <= Want /\ pos + Len(s) <= v.size
      /\ \A i \in 1..Len(s) : Holds(pos + i - 1, s[i])
  BY <1>2, <1>3, ReadHolds
<1> HIDE DEF s
<1>5. /\ file' \in Seq(Nat)
      /\ m \in Nat /\ at <= m /\ m <= at + Len(s)
      /\ Len(file') = IF at < m /\ m > Len(file) THEN m ELSE Len(file)
      /\ \A i \in 1..Len(file') : file'[i] = IF at < i /\ i <= m THEN s[i - at] ELSE file[i]
  <2>1. Len(file) >= Min2(at, arg.room) /\ at \in Nat
    BY <1>2, <1>3 DEF Min2
  <2> QED
    <3> DEFINE f == Written(s)
    <3>1. arg \in Args /\ file \in Seq(Nat) /\ s \in Seq(Nat)
      BY <1>2, <1>4
    <3>2. /\ f \in Seq(Nat)
          /\ m \in Nat /\ at <= m /\ m <= at + Len(s)
          /\ Len(f) = IF at < m /\ m > Len(file) THEN m ELSE Len(file)
          /\ \A i \in 1..Len(f) : f[i] = IF at < i /\ i <= m THEN s[i - at] ELSE file[i]
      BY <2>1, <3>1, WrittenIs
    <3> HIDE DEF f, m
    <3>3. file' = f
      BY <1>1 DEF f
    <3> QED
      BY <3>2, <3>3
<1>6. Fits(s) => m = at + Len(s)
  <2>1. ASSUME s = << >> PROVE m = at + Len(s)
    <3>1. Len(s) = 0
      BY <2>1
    <3> QED
      BY <1>2, <3>1, <1>5
  <2>2. ASSUME at + Len(s) <= arg.room PROVE m = at + Len(s)
    BY <1>2, <1>3, <1>4, <2>2 DEF Min2
  <2> QED
    BY <2>1, <2>2 DEF Fits
<1> HIDE DEF m
<1>7. Len(file') = v.size
  BY <1>2, <1>4, <1>5
<1>8. remaining' \in Nat /\ pos' \in Nat /\ at' = pos' /\ pos' <= v.size
  BY <1>1, <1>2, <1>3, <1>4
<1>9. TypeOK'
  <2>1. buffered' \in Seq(Nat) /\ Len(buffered') <= WBUF
    BY <1>1, <1>2 DEF TypeOK
  <2> QED
    BY <1>1, <1>5, <1>8, <2>1 DEF TypeOK
<1>10. ASSUME NEW i \in 1..v.size, at < i, i <= m PROVE Holds(i - 1, file'[i])
  <2>1. i - at \in 1..Len(s) /\ pos + (i - at) - 1 = i - 1
    <3>1. at \in Nat /\ at = pos /\ m \in Nat /\ m <= at + Len(s) /\ Len(s) \in Nat
      BY <1>2, <1>4, <1>5
    <3> QED
      BY <1>10, <3>1
  <2>2. file'[i] = s[i - at]
    BY <1>5, <1>7, <1>10
  <2>3. Holds(pos + (i - at) - 1, s[i - at])
    BY <1>4, <2>1
  <2> QED
    BY <2>1, <2>2, <2>3
<1>11. ASSUME NEW i \in 1..v.size, ~(at < i /\ i <= m) PROVE file'[i] = file[i]
  BY <1>5, <1>7, <1>11
<1>12. \A i \in 1..v.size : file'[i] = 0 \/ Holds(i - 1, file'[i])
  <2>1. \A i \in 1..v.size : file[i] = 0 \/ Holds(i - 1, file[i])
    BY <1>2 DEF GrainInv
  <2> QED
    BY <1>10, <1>11, <2>1
<1>13. CASE Fits(s)
  <2>1. st' = "copying" /\ m = at + Len(s)
    BY <1>1, <1>6, <1>13
  <2>2. /\ remaining > 0 => InGrain
        /\ \A j \in 1..Len(todo) : \E k \in 1..Len(v.grains) : todo[j] = v.grains[k]
        /\ todo \in Seq([start : 0..v.size, len : Nat])
    BY <1>1, <1>2 DEF GrainInv
  <2>3. InGrain'
    <3>1. PICK k \in 1..Len(v.grains) :
              v.grains[k].start <= pos /\ pos + remaining = v.grains[k].start + v.grains[k].len
      BY <1>1, <2>2 DEF InGrain
    <3>2. v.grains \in Seq([start : 0..v.size, len : Nat])
      BY <1>1, InGrains DEF ListsGrains
    <3>3. v.grains[k].start \in Nat
      <4> DEFINE G == [start : 0..v.size, len : Nat]
      <4>1. v.grains \in Seq(G)
        BY <3>2
      <4> HIDE DEF G
      <4>2. v.grains[k] \in G
        BY <4>1
      <4> QED
        BY <1>2, <4>2 DEF G
    <3>4. v.grains[k].start <= pos' /\ pos' + remaining' = pos + remaining
      BY <1>1, <1>2, <1>4, <3>1, <3>3
    <3> QED
      BY <1>1, <3>1, <3>4 DEF InGrain
  <2>4. ASSUME NEW i \in 1..v.size
        PROVE  (Holds(i - 1, file[i]) \/ Skipped(i - 1) \/ Pending(i - 1))'
    <3>0. Holds(i - 1, file[i]) \/ Skipped(i - 1) \/ Pending(i - 1)
      BY <1>1, <1>2 DEF GrainInv
    <3>1. CASE at < i /\ i <= m
      BY <1>1, <1>10, <3>1 DEF Holds
    <3>2. CASE ~(at < i /\ i <= m)
      <4>1. file'[i] = file[i]
        BY <1>11, <3>2
      <4>2. Holds(i - 1, file[i]) => Holds(i - 1, file[i])'
        BY <1>1, <4>1 DEF Holds
      <4>3. Skipped(i - 1) => Skipped(i - 1)'
        BY <1>1 DEF Skipped
      <4>4. Pending(i - 1) => Pending(i - 1)'
        <5>1. ASSUME pos <= i - 1, i - 1 < pos + remaining
              PROVE  pos' <= i - 1 /\ i - 1 < pos' + remaining'
          BY <1>1, <1>2, <1>4, <2>1, <3>2, <5>1
        <5> QED
          BY <1>1, <5>1 DEF Pending
      <4> QED
        BY <3>0, <4>2, <4>3, <4>4
    <3> QED
      BY <3>1, <3>2
  <2>5. GrainInv'
    <3>1. \A i \in 1..v.size : (file[i] = 0 \/ Holds(i - 1, file[i]))'
      BY <1>1, <1>12 DEF Holds
    <3> QED
      BY <1>1, <1>7, <1>8, <2>1, <2>2, <2>3, <2>4, <3>1 DEF GrainInv
  <2> QED
    BY <1>1, <1>9, <2>1, <2>5, GrainStep
<1>14. CASE ~Fits(s)
  <2>1. st' = "failed"
    BY <1>1, <1>14
  <2>2. \A i \in 1..v.size : (file[i] = 0 \/ Holds(i - 1, file[i]))'
    BY <1>1, <1>12 DEF Holds
  <2>3. GrainInv'
    BY <1>1, <1>7, <2>1, <2>2 DEF GrainInv
  <2> QED
    BY <1>1, <1>9, <2>1, <2>3, GrainStep
<1> QED
  BY <1>13, <1>14

\* A grain that ends early leaves its rest skipped.
LEMMA GrainEndsInv ==
    ASSUME IInv, CopyEnds, arg.mode = "allocated"
    PROVE  IInv'
<1>1. /\ st = "copying" /\ remaining > 0 /\ ReadData(v, pos, Want) = << >>
      /\ remaining' = 0
      /\ UNCHANGED <<v, arg, st, todo, pos, at, buffered, file>>
  BY DEF CopyEnds, Last
<1>2. /\ TypeOK /\ arg \in Args /\ IsView(v) /\ GrainInv /\ v.size \in Nat
      /\ pos \in Nat /\ pos <= v.size /\ remaining \in Nat
      /\ v.grains \in Seq([start : 0..v.size, len : Nat])
  BY <1>1, InGrains DEF ListsGrains
<1>3. Want \in Nat /\ Want > 0
  BY <1>1, <1>2, WantType
<1>4. pos < v.size => ~HasCell(v, pos)
  BY <1>1, <1>2, <1>3, ReadHolds
<1>5. TypeOK'
  BY <1>1, <1>2 DEF TypeOK
<1>6. PICK k \in 1..Len(v.grains) :
          v.grains[k].start <= pos /\ pos + remaining = v.grains[k].start + v.grains[k].len
  BY <1>1, <1>2 DEF GrainInv, InGrain
<1>7. v.grains[k].start \in Nat /\ v.grains[k].len \in Nat
  <2> DEFINE G == [start : 0..v.size, len : Nat]
  <2>1. v.grains \in Seq(G)
    BY <1>2
  <2> HIDE DEF G
  <2>2. v.grains[k] \in G
    BY <2>1
  <2> QED
    BY <1>2, <2>2 DEF G
<1>8. ASSUME NEW i \in 1..v.size, pos <= i - 1, i - 1 < pos + remaining
      PROVE  Skipped(i - 1)
  <2>1. /\ v.grains[k].start <= i - 1 /\ i - 1 < v.grains[k].start + v.grains[k].len
        /\ pos \in v.grains[k].start..(i - 1) /\ pos < v.size
    <3>1. i \in Nat /\ pos \in Nat /\ remaining \in Nat /\ v.size \in Nat /\ i <= v.size
      BY <1>2, <1>8
    <3>2. pos <= i - 1 /\ i - 1 < pos + remaining
      BY <1>8
    <3> QED
      BY <1>6, <1>7, <3>1, <3>2
  <2> QED
    BY <1>4, <2>1 DEF Skipped
<1>9. ASSUME NEW i \in 1..v.size
      PROVE  (Holds(i - 1, file[i]) \/ Skipped(i - 1) \/ Pending(i - 1))'
  <2>1. Holds(i - 1, file[i]) \/ Skipped(i - 1) \/ Pending(i - 1)
    BY <1>1, <1>2 DEF GrainInv
  <2>2. Holds(i - 1, file[i]) => Holds(i - 1, file[i])'
    BY <1>1 DEF Holds
  <2>3. Skipped(i - 1) => Skipped(i - 1)'
    BY <1>1 DEF Skipped
  <2>4. Pending(i - 1) => Skipped(i - 1) \/ Pending(i - 1)'
    BY <1>1, <1>8 DEF Pending
  <2> QED
    BY <2>1, <2>2, <2>3, <2>4
<1>10. GrainInv'
  <2>1. \A i \in 1..v.size : (file[i] = 0 \/ Holds(i - 1, file[i]))'
    BY <1>1, <1>2 DEF GrainInv, Holds
  <2>2. ~(remaining' > 0) /\ st' = "copying"
    BY <1>1
  <2>3. (at = pos /\ pos <= v.size)' /\ (buffered = << >> /\ Len(file) = v.size)'
    BY <1>1, <1>2 DEF GrainInv
  <2>4. /\ (todo \in Seq([start : 0..v.size, len : Nat]))'
        /\ (\A j \in 1..Len(todo) : \E x \in 1..Len(v.grains) : todo[j] = v.grains[x])'
    BY <1>1, <1>2 DEF GrainInv
  <2>5. \A i \in 1..v.size : (Holds(i - 1, file[i]) \/ Skipped(i - 1) \/ Pending(i - 1))'
    BY <1>9
  <2> QED
    BY <1>1, <2>1, <2>2, <2>3, <2>4, <2>5 DEF GrainInv
<1> QED
  BY <1>1, <1>5, <1>10, GrainStep

\* Nothing is buffered, so the end of the dump writes nothing.
LEMMA GrainFlushInv ==
    ASSUME IInv, st = "copying", arg.mode = "allocated", Flush, st' \in {"success", "failed"},
           UNCHANGED <<v, arg, todo, remaining, pos>>,
           st' = "success" => remaining = 0 /\ todo = << >>
    PROVE  IInv'
<1>1. file' = Written(buffered) /\ at' = at + Len(buffered) /\ buffered' = << >>
  BY DEF Flush
<1>2. /\ TypeOK /\ arg \in Args /\ GrainInv /\ v.size \in Nat
      /\ at = pos /\ pos \in Nat /\ buffered = << >> /\ Len(file) = v.size
  BY InGrains
<1>3. file' = file /\ at' = at
  <2>1. Len(buffered) = 0 /\ arg.room \in Nat
    BY <1>2, ArgTypes
  <2>2. Min2(Len(buffered), IF arg.room > at THEN arg.room - at ELSE 0) = 0
    BY <1>2, <2>1 DEF Min2
  <2> QED
    BY <1>1, <1>2, <2>1, <2>2 DEF Written
<1>4. TypeOK'
  BY <1>1, <1>2, <1>3 DEF TypeOK
<1>5. \A i \in 1..v.size : (file[i] = 0 \/ Holds(i - 1, file[i]))'
  BY <1>2, <1>3 DEF GrainInv, Holds
<1>6. ASSUME st' = "success", NEW i \in 1..v.size
      PROVE  (Holds(i - 1, file[i]) \/ Skipped(i - 1))'
  <2>1. Holds(i - 1, file[i]) \/ Skipped(i - 1) \/ Pending(i - 1)
    BY <1>2 DEF GrainInv
  <2>2. ~Pending(i - 1)
    <3>1. remaining = 0 /\ Len(todo) = 0
      BY <1>6
    <3> QED
      BY <1>2, <3>1 DEF Pending
  <2>3. Holds(i - 1, file[i]) => Holds(i - 1, file[i])'
    BY <1>3 DEF Holds
  <2>4. Skipped(i - 1) => Skipped(i - 1)'
    BY DEF Skipped
  <2> QED
    BY <2>1, <2>2, <2>3, <2>4
<1>7. GrainInv'
  <2>1. st' # "copying" /\ buffered' = << >> /\ Len(file') = v'.size
    BY <1>1, <1>2, <1>3
  <2> QED
    BY <1>5, <1>6, <2>1 DEF GrainInv
<1> QED
  BY <1>4, <1>7, GrainStep

----------------------------------------------------------------------------
(* The results                                                             *)

LEMMA CopyInv == IInv /\ Copy => IInv'
BY RangeCopyInv, GrainCopyInv

LEMMA CopyEndsInv == IInv /\ CopyEnds => IInv'
BY RangeEndsInv, GrainEndsInv

LEMMA CopyFailsInv == IInv /\ CopyFails => IInv'
<1> SUFFICES ASSUME IInv, CopyFails PROVE IInv'
  OBVIOUS
<1>1. /\ st = "copying" /\ st' = "failed" /\ Flush
      /\ UNCHANGED <<v, arg, todo, remaining, pos>>
  BY DEF CopyFails
<1> QED
  BY <1>1, RangeFlushInv, GrainFlushInv

LEMMA FinishInv == IInv /\ Finish => IInv'
<1> SUFFICES ASSUME IInv, Finish PROVE IInv'
  OBVIOUS
<1>1. /\ st = "copying" /\ remaining = 0 /\ todo = << >> /\ st' = "success" /\ Flush
      /\ UNCHANGED <<v, arg, todo, remaining, pos>>
  BY DEF Finish
<1> QED
  BY <1>1, RangeFlushInv, GrainFlushInv

LEMMA NextInv == IInv /\ [Next]_vars => IInv'
<1>1. IInv /\ UNCHANGED vars => IInv'
  <2> SUFFICES ASSUME IInv, UNCHANGED vars PROVE IInv'
    OBVIOUS
  <2>1. UNCHANGED <<v, arg, st, todo, remaining, pos, at, buffered, file>>
    BY DEF vars
  <2>2. TypeOK' /\ (v \in Views)' /\ (arg \in Args)'
    BY <2>1 DEF IInv, TypeOK, Args
  <2>3. Fresh => Fresh'
    BY <2>1 DEF Fresh
  <2>4. Ranging => Ranging'
    BY <2>1 DEF Ranging, RangeInv, Carried, ToOutput, Holds
  <2>5. Graining => Graining'
    BY <2>1 DEF Graining, GrainInv, InGrain, Holds, Skipped, Pending
  <2> QED
    BY <2>1, <2>2, <2>3, <2>4, <2>5 DEF IInv
<1> QED
  BY <1>1, StartRangeInv, StartAllocatedInv, NextGrainInv, CopyInv, CopyEndsInv, CopyFailsInv,
     FinishInv DEF Next

LEMMA Invariance == Spec => []IInv
BY InitInv, NextInv, PTL DEF Spec

\* The cursors of a dump never become negative, no read returns more than was
\* asked for, and the BufWriter never holds more than its capacity.
THEOREM TypeCorrect == Spec => []TypeOK
<1>1. IInv => TypeOK
  BY DEF IInv
<1> QED
  BY <1>1, Invariance, PTL

\* Complete or not, whatever could not be read or written, a dump leaves no
\* cell behind that is not the disk's at its place.
THEOREM NoWrongCells == Spec => []NoWrongCell
<1>1. ASSUME IInv PROVE NoWrongCell
  <2> SUFFICES ASSUME NEW i \in 1..Len(file)
               PROVE  \/ /\ Base + i <= v.size
                         /\ HasCell(v, Base + i - 1)
                         /\ file[i] = v.cells[Base + i - 1].val
                      \/ /\ arg.mode = "allocated"
                         /\ file[i] = 0
                         /\ st # "success" \/ Skipped(i - 1)
    BY DEF NoWrongCell
  <2>1. CASE Fresh
    BY <2>1 DEF Fresh
  <2>2. CASE Ranging
    <3>1. /\ Base = arg.offset /\ Holds(arg.offset + i - 1, file[i])
          /\ v.size \in Nat /\ arg.offset \in Nat
      BY <1>1, <2>2, ArgTypes DEF Ranging, RangeInv, Carried, Base, IInv, IsView
    <3>2. arg.offset + i <= v.size
      BY <3>1 DEF Holds
    <3> QED
      BY <3>1, <3>2 DEF Holds
  <2>3. CASE Graining
    <3>1. /\ Base = 0 /\ arg.mode = "allocated" /\ i \in 1..v.size /\ v.size \in Nat
          /\ file[i] = 0 \/ Holds(i - 1, file[i])
          /\ st = "success" => Holds(i - 1, file[i]) \/ Skipped(i - 1)
      BY <2>3 DEF Graining, GrainInv, Base, IsView
    <3>2. Base + i = i /\ Base + i - 1 = i - 1
      BY <3>1
    <3>3. Holds(i - 1, file[i]) =>
              /\ Base + i <= v.size
              /\ HasCell(v, Base + i - 1)
              /\ file[i] = v.cells[Base + i - 1].val
      BY <3>1, <3>2 DEF Holds
    <3> QED
      BY <3>1, <3>3
  <2> QED
    BY <1>1, <2>1, <2>2, <2>3 DEF IInv
<1>2. IInv => NoWrongCell
  BY <1>1
<1> QED
  BY <1>2, Invariance, PTL

\* A dump that succeeds on a readable disk, with room for it, is the whole range
\* asked for; one of the allocated grains is the whole disk.
THEOREM DumpIsComplete == Spec => []DumpComplete
<1>1. ASSUME IInv PROVE DumpComplete
  <2> SUFFICES ASSUME st = "success", Whole(v), arg.room >= Asked PROVE Complete
    BY DEF DumpComplete
  <2>1. CASE Ranging
    <3>1. /\ Asked = ToOutput /\ Base = arg.offset /\ at = ToOutput
          /\ Len(file) = Min2(at, arg.room)
          /\ \A i \in 1..Len(file) : Holds(arg.offset + i - 1, file[i])
      BY <2>1 DEF Ranging, RangeInv, Carried, Asked, Base
    <3>2. ToOutput \in Nat /\ arg.room \in Nat
      BY <1>1, <2>1, ToOutputType, ArgTypes DEF IInv, Ranging, IsView
    <3>3. Len(file) = ToOutput
      BY <3>1, <3>2 DEF Min2
    <3> QED
      BY <3>1, <3>3 DEF Complete, Holds
  <2>2. CASE Graining
    <3>1. /\ Asked = v.size /\ Base = 0 /\ Len(file) = v.size /\ v.size \in Nat
          /\ v.grains \in Seq([start : 0..v.size, len : Nat])
          /\ \A i \in 1..v.size : Holds(i - 1, file[i]) \/ Skipped(i - 1)
      BY <2>2 DEF Graining, GrainInv, ListsGrains, Asked, Base, IsView
    <3>2. ASSUME NEW i \in 1..v.size PROVE Holds(i - 1, file[i])
      <4> SUFFICES ASSUME Skipped(i - 1) PROVE FALSE
        BY <3>1
      <4>1. i - 1 \in 0..(v.size - 1)
        BY <3>1
      <4>2. HasCell(v, i - 1)
        BY <4>1 DEF Whole
      <4>3. PICK k \in 1..Len(v.grains) : \E x \in v.grains[k].start..(i - 1) : ~HasCell(v, x)
        BY <4>2 DEF Skipped
      <4>4. v.grains[k].start \in Nat
        <5> DEFINE G == [start : 0..v.size, len : Nat]
        <5>1. v.grains \in Seq(G)
          BY <3>1
        <5> HIDE DEF G
        <5>2. v.grains[k] \in G
          BY <5>1
        <5> QED
          BY <3>1, <5>2 DEF G
      <4>5. PICK x \in v.grains[k].start..(i - 1) : ~HasCell(v, x)
        BY <4>3
      <4>6. x \in 0..(v.size - 1)
        <5> DEFINE low == v.grains[k].start
                   size == v.size
        <5>1. x \in low..(i - 1) /\ low \in Nat /\ i \in 1..size /\ size \in Nat
          BY <3>1, <4>1, <4>4, <4>5
        <5> HIDE DEF low, size
        <5>2. x \in 0..(size - 1)
          BY <5>1
        <5> QED
          BY <5>2 DEF size
      <4> QED
        BY <4>5, <4>6 DEF Whole
    <3>3. \A i \in 1..v.size : Base + i - 1 = i - 1
      BY <3>1
    <3> QED
      BY <3>1, <3>2, <3>3 DEF Complete, Holds
  <2> QED
    BY <1>1, <2>1, <2>2 DEF IInv
<1>2. IInv => DumpComplete
  BY <1>1
<1> QED
  BY <1>2, Invariance, PTL
=============================================================================
