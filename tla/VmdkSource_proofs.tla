------------------------- MODULE VmdkSource_proofs --------------------------
(***************************************************************************)
(* Safety of VmdkSource for any number of threads, disks and requests.     *)
(***************************************************************************)
EXTENDS VmdkSource, TLAPS

\* The inductive invariant.
IInv == TypeOK /\ CursorIsMine

Requests == [offset : Offsets, len : BufLens]

\* A request wants a natural number of cells, all of them on the disk.
LEMMA WantType ==
    ASSUME len \in Nat, NEW r \in Requests
    PROVE  Want(r) \in Nat /\ r.offset \in Nat
<1>1. r.offset \in Nat /\ r.len \in Nat
  BY SourceAssumption DEF Requests
<1> QED
  BY <1>1 DEF Want, Min2

\* A run of cells that are there is a sequence of their values.
LEMMA RunType ==
    ASSUME TypeOK, NEW n \in Nat, NEW m \in Nat, n \in Reader!Runs(pos, m)
    PROVE  /\ Reader!Run(pos, n) \in Seq(Nat)
           /\ Len(Reader!Run(pos, n)) = n
           /\ n <= m
<1>1. n <= m /\ \A i \in 0..(n - 1) : pos + i < len
  BY DEF Reader!Runs, Reader!Has
<1>2. \A i \in 1..n : disk[pos + i - 1].val \in Nat
  <2> SUFFICES ASSUME NEW i \in 1..n PROVE disk[pos + i - 1].val \in Nat
    OBVIOUS
  <2>1. pos + (i - 1) < len
    BY <1>1
  <2>2. pos + i - 1 \in 0..(len - 1)
    BY <2>1 DEF TypeOK
  <2>3. disk[pos + i - 1] \in Cells
    BY <2>2 DEF TypeOK
  <2> QED
    BY <2>3 DEF Cells
<1>3. Reader!Run(pos, n) \in [1..n -> Nat]
  BY <1>2 DEF Reader!Run
<1>4. Reader!Run(pos, n) \in Seq(Nat)
  BY <1>3
<1>5. DOMAIN Reader!Run(pos, n) = 1..n
  BY <1>3
<1>6. Len(Reader!Run(pos, n)) = n
  BY <1>4, <1>5
<1> QED
  BY <1>1, <1>4, <1>6

\* The initial state satisfies the invariant.
LEMMA InitIInv == Init => IInv
<1> SUFFICES ASSUME Init PROVE IInv
  OBVIOUS
<1> USE DEF Init
<1>1. len \in Nat /\ disk \in [0..(len - 1) -> Cells]
  BY SourceAssumption
<1>2. \A t \in Threads : pc[t] = "idle" /\ buf[t] = << >> /\ holder # t
  BY SourceAssumption
<1>3. TypeOK
  <2>1. << >> \in Seq(Nat)
    OBVIOUS
  <2> QED
    BY <1>1, <1>2, <2>1 DEF TypeOK
<1>4. CursorIsMine
  BY <1>2 DEF CursorIsMine
<1> QED
  BY <1>3, <1>4 DEF IInv

\* Returning preserves the invariant: a call that moved the cursor had the
\* guard, and gives it up.
LEMMA AnswerStep ==
    ASSUME IInv, NEW t \in Threads, NEW ok, NEW data, Answer(t, ok, data),
           UNCHANGED <<len, disk>>, poisoned' \in BOOLEAN, pos' \in Nat,
           holder = t \/ pos' = pos
    PROVE  IInv'
<1> USE DEF Answer
<1>1. << >> \in Seq(Nat)
  OBVIOUS
<1>2. /\ pc' = [pc EXCEPT ![t] = "idle"] /\ pc \in [Threads -> {"idle", "start", "locked", "reading"}]
      /\ buf' = [buf EXCEPT ![t] = << >>] /\ buf \in [Threads -> Seq(Nat)]
      /\ call' = [call EXCEPT ![t] = None] /\ DOMAIN call = Threads
      /\ \A r : Want(r)' = Want(r)
  BY DEF IInv, TypeOK, Want
<1>3. pc'[t] = "idle" /\ buf'[t] = << >>
  BY <1>2
<1>4. \A u \in Threads \ {t} : pc'[u] = pc[u] /\ buf'[u] = buf[u] /\ call'[u] = call[u]
  BY <1>2
<1>5. TypeOK'
  <2>1. /\ disk' \in [0..(len' - 1) -> Cells] /\ len' \in Nat
        /\ holder' \in Threads \cup {None}
    BY DEF IInv, TypeOK
  <2>2. /\ pc' \in [Threads -> {"idle", "start", "locked", "reading"}]
        /\ buf' \in [Threads -> Seq(Nat)]
        /\ DOMAIN call' = Threads
    BY <1>1, <1>2
  <2>3. ASSUME NEW u \in Threads
        PROVE  /\ pc'[u] # "idle" => call'[u] \in [offset : Offsets, len : BufLens]
               /\ pc'[u] # "reading" => buf'[u] = << >>
               /\ pc'[u] = "reading" => Len(buf'[u]) <= Want(call[u])'
    <3>1. CASE u = t
      BY <1>3, <3>1
    <3>2. CASE u # t
      BY <1>2, <1>4, <3>2 DEF IInv, TypeOK, Want
    <3> QED
      BY <3>1, <3>2
  <2> QED
    BY <2>1, <2>2, <2>3 DEF TypeOK
<1>6. CursorIsMine'
  <2> SUFFICES ASSUME NEW u \in Threads
               PROVE  /\ pc'[u] \in {"locked", "reading"} <=> holder' = u
                      /\ pc'[u] = "reading" => pos' = call'[u].offset + Len(buf'[u])
    BY DEF CursorIsMine
  <2>1. CASE u = t
    BY <1>3, <2>1, SourceAssumption
  <2>2. CASE u # t
    BY <1>4, <2>2, SourceAssumption DEF IInv, CursorIsMine
  <2> QED
    BY <2>1, <2>2
<1> QED
  BY <1>5, <1>6 DEF IInv

\* A call that begins is outside the lock and disturbs nobody.
LEMMA EnterStep == ASSUME IInv, NEW t \in Threads, Enter(t) PROVE IInv'
<1>1. /\ pc[t] = "idle" /\ pc' = [pc EXCEPT ![t] = "start"]
      /\ UNCHANGED <<len, disk, pos, holder, poisoned, buf>>
      /\ \A r : Want(r)' = Want(r)
  BY DEF Enter, Want
<1>2. PICK r \in Requests : call' = [call EXCEPT ![t] = r]
  <2>1. PICK o \in Offsets, n \in BufLens : call' = [call EXCEPT ![t] = [offset |-> o, len |-> n]]
    BY DEF Enter
  <2> QED
    BY <2>1 DEF Requests
<1>3. TypeOK'
  BY <1>1, <1>2 DEF IInv, TypeOK, Requests, Want
<1>4. CursorIsMine'
  BY <1>1, <1>2 DEF IInv, TypeOK, CursorIsMine
<1> QED
  BY <1>3, <1>4 DEF IInv

\* The guard is taken only when it is free, poisoned or not.
LEMMA LockStep == ASSUME IInv, NEW t \in Threads, Lock(t) PROVE IInv'
<1>1. /\ pc[t] = "start" /\ pc' = [pc EXCEPT ![t] = "locked"]
      /\ holder = None /\ holder' = t
      /\ UNCHANGED <<len, disk, pos, poisoned, buf, call>>
  BY DEF Lock
<1>2. TypeOK'
  BY <1>1 DEF IInv, TypeOK, Want
<1>3. CursorIsMine'
  BY <1>1, SourceAssumption DEF IInv, TypeOK, CursorIsMine
<1> QED
  BY <1>2, <1>3 DEF IInv

\* The seek puts the cursor at the start of the call, before any cell is read.
LEMMA SeekStep == ASSUME IInv, NEW t \in Threads, SeekTo(t) PROVE IInv'
<1>1. /\ pc[t] = "locked" /\ pc' = [pc EXCEPT ![t] = "reading"]
      /\ pos' = call[t].offset
      /\ UNCHANGED <<len, disk, holder, poisoned, buf, call>>
  BY DEF SeekTo
<1>2. /\ call[t] \in Requests /\ buf[t] = << >> /\ holder = t /\ len \in Nat
      /\ pc \in [Threads -> {"idle", "start", "locked", "reading"}]
  BY <1>1 DEF IInv, TypeOK, CursorIsMine, Requests
<1>3. Want(call[t]) \in Nat /\ call[t].offset \in Nat /\ Len(buf[t]) = 0
  BY <1>2, WantType
<1>4. \A u \in Threads \ {t} : pc'[u] = pc[u] /\ pc[u] \notin {"locked", "reading"}
  BY <1>1, <1>2 DEF IInv, CursorIsMine
<1>5. TypeOK'
  BY <1>1, <1>2, <1>3, <1>4 DEF IInv, TypeOK, Want
<1>6. CursorIsMine'
  BY <1>1, <1>2, <1>3, <1>4 DEF IInv, CursorIsMine
<1> QED
  BY <1>5, <1>6 DEF IInv

\* An iteration moves the cursor by exactly what it adds to the buffer.
LEMMA ReadStep == ASSUME IInv, NEW t \in Threads, ReadMore(t) PROVE IInv'
<1>1. /\ pc[t] = "reading" /\ call[t] \in Requests /\ buf[t] \in Seq(Nat)
      /\ pos \in Nat /\ len \in Nat /\ holder = t /\ TypeOK
      /\ Len(buf[t]) <= Want(call[t]) /\ pos = call[t].offset + Len(buf[t])
      /\ UNCHANGED <<len, disk, poisoned>>
  BY DEF ReadMore, IInv, TypeOK, CursorIsMine, Requests
<1>2. Want(call[t]) \in Nat /\ call[t].offset \in Nat /\ Len(buf[t]) \in Nat
  BY <1>1, WantType
<1>3. PICK n \in Reader!Runs(pos, Remaining(t)) :
         LET got == buf[t] \o Reader!Run(pos, n) IN
         /\ pos' = pos + n
         /\ \/ Answer(t, TRUE, got)
            \/ /\ buf' = [buf EXCEPT ![t] = got]
               /\ UNCHANGED <<pc, call, holder>>
  BY DEF ReadMore
<1>4. Remaining(t) \in Nat
  BY <1>1, <1>2 DEF Remaining
<1>5. n \in Nat
  BY <1>4 DEF Reader!Runs
<1> DEFINE run == Reader!Run(pos, n)
           got == buf[t] \o run
<1>6. run \in Seq(Nat) /\ Len(run) = n /\ n <= Want(call[t]) - Len(buf[t])
  BY <1>1, <1>4, <1>5, RunType DEF Remaining
<1> HIDE DEF run
<1>7. got \in Seq(Nat) /\ Len(got) = Len(buf[t]) + n
  <2>1. buf[t] \in Seq(Nat) /\ run \in Seq(Nat) /\ Len(run) = n
    BY <1>1, <1>6
  <2>2. \A a, b \in Seq(Nat) : a \o b \in Seq(Nat) /\ Len(a \o b) = Len(a) + Len(b)
    OBVIOUS
  <2> QED
    BY <2>1, <2>2
<1>8. pos' = pos + n /\ pos' \in Nat
  BY <1>1, <1>3, <1>5
<1>9. CASE Answer(t, TRUE, got)
  <2>1. poisoned' \in BOOLEAN
    BY <1>1 DEF TypeOK
  <2> QED
    BY <1>1, <1>8, <1>9, <2>1, AnswerStep
<1>10. CASE buf' = [buf EXCEPT ![t] = got] /\ UNCHANGED <<pc, call, holder>>
  <2> HIDE DEF got
  <2>1. buf' \in [Threads -> Seq(Nat)] /\ buf'[t] = got
    BY <1>1, <1>7, <1>10 DEF TypeOK
  <2>2. \A u \in Threads \ {t} : buf'[u] = buf[u] /\ pc[u] \notin {"locked", "reading"}
    BY <1>1, <1>10 DEF IInv, TypeOK, CursorIsMine
  <2>3. Len(got) <= Want(call[t])
    BY <1>2, <1>5, <1>6, <1>7
  <2>4. TypeOK'
    BY <1>1, <1>8, <1>10, <2>1, <2>2, <2>3 DEF TypeOK, Want
  <2>5. CursorIsMine'
    <3>1. pos' = call'[t].offset + Len(buf'[t])
      <4>1. call'[t].offset = call[t].offset /\ Len(buf'[t]) = Len(buf[t]) + n
        BY <1>7, <1>10, <2>1
      <4>2. pos' = call[t].offset + Len(buf[t]) + n
        BY <1>1, <1>8
      <4> QED
        BY <1>2, <1>5, <4>1, <4>2
    <3>2. \A u \in Threads : pc'[u] \in {"locked", "reading"} <=> holder' = u
      BY <1>10 DEF IInv, CursorIsMine
    <3>3. \A u \in Threads : pc'[u] = "reading" => u = t
      BY <1>1, <1>10, <2>2
    <3> QED
      BY <3>1, <3>2, <3>3 DEF CursorIsMine
  <2> QED
    BY <2>4, <2>5 DEF IInv
<1> QED
  BY <1>3, <1>9, <1>10 DEF run

\* Every step of every thread preserves the invariant.
LEMMA NextIInv == IInv /\ [Next]_vars => IInv'
<1> SUFFICES ASSUME IInv, [Next]_vars PROVE IInv'
  OBVIOUS
<1>1. pos \in Nat /\ poisoned \in BOOLEAN
  BY DEF IInv, TypeOK
<1>2. ASSUME NEW t \in Threads, Enter(t) PROVE IInv'
  BY <1>2, EnterStep
<1>3. ASSUME NEW t \in Threads, ReadPastEnd(t) PROVE IInv'
  BY <1>1, <1>3, AnswerStep DEF ReadPastEnd
<1>4. ASSUME NEW t \in Threads, Lock(t) PROVE IInv'
  BY <1>4, LockStep
<1>5. ASSUME NEW t \in Threads, SeekTo(t) PROVE IInv'
  BY <1>5, SeekStep
<1>6. ASSUME NEW t \in Threads, ReadMore(t) PROVE IInv'
  BY <1>6, ReadStep
<1>7. ASSUME NEW t \in Threads, ReadFails(t) PROVE IInv'
  BY <1>1, <1>7, AnswerStep DEF ReadFails
<1>8. ASSUME NEW t \in Threads, Panic(t) PROVE IInv'
  <2>1. poisoned' \in BOOLEAN
    BY <1>8 DEF Panic
  <2> QED
    BY <1>1, <1>8, <2>1, AnswerStep DEF Panic
<1>9. CASE UNCHANGED vars
  BY <1>9 DEF vars, IInv, TypeOK, CursorIsMine, Want
<1> QED
  BY <1>2, <1>3, <1>4, <1>5, <1>6, <1>7, <1>8, <1>9 DEF Next, Step

\* The invariant holds in every reachable state.
LEMMA Invariance == Spec => []IInv
BY InitIInv, NextIInv, PTL DEF Spec

\* Types, and no read past the end of its caller's buffer, for any number of
\* threads.
THEOREM TypeCorrect == Spec => []TypeOK
<1>1. IInv => TypeOK
  BY DEF IInv
<1> QED
  BY <1>1, Invariance, PTL

\* However many threads share the source, whatever fails or panics, a thread
\* in the read loop has the guard and an undisturbed cursor.
THEOREM CursorExclusive == Spec => []CursorIsMine
<1>1. IInv => CursorIsMine
  BY DEF IInv
<1> QED
  BY <1>1, Invariance, PTL

----------------------------------------------------------------------------
(* The shared cursor implements the positioned read.                       *)

\* The n cells at offset o are there, and d holds their values.
IsRun(o, n, d) == (\A i \in 0..(n - 1) : Reader!Has(o + i)) /\ d = Reader!Run(o, n)

\* A thread outside a call has no request; one in the loop has in its buffer
\* the cells from its own offset on.
Pending ==
    /\ DOMAIN ans = Threads
    /\ \A t \in Threads :
           /\ pc[t] = "idle" => call[t] = None
           /\ pc[t] = "reading" => IsRun(call[t].offset, Len(buf[t]), buf[t])

\* Two runs that meet are one.
LEMMA RunsJoin ==
    ASSUME NEW a \in Nat, NEW f \in Seq(Nat), NEW d \in Seq(Nat),
           IsRun(a, Len(f), f), IsRun(a + Len(f), Len(d), d)
    PROVE  IsRun(a, Len(f \o d), f \o d)
<1> DEFINE n == Len(f)
           m == Len(d)
           s == f \o d
<1>1. n \in Nat /\ m \in Nat /\ s \in Seq(Nat) /\ Len(s) = n + m
  OBVIOUS
<1>2. \A i \in 0..(n + m - 1) : Reader!Has(a + i)
  <2> SUFFICES ASSUME NEW i \in 0..(n + m - 1) PROVE Reader!Has(a + i)
    OBVIOUS
  <2>1. /\ \A j \in 0..(n - 1) : Reader!Has(a + j)
        /\ \A j \in 0..(m - 1) : Reader!Has(a + n + j)
    BY DEF IsRun
  <2> HIDE DEF n, m
  <2>2. CASE i < n
    <3>1. i \in 0..(n - 1)
      BY <1>1, <2>2
    <3> QED
      BY <2>1, <3>1
  <2>3. CASE ~(i < n)
    <3>1. i - n \in 0..(m - 1) /\ a + n + (i - n) = a + i
      BY <1>1, <2>3
    <3>2. Reader!Has(a + n + (i - n))
      BY <2>1, <3>1
    <3> QED
      BY <3>1, <3>2
  <2> QED
    BY <2>2, <2>3
<1>3. \A i \in 1..(n + m) : s[i] = disk[a + i - 1].val
  <2> SUFFICES ASSUME NEW i \in 1..(n + m) PROVE s[i] = disk[a + i - 1].val
    OBVIOUS
  <2>1. CASE i <= n
    <3>1. i \in 1..n /\ s[i] = f[i]
      BY <2>1
    <3>2. f[i] = Reader!Run(a, n)[i]
      BY DEF IsRun
    <3> HIDE DEF n, s
    <3> QED
      BY <3>1, <3>2 DEF Reader!Run
  <2>2. CASE ~(i <= n)
    <3>1. i - n \in 1..m /\ s[i] = d[i - n]
      BY <2>2
    <3>2. d[i - n] = Reader!Run(a + n, m)[i - n]
      BY DEF IsRun
    <3> HIDE DEF n, m, s
    <3>3. (a + n) + (i - n) - 1 = a + i - 1
      BY <1>1
    <3> QED
      BY <3>1, <3>2, <3>3 DEF Reader!Run
  <2> QED
    BY <2>1, <2>2
<1> HIDE DEF n, m, s
<1>4. s \in [1..(n + m) -> Nat]
  BY <1>1
<1>5. s = [i \in 1..(n + m) |-> disk[a + i - 1].val]
  BY <1>3, <1>4
<1>6. IsRun(a, Len(s), s)
  BY <1>1, <1>2, <1>5 DEF IsRun, Reader!Run
<1> QED
  BY <1>6 DEF s

\* The empty buffer is a run.
LEMMA EmptyRun == ASSUME NEW a PROVE IsRun(a, 0, << >>)
<1>1. Reader!Run(a, 0) = << >>
  BY DEF Reader!Run
<1> QED
  BY <1>1 DEF IsRun

\* After an iteration of the loop the buffer would hold a longer run, and where
\* the loop is left it holds all there is.
LEMMA ReadExtends ==
    ASSUME IInv, Pending, NEW t \in Threads, pc[t] = "reading",
           NEW n \in Reader!Runs(pos, Remaining(t)), NEW got,
           got = buf[t] \o Reader!Run(pos, n)
    PROVE  /\ got \in Seq(Nat) /\ Len(got) = Len(buf[t]) + n /\ n \in Nat
           /\ IsRun(call[t].offset, Len(got), got)
           /\ Filled(t, n) => Contract!Complete(call[t], Len(got))
<1>1. /\ call[t] \in Requests /\ buf[t] \in Seq(Nat)
      /\ pos \in Nat /\ len \in Nat /\ TypeOK
      /\ Len(buf[t]) <= Want(call[t]) /\ pos = call[t].offset + Len(buf[t])
  BY DEF IInv, TypeOK, CursorIsMine, Requests
<1>2. Want(call[t]) \in Nat /\ call[t].offset \in Nat /\ Len(buf[t]) \in Nat
  BY <1>1, WantType
<1>3. Remaining(t) \in Nat
  BY <1>1, <1>2 DEF Remaining
<1>4. n \in Nat
  BY <1>3 DEF Reader!Runs
<1> DEFINE run == Reader!Run(pos, n)
           a == call[t].offset
           b == buf[t]
<1>5. run \in Seq(Nat) /\ Len(run) = n /\ n <= Want(call[t]) - Len(b)
  BY <1>1, <1>3, <1>4, RunType DEF Remaining
<1>6. IsRun(pos, n, run)
  BY DEF IsRun, Reader!Runs
<1>7. IsRun(a, Len(b), b)
  BY DEF Pending
<1> HIDE DEF run, a, b
<1>8. got = b \o run /\ b \in Seq(Nat) /\ a \in Nat /\ pos = a + Len(b)
  BY <1>1, <1>2 DEF run, a, b
<1>9. got \in Seq(Nat) /\ Len(got) = Len(b) + n
  <2>1. \A x, y \in Seq(Nat) : x \o y \in Seq(Nat) /\ Len(x \o y) = Len(x) + Len(y)
    OBVIOUS
  <2> QED
    BY <1>5, <1>8, <2>1
<1>10. IsRun(a, Len(got), got)
  BY <1>5, <1>6, <1>7, <1>8, RunsJoin
<1>11. ASSUME Filled(t, n) PROVE Contract!Complete(call[t], Len(got))
  <2> DEFINE w == Want(call[t])
  <2>1. Len(got) <= w
    BY <1>2, <1>4, <1>5, <1>9 DEF b
  <2>2. \A i \in 0..(Len(got) - 1) : Contract!Disk!Has(call[t].offset + i)
    BY <1>10 DEF IsRun, Reader!Has, Contract!Disk!Has, a
  <2>3. Len(got) = w \/ Contract!Disk!Stops(call[t].offset + Len(got))
    <3>1. CASE Len(b) + n = w
      BY <1>9, <3>1
    <3>2. CASE n = 0
      <4>1. Remaining(t) = 0 \/ Reader!Stops(pos)
        BY <3>2 DEF Reader!Runs
      <4>2. Len(got) = Len(b)
        BY <1>2, <1>9, <3>2 DEF b
      <4>3. CASE Remaining(t) = 0
        BY <1>2, <4>2, <4>3 DEF Remaining, b
      <4>4. CASE Reader!Stops(pos)
        BY <1>8, <4>2, <4>4 DEF Reader!Stops, Contract!Disk!Stops, a
      <4> QED
        BY <4>1, <4>3, <4>4
    <3> QED
      BY <1>11, <3>1, <3>2 DEF Filled, b
  <2>4. w = IF call[t].offset >= len THEN 0
            ELSE IF call[t].len <= len - call[t].offset THEN call[t].len
            ELSE len - call[t].offset
    BY DEF Want, Min2
  <2> HIDE DEF w
  <2> QED
    BY <2>1, <2>2, <2>3, <2>4 DEF Contract!Complete
<1> QED
  BY <1>4, <1>9, <1>10, <1>11 DEF a, b

\* A run in a buffer nobody touches stays one.
LEMMA RunKept ==
    ASSUME UNCHANGED <<len, disk>>, NEW u, call'[u] = call[u], buf'[u] = buf[u],
           IsRun(call[u].offset, Len(buf[u]), buf[u])
    PROVE  IsRun(call[u].offset, Len(buf[u]), buf[u])'
<1>1. \A x : Reader!Has(x)' = Reader!Has(x)
  BY DEF Reader!Has
<1>2. \A x, n : Reader!Run(x, n)' = Reader!Run(x, n)
  BY DEF Reader!Run
<1> QED
  BY <1>1, <1>2 DEF IsRun, Reader!Has, Reader!Run

\* Returning leaves no request behind and touches no other call.
LEMMA AnswerPends ==
    ASSUME IInv, Pending, NEW t \in Threads, NEW ok, NEW data, Answer(t, ok, data),
           UNCHANGED <<len, disk>>
    PROVE  Pending'
<1>1. /\ pc \in [Threads -> {"idle", "start", "locked", "reading"}]
      /\ buf \in [Threads -> Seq(Nat)] /\ DOMAIN call = Threads /\ DOMAIN ans = Threads
  BY DEF IInv, TypeOK, Pending
<1>2. DOMAIN ans' = Threads /\ call'[t] = None /\ pc'[t] = "idle"
  BY <1>1 DEF Answer
<1>3. \A u \in Threads \ {t} : pc'[u] = pc[u] /\ buf'[u] = buf[u] /\ call'[u] = call[u]
  BY <1>1 DEF Answer
<1>4. ASSUME NEW u \in Threads
      PROVE  /\ pc'[u] = "idle" => call'[u] = None
             /\ pc'[u] = "reading" => IsRun(call[u].offset, Len(buf[u]), buf[u])'
  <2>1. CASE u = t
    BY <1>2, <2>1
  <2>2. CASE u # t
    <3>1. pc[u] = "reading" => IsRun(call[u].offset, Len(buf[u]), buf[u])
      BY DEF Pending
    <3>2. buf'[u] = buf[u] /\ call'[u] = call[u]
      BY <1>3, <2>2
    <3>3. pc'[u] = "reading" => IsRun(call[u].offset, Len(buf[u]), buf[u])'
      BY <1>3, <2>2, <3>1, <3>2, RunKept
    <3> QED
      BY <1>3, <2>2, <3>3 DEF Pending
  <2> QED
    BY <2>1, <2>2
<1> QED
  BY <1>2, <1>4 DEF Pending

\* So does every other step of a thread.
LEMMA NextPends == IInv /\ Pending /\ [Next]_vars => Pending'
<1> SUFFICES ASSUME IInv, Pending, [Next]_vars PROVE Pending'
  OBVIOUS
<1>1. /\ pc \in [Threads -> {"idle", "start", "locked", "reading"}]
      /\ buf \in [Threads -> Seq(Nat)] /\ DOMAIN call = Threads
  BY DEF IInv, TypeOK
<1>2. ASSUME NEW t \in Threads, Enter(t) \/ Lock(t) PROVE Pending'
  <2>1. /\ pc'[t] \in {"start", "locked"}
        /\ \A u \in Threads \ {t} : pc'[u] = pc[u] /\ call'[u] = call[u]
        /\ UNCHANGED <<len, disk, buf, ans>>
    BY <1>1, <1>2 DEF Enter, Lock
  <2> QED
    BY <2>1 DEF Pending, IsRun, Reader!Has, Reader!Run
<1>3. ASSUME NEW t \in Threads, SeekTo(t) PROVE Pending'
  <2>1. /\ pc[t] = "locked" /\ pc'[t] = "reading" /\ UNCHANGED <<len, disk, call, buf, ans>>
        /\ \A u \in Threads \ {t} : pc'[u] = pc[u]
    BY <1>1, <1>3 DEF SeekTo
  <2>2. buf[t] = << >> /\ Len(buf[t]) = 0
    BY <2>1 DEF IInv, TypeOK
  <2>3. IsRun(call[t].offset, Len(buf[t]), buf[t])
    BY <2>2, EmptyRun
  <2>4. ASSUME NEW u \in Threads
        PROVE  /\ pc'[u] = "idle" => call'[u] = None
               /\ pc'[u] = "reading" => IsRun(call'[u].offset, Len(buf'[u]), buf'[u])
    BY <2>1, <2>3 DEF Pending
  <2>5. \A o, n, d : IsRun(o, n, d) => IsRun(o, n, d)'
    BY <2>1 DEF IsRun, Reader!Has, Reader!Run
  <2> QED
    BY <2>1, <2>4, <2>5 DEF Pending
<1>4. ASSUME NEW t \in Threads, ReadMore(t) PROVE Pending'
  <2>1. PICK n \in Reader!Runs(pos, Remaining(t)) :
           LET got == buf[t] \o Reader!Run(pos, n) IN
           \/ Answer(t, TRUE, got)
           \/ buf' = [buf EXCEPT ![t] = got] /\ UNCHANGED <<pc, call, ans>>
    BY <1>4 DEF ReadMore
  <2> DEFINE got == buf[t] \o Reader!Run(pos, n)
  <2>2. pc[t] = "reading" /\ UNCHANGED <<len, disk>>
    BY <1>4 DEF ReadMore
  <2>3. IsRun(call[t].offset, Len(got), got)
    BY <2>2, ReadExtends
  <2> HIDE DEF got
  <2>4. CASE Answer(t, TRUE, got)
    BY <2>2, <2>4, AnswerPends
  <2>5. CASE buf' = [buf EXCEPT ![t] = got] /\ UNCHANGED <<pc, call, ans>>
    <3>1. buf'[t] = got /\ \A u \in Threads \ {t} : buf'[u] = buf[u]
      BY <1>1, <2>5
    <3>2. IsRun(call[t].offset, Len(buf[t]), buf[t])'
      BY <2>2, <2>3, <2>5, <3>1 DEF IsRun, Reader!Has, Reader!Run
    <3>3. ASSUME NEW u \in Threads \ {t}, pc[u] = "reading"
          PROVE  IsRun(call[u].offset, Len(buf[u]), buf[u])'
      <4>1. IsRun(call[u].offset, Len(buf[u]), buf[u])
        BY <3>3 DEF Pending
      <4> QED
        BY <2>2, <2>5, <3>1, <4>1, RunKept
    <3> QED
      BY <2>5, <3>2, <3>3 DEF Pending
  <2> QED
    BY <2>1, <2>4, <2>5 DEF got
<1>5. ASSUME NEW t \in Threads, ReadPastEnd(t) \/ ReadFails(t) \/ Panic(t) PROVE Pending'
  <2>1. PICK ok, data : Answer(t, ok, data)
    BY <1>5 DEF ReadPastEnd, ReadFails, Panic
  <2>2. UNCHANGED <<len, disk>>
    BY <1>5 DEF ReadPastEnd, ReadFails, Panic
  <2> QED
    BY <2>1, <2>2, AnswerPends
<1>6. CASE UNCHANGED vars
  BY <1>6 DEF vars, Pending, IsRun, Reader!Has, Reader!Run
<1> QED
  BY <1>2, <1>3, <1>4, <1>5, <1>6 DEF Next, Step

\* What the refinement needs holds in every reachable state.
LEMMA AlwaysPending == Spec => []Pending
<1>1. Init => Pending
  <2> SUFFICES ASSUME Init PROVE Pending
    OBVIOUS
  <2>1. \A t \in Threads : pc[t] = "idle" /\ call[t] = None
    BY DEF Init
  <2>2. DOMAIN ans = Threads
    BY DEF Init
  <2> QED
    BY <2>1, <2>2 DEF Pending
<1> QED
  BY <1>1, NextPends, Invariance, PTL DEF Spec

\* An answer in full is Return of the contract.
LEMMA ReturnImplements ==
    ASSUME IInv, Pending, NEW t \in Threads, pc[t] # "idle", NEW data,
           Answer(t, TRUE, data), UNCHANGED <<len, disk>>,
           data = Reader!Run(call[t].offset, Len(data)),
           Contract!Complete(call[t], Len(data))
    PROVE  Contract!Return(t)
<1>1. call[t] # None
  BY SourceAssumption DEF IInv, TypeOK
<1>2. DOMAIN ans = Threads /\ ans' = [ans EXCEPT ![t] = [ok |-> TRUE, data |-> data]]
  BY DEF Pending, Answer
<1>3. ans'[t] = [ok |-> TRUE, data |-> data] /\ \A u \in Threads \ {t} : ans'[u] = ans[u]
  BY <1>2
<1>4. ans'[t].ok /\ ans'[t].data = data
  BY <1>3
<1>5. data = Contract!Disk!Run(call[t].offset, Len(data))
  BY DEF Reader!Run, Contract!Disk!Run
<1> QED
  BY <1>1, <1>3, <1>4, <1>5 DEF Contract!Return, Answer

\* An answer with an error is Fail of the contract.
LEMMA FailImplements ==
    ASSUME IInv, Pending, NEW t \in Threads, pc[t] # "idle", NEW data,
           Answer(t, FALSE, data), UNCHANGED <<len, disk>>
    PROVE  Contract!Fail(t)
<1>1. call[t] # None
  BY SourceAssumption DEF IInv, TypeOK
<1>2. DOMAIN ans = Threads /\ ans' = [ans EXCEPT ![t] = [ok |-> FALSE, data |-> data]]
  BY DEF Pending, Answer
<1>3. ans'[t] = [ok |-> FALSE, data |-> data] /\ \A u \in Threads \ {t} : ans'[u] = ans[u]
  BY <1>2
<1>4. ~ans'[t].ok
  BY <1>3
<1> QED
  BY <1>1, <1>3, <1>4 DEF Contract!Fail, Answer

\* Every step of every thread is a step of the contract or is hidden from it.
LEMMA NextImplements == IInv /\ Pending /\ [Next]_vars => [Contract!Next]_(Contract!vars)
<1> SUFFICES ASSUME IInv, Pending, [Next]_vars
             PROVE  Contract!Next \/ UNCHANGED Contract!vars
  OBVIOUS
<1>1. ASSUME NEW t \in Threads, Enter(t) PROVE Contract!Next
  <2>1. call[t] = None /\ UNCHANGED <<len, disk, ans>>
    BY <1>1 DEF Enter, Pending
  <2>2. \E r \in Requests : call' = [call EXCEPT ![t] = r]
    <3>1. PICK o \in Offsets, n \in BufLens :
             call' = [call EXCEPT ![t] = [offset |-> o, len |-> n]]
      BY <1>1 DEF Enter
    <3> QED
      BY <3>1 DEF Requests
  <2>3. Contract!Call(t)
    BY <2>1, <2>2 DEF Contract!Call, Requests
  <2> QED
    BY <2>3 DEF Contract!Next
<1>2. ASSUME NEW t \in Threads, ReadPastEnd(t) PROVE Contract!Next
  <2>1. /\ pc[t] = "start" /\ call[t].offset >= len /\ Answer(t, TRUE, << >>)
        /\ UNCHANGED <<len, disk>>
    BY <1>2 DEF ReadPastEnd
  <2>2. << >> = Reader!Run(call[t].offset, 0) /\ Len(<< >>) = 0
    BY DEF Reader!Run
  <2>3. Contract!Complete(call[t], 0)
    BY <2>1 DEF Contract!Complete
  <2>4. Contract!Return(t)
    BY <2>1, <2>2, <2>3, ReturnImplements
  <2> QED
    BY <2>4 DEF Contract!Next
<1>3. ASSUME NEW t \in Threads, Lock(t) \/ SeekTo(t) PROVE UNCHANGED Contract!vars
  BY <1>3 DEF Lock, SeekTo, Contract!vars
<1>4. ASSUME NEW t \in Threads, ReadMore(t)
      PROVE  Contract!Next \/ UNCHANGED Contract!vars
  <2>1. PICK n \in Reader!Runs(pos, Remaining(t)) :
           LET got == buf[t] \o Reader!Run(pos, n) IN
           \/ Filled(t, n) /\ Answer(t, TRUE, got)
           \/ UNCHANGED <<call, ans>>
    BY <1>4 DEF ReadMore
  <2> DEFINE got == buf[t] \o Reader!Run(pos, n)
  <2>2. pc[t] = "reading" /\ UNCHANGED <<len, disk>>
    BY <1>4 DEF ReadMore
  <2>3. /\ IsRun(call[t].offset, Len(got), got)
        /\ Filled(t, n) => Contract!Complete(call[t], Len(got))
    BY <2>2, ReadExtends
  <2> HIDE DEF got
  <2>4. CASE Filled(t, n) /\ Answer(t, TRUE, got)
    <3>1. got = Reader!Run(call[t].offset, Len(got))
      BY <2>3 DEF IsRun
    <3>2. Contract!Return(t)
      BY <2>2, <2>3, <2>4, <3>1, ReturnImplements
    <3> QED
      BY <3>2 DEF Contract!Next
  <2>5. CASE UNCHANGED <<call, ans>>
    BY <2>2, <2>5 DEF Contract!vars
  <2> QED
    BY <2>1, <2>4, <2>5 DEF got
<1>5. ASSUME NEW t \in Threads, ReadFails(t) \/ Panic(t) PROVE Contract!Next
  <2>1. pc[t] # "idle" /\ Answer(t, FALSE, << >>) /\ UNCHANGED <<len, disk>>
    BY <1>5 DEF ReadFails, Panic
  <2>2. Contract!Fail(t)
    BY <2>1, FailImplements
  <2> QED
    BY <2>2 DEF Contract!Next
<1>6. CASE UNCHANGED vars
  BY <1>6 DEF vars, Contract!vars
<1> QED
  BY <1>1, <1>2, <1>3, <1>4, <1>5, <1>6 DEF Next, Step

\* For any number of threads, whatever comes back short, fails or panics, every
\* call is answered from its own offset and in full, as if it were alone.
THEOREM SourceIsPositioned == Spec => ImplementsImageSource
<1>1. Init => Contract!Init
  BY DEF Init, Contract!Init
<1>2. Spec => Contract!Init /\ [][Contract!Next]_(Contract!vars)
  BY <1>1, NextImplements, Invariance, AlwaysPending, PTL DEF Spec
<1> QED
  BY <1>2 DEF ImplementsImageSource, Contract!Spec
=============================================================================
