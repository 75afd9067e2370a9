---------------------------- MODULE VmdkSource -----------------------------
(***************************************************************************)
(* VmdkSource (core/src/vfs.rs): one reader with one cursor behind a       *)
(* Mutex, shared by threads that call read_at.  The reader under the lock  *)
(* is VirtualDisk, which VmdkReader implements: a read may come back short *)
(* or fail.  A thread may also panic while it holds the lock, which        *)
(* poisons it; read_at takes a poisoned lock all the same.                 *)
(***************************************************************************)
EXTENDS Integers, Sequences, FiniteSets

CONSTANTS
    Threads,
    Disks,          \* the disks the reader may be over, as functions on offsets
    Offsets, BufLens,
    None,
    MaxCalls,       \* calls made by one thread
    MayFail,        \* a read may fail at any offset
    MayPanic        \* a thread may panic while it holds the lock

Cells == [kind : {"zero", "data", "end", "err"}, val : Nat]

ASSUME SourceAssumption ==
    /\ None \notin Threads /\ None \notin [offset : Offsets, len : BufLens]
    /\ \A d \in Disks : /\ Cardinality(DOMAIN d) \in Nat
                        /\ d \in [0..(Cardinality(DOMAIN d) - 1) -> Cells]
    /\ Offsets \subseteq Nat /\ BufLens \subseteq Nat
    /\ MaxCalls \in Nat

VARIABLES
    len, disk,      \* VmdkSource.len, and the cells of the decoded disk
    pos,            \* the cursor of the reader under the lock
    holder,         \* the thread that holds the guard, or None
    poisoned,       \* the Mutex's poison flag
    pc,             \* where each thread is in read_at
    call,           \* its request, None outside a call
    buf,            \* what its buffer holds so far: buf[..total]
    ans,            \* the answer to its last call
    made            \* calls it has made

vars == <<len, disk, pos, holder, poisoned, pc, call, buf, ans, made>>

Reader == INSTANCE VirtualDisk WITH size <- len, out <- 0

Min2(a, b) == IF a <= b THEN a ELSE b

\* min(buf.len(), len.saturating_sub(offset))
Want(r) == IF r.offset >= len THEN 0 ELSE Min2(r.len, len - r.offset)

Init ==
    /\ disk \in Disks
    /\ len = Cardinality(DOMAIN disk)
    /\ pos = 0
    /\ holder = None
    /\ poisoned = FALSE
    /\ pc = [t \in Threads |-> "idle"]
    /\ call = [t \in Threads |-> None]
    /\ buf = [t \in Threads |-> << >>]
    /\ ans = [t \in Threads |-> [ok |-> TRUE, data |-> << >>]]
    /\ made = [t \in Threads |-> 0]

\* The call returns to its caller; the guard, if held, is dropped.
Answer(t, ok, data) ==
    /\ ans' = [ans EXCEPT ![t] = [ok |-> ok, data |-> data]]
    /\ pc' = [pc EXCEPT ![t] = "idle"]
    /\ call' = [call EXCEPT ![t] = None]
    /\ buf' = [buf EXCEPT ![t] = << >>]
    /\ holder' = IF holder = t THEN None ELSE holder

Enter(t) ==
    /\ pc[t] = "idle" /\ made[t] < MaxCalls
    /\ made' = [made EXCEPT ![t] = made[t] + 1]
    /\ \E o \in Offsets, n \in BufLens :
           call' = [call EXCEPT ![t] = [offset |-> o, len |-> n]]
    /\ pc' = [pc EXCEPT ![t] = "start"]
    /\ UNCHANGED <<len, disk, pos, holder, poisoned, buf, ans>>

\* avail == 0: answered before the lock is taken.
ReadPastEnd(t) ==
    /\ pc[t] = "start" /\ call[t].offset >= len
    /\ Answer(t, TRUE, << >>)
    /\ UNCHANGED <<len, disk, pos, poisoned, made>>

\* Mutated form: a poisoned lock is refused.
Lock_Poison(t) ==
    /\ pc[t] = "start" /\ call[t].offset < len
    /\ holder = None /\ ~poisoned
    /\ holder' = t
    /\ pc' = [pc EXCEPT ![t] = "locked"]
    /\ UNCHANGED <<len, disk, pos, poisoned, call, buf, ans, made>>

\* lock().unwrap_or_else(PoisonError::into_inner)
Lock(t) ==
    /\ pc[t] = "start" /\ call[t].offset < len
    /\ holder = None
    /\ holder' = t
    /\ pc' = [pc EXCEPT ![t] = "locked"]
    /\ UNCHANGED <<len, disk, pos, poisoned, call, buf, ans, made>>

\* Mutated form: the guard is a temporary, dropped after the seek.
SeekTo_DropGuard(t) ==
    /\ pc[t] = "locked"
    /\ pos' = call[t].offset
    /\ pc' = [pc EXCEPT ![t] = "reading"]
    /\ holder' = None
    /\ UNCHANGED <<len, disk, poisoned, call, buf, ans, made>>

SeekTo(t) ==
    /\ pc[t] = "locked"
    /\ pos' = call[t].offset
    /\ pc' = [pc EXCEPT ![t] = "reading"]
    /\ UNCHANGED <<len, disk, holder, poisoned, call, buf, ans, made>>

\* Mutated form: one read is taken to fill the buffer.
Filled_OneRead(t, n) == TRUE

\* The loop is left after a read of n cells: total = want, or n = 0.
Filled(t, n) == n = 0 \/ Len(buf[t]) + n = Want(call[t])

\* Mutated form: each iteration asks for the whole of buf[..want] again.
Remaining_Whole(t) == Want(call[t])

\* What one iteration asks for: buf[total..want].
Remaining(t) == Want(call[t]) - Len(buf[t])

\* One iteration of the loop (want = 0 runs none).
ReadMore(t) ==
    /\ pc[t] = "reading"
    /\ \E n \in Reader!Runs(pos, Remaining(t)) :
           LET got == buf[t] \o Reader!Run(pos, n) IN
           /\ pos' = pos + n
           /\ \/ /\ Filled(t, n)
                 /\ Answer(t, TRUE, got)
              \/ /\ ~Filled(t, n)
                 /\ buf' = [buf EXCEPT ![t] = got]
                 /\ UNCHANGED <<pc, call, ans, holder>>
    /\ UNCHANGED <<len, disk, poisoned, made>>

\* The read fails: what the buffer held is dropped with the guard.
ReadFails(t) ==
    /\ pc[t] = "reading" /\ Want(call[t]) > 0
    /\ MayFail \/ disk[pos].kind = "err"
    /\ Answer(t, FALSE, << >>)
    /\ UNCHANGED <<len, disk, pos, poisoned, made>>

\* The thread unwinds while it holds the guard.
Panic(t) ==
    /\ MayPanic
    /\ pc[t] \in {"locked", "reading"}
    /\ poisoned' = TRUE
    /\ Answer(t, FALSE, << >>)
    /\ UNCHANGED <<len, disk, pos, made>>

Step(t) == ReadPastEnd(t) \/ Lock(t) \/ SeekTo(t) \/ ReadMore(t) \/ ReadFails(t)

Next == \E t \in Threads : Enter(t) \/ Step(t) \/ Panic(t)

\* A thread inside read_at runs; nothing makes a thread call it.
Spec == Init /\ [][Next]_vars /\ \A t \in Threads : WF_vars(Step(t))

----------------------------------------------------------------------------
(* Properties                                                              *)

\* Types of the lock, the cursor and the calls; no read overruns its buffer,
\* and a buffer is empty outside the loop.
TypeOK ==
    /\ disk \in [0..(len - 1) -> Cells] /\ len \in Nat /\ pos \in Nat
    /\ holder \in Threads \cup {None}
    /\ poisoned \in BOOLEAN
    /\ pc \in [Threads -> {"idle", "start", "locked", "reading"}]
    /\ buf \in [Threads -> Seq(Nat)]
    /\ DOMAIN call = Threads
    /\ \A t \in Threads :
           /\ pc[t] # "idle" => call[t] \in [offset : Offsets, len : BufLens]
           /\ pc[t] # "reading" => buf[t] = << >>
           /\ pc[t] = "reading" => Len(buf[t]) <= Want(call[t])

\* A thread between its seek and its last read has the guard to itself and
\* finds the cursor where it left it, just past the cells in its buffer.
CursorIsMine ==
    \A t \in Threads :
        /\ pc[t] \in {"locked", "reading"} <=> holder = t
        /\ pc[t] = "reading" => pos = call[t].offset + Len(buf[t])

\* Every call is answered from its own offset and in full, as if no other
\* thread were there.
Contract == INSTANCE ImageSource WITH
    size <- len, Requests <- [offset : Offsets, len : BufLens]

\* The shared cursor implements the positioned read.
ImplementsImageSource == Contract!Spec

\* No call waits for ever, even after a thread has panicked with the lock.
CallsReturn == \A t \in Threads : pc[t] = "start" ~> pc[t] = "idle"
=============================================================================
