---------------------------- MODULE ImageSource ----------------------------
(***************************************************************************)
(* The contract of a positioned read, forensic_vfs::ImageSource as         *)
(* core/src/vfs.rs uses it: many threads, no shared cursor.  Each call is  *)
(* answered in one step from its own offset, with everything up to the end *)
(* of its buffer, of the disk or of the storage; or it fails, or panics.   *)
(* External: the trait is not part of the repository.                      *)
(***************************************************************************)
EXTENDS Integers, Sequences

CONSTANTS Threads, Requests, None

VARIABLES
    size, disk,   \* the cells, as in VirtualDisk
    call,         \* call[t]: the pending request of t, or None
    ans           \* ans[t]: the answer to its last one

Disk == INSTANCE VirtualDisk WITH pos <- 0, out <- 0

vars == <<size, disk, call, ans>>

Init == call = [t \in Threads |-> None]

Call(t) ==
    /\ call[t] = None
    /\ \E r \in Requests : call' = [call EXCEPT ![t] = r]
    /\ UNCHANGED <<size, disk, ans>>

\* The length of the answer to r: as much as there is.
Complete(r, n) ==
    LET want == IF r.offset >= size THEN 0
                ELSE IF r.len <= size - r.offset THEN r.len ELSE size - r.offset
    IN  /\ n <= want
        /\ \A i \in 0..(n - 1) : Disk!Has(r.offset + i)
        /\ n = want \/ Disk!Stops(r.offset + n)

Return(t) ==
    /\ call[t] # None
    /\ ans'[t].ok
    /\ LET n == Len(ans'[t].data) IN
           /\ Complete(call[t], n)
           /\ ans'[t].data = Disk!Run(call[t].offset, n)
    /\ call' = [call EXCEPT ![t] = None]
    /\ \A u \in Threads \ {t} : ans'[u] = ans[u]
    /\ UNCHANGED <<size, disk>>

Fail(t) ==
    /\ call[t] # None
    /\ ~ans'[t].ok
    /\ call' = [call EXCEPT ![t] = None]
    /\ \A u \in Threads \ {t} : ans'[u] = ans[u]
    /\ UNCHANGED <<size, disk>>

Next == \E t \in Threads : Call(t) \/ Return(t) \/ Fail(t)

Spec == Init /\ [][Next]_vars
=============================================================================
