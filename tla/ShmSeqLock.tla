------------------------------ MODULE ShmSeqLock ------------------------------
(***************************************************************************)
(* The seqlock of src/shm/lock.rs: optimistic readers, and writers         *)
(* serialised by a TTAS spinlock, in memory that several processes map.    *)
(*                                                                         *)
(* The data the lock protects is cut into Words, the units that one store  *)
(* or load moves.  A step of this module is a load or a store becoming     *)
(* visible.  The words of one copy move in any order; the fences and the   *)
(* Acquire/Release orderings of the code are the guards MayStoreData,      *)
(* MayStoreEven and MayValidate.  Between them the hardware may do what it *)
(* likes.                                                                  *)
(*                                                                         *)
(* A process may be killed at any step (Crash) and started again           *)
(* (Restart): it then attaches to the lock as it finds it.                 *)
(***************************************************************************)
EXTENDS Naturals

CONSTANTS
    Procs,       \* processes (or threads) that have the region mapped
    Words,       \* units of the region that one store or load moves
    Values,      \* what a word can hold
    Zero,        \* what a word of a fresh region holds
    MaxWrites,   \* bound: write operations started
    MaxCrashes   \* bound: processes killed

ASSUME ZeroAssumption == Zero \in Values
ASSUME BoundsAssumption == MaxWrites \in Nat /\ MaxCrashes \in Nat

VARIABLES
    seq,         \* seq_counter of the lock line
    writeLock,   \* write_lock of the lock line
    mem,         \* the region, word by word
    pc,          \* pc[p]: where p is in read or write
    loc,         \* loc[p]: the seq a reader got from read_begin
    todo,        \* todo[p]: words p has still to store or load
    buf,         \* buf[p]: what a writer stores, what a reader has copied
    committed,   \* history: the contents after the last write_unlock
    ret,         \* ret[p]: the copy that p's last read returned
    writes,      \* writes started so far
    crashes      \* processes killed so far

lockVars == <<seq, writeLock>>
vars == <<seq, writeLock, mem, pc, loc, todo, buf, committed, ret, writes, crashes>>

Content == [Words -> Values]
Blank == [w \in Words |-> Zero]
IsEven(n) == n % 2 = 0

Goto(p, label) == pc' = [pc EXCEPT ![p] = label]

(* The locals of an operation go out of scope.                             *)
Leave(p, label) ==
    /\ Goto(p, label)
    /\ loc' = [loc EXCEPT ![p] = 0]
    /\ todo' = [todo EXCEPT ![p] = {}]
    /\ buf' = [buf EXCEPT ![p] = Blank]

(***************************************************************************)
(* ShmSeqLock::init on a zeroed region (region.rs create).                 *)
(***************************************************************************)
Init ==
    /\ seq = 0
    /\ writeLock = 0
    /\ mem = Blank
    /\ pc = [p \in Procs |-> "idle"]
    /\ loc = [p \in Procs |-> 0]
    /\ todo = [p \in Procs |-> {}]
    /\ buf = [p \in Procs |-> Blank]
    /\ committed = Blank
    /\ ret = [p \in Procs |-> Blank]
    /\ writes = 0
    /\ crashes = 0

-------------------------------------------------------------------------------
(***************************************************************************)
(* Writers                                                                 *)
(***************************************************************************)

(* A process decides to write new contents.                                *)
StartWrite(p, new) ==
    /\ pc[p] = "idle"
    /\ writes < MaxWrites
    /\ writes' = writes + 1
    /\ buf' = [buf EXCEPT ![p] = new]
    /\ Goto(p, "w_spin")
    /\ UNCHANGED <<lockVars, mem, loc, todo, committed, ret, crashes>>

(* Mutant: the compare_exchange does not compare.                          *)
SpinlockIgnored == TRUE

(* The TTAS loop of write_lock: a failed test or a failed (also spuriously *)
(* failed) compare_exchange_weak leaves everything as it was.              *)
SpinlockFree == writeLock = 0

(* Mutant: the lock taken by fetch_add, without a test.                    *)
AcquireByAdd(p) ==
    /\ pc[p] = "w_spin"
    /\ writeLock' = writeLock + 1
    /\ todo' = [todo EXCEPT ![p] = Words]
    /\ Goto(p, "w_odd")
    /\ UNCHANGED <<seq, mem, loc, buf, committed, ret, writes, crashes>>

AcquireWrite(p) ==
    /\ pc[p] = "w_spin"
    /\ SpinlockFree
    /\ writeLock' = 1
    /\ todo' = [todo EXCEPT ![p] = Words]
    /\ Goto(p, "w_odd")
    /\ UNCHANGED <<seq, mem, loc, buf, committed, ret, writes, crashes>>

(* write_lock: seq goes odd.  Load and store are one step: only the holder *)
(* of the spinlock stores to seq.                                          *)
StoreOdd(p) ==
    /\ pc[p] = "w_odd"
    /\ seq' = seq + 1
    /\ Goto(p, "w_data")
    /\ UNCHANGED <<writeLock, mem, loc, todo, buf, committed, ret, writes, crashes>>

(* Mutant: the fence(Release) of issue #40 left out.                       *)
MayStoreDataNoFence(p) == pc[p] \in {"w_odd", "w_data"}

(* fence(Release) at the end of write_lock: no data store is visible       *)
(* before the odd seq.                                                     *)
MayStoreData(p) == pc[p] = "w_data"

StoreWord(p, w) ==
    /\ MayStoreData(p)
    /\ w \in todo[p]
    /\ mem' = [mem EXCEPT ![w] = buf[p][w]]
    /\ todo' = [todo EXCEPT ![p] = @ \ {w}]
    /\ UNCHANGED <<lockVars, pc, loc, buf, committed, ret, writes, crashes>>

(* Mutant: the even store is Relaxed.                                      *)
MayStoreEvenRelaxed(p) == TRUE

(* The even store of write_unlock is a Release: every data store is        *)
(* visible before it.                                                      *)
MayStoreEven(p) == todo[p] = {}

StoreEven(p) ==
    /\ pc[p] = "w_data"
    /\ MayStoreEven(p)
    /\ seq' = seq + 1
    /\ committed' = buf[p]
    /\ Goto(p, "w_unlock")
    /\ UNCHANGED <<writeLock, mem, loc, todo, buf, ret, writes, crashes>>

Unlock(p) ==
    /\ pc[p] = "w_unlock"
    /\ writeLock' = 0
    /\ Leave(p, "idle")
    /\ UNCHANGED <<seq, mem, committed, ret, writes, crashes>>

-------------------------------------------------------------------------------
(***************************************************************************)
(* Readers                                                                 *)
(***************************************************************************)

StartRead(p) ==
    /\ pc[p] = "idle"
    /\ Goto(p, "r_begin")
    /\ UNCHANGED <<lockVars, mem, loc, todo, buf, committed, ret, writes, crashes>>

(* read_begin spins until seq is even.  Its Acquire load orders the data   *)
(* loads after it.                                                         *)
ReadBegin(p) ==
    /\ pc[p] = "r_begin"
    /\ IsEven(seq)
    /\ loc' = [loc EXCEPT ![p] = seq]
    /\ todo' = [todo EXCEPT ![p] = Words]
    /\ Goto(p, "r_data")
    /\ UNCHANGED <<lockVars, mem, buf, committed, ret, writes, crashes>>

LoadWord(p, w) ==
    /\ pc[p] = "r_data"
    /\ w \in todo[p]
    /\ buf' = [buf EXCEPT ![p][w] = mem[w]]
    /\ todo' = [todo EXCEPT ![p] = @ \ {w}]
    /\ UNCHANGED <<lockVars, mem, pc, loc, committed, ret, writes, crashes>>

(* fence(Acquire) in read_validate: the data loads are done before seq is  *)
(* loaded again.                                                           *)
MayValidate(p) == todo[p] = {}

(* Mutant: read_validate only asks whether a writer is active now.         *)
ValidIfEven(p) == IsEven(seq)

Valid(p) == seq = loc[p]

(* read_validate succeeds: get_optimistic returns what it copied.          *)
ReturnRead(p) ==
    /\ pc[p] = "r_data"
    /\ MayValidate(p)
    /\ Valid(p)
    /\ ret' = [ret EXCEPT ![p] = buf[p]]
    /\ Leave(p, "idle")
    /\ UNCHANGED <<lockVars, mem, committed, writes, crashes>>

(* Mutant: the retry keeps the seq of the first read_begin.                *)
RetryReadStale(p) ==
    /\ pc[p] = "r_data"
    /\ MayValidate(p)
    /\ ~Valid(p)
    /\ todo' = [todo EXCEPT ![p] = Words]
    /\ UNCHANGED <<lockVars, mem, pc, loc, buf, committed, ret, writes, crashes>>

(* read_validate fails: the loop of get_optimistic goes round again.       *)
RetryRead(p) ==
    /\ pc[p] = "r_data"
    /\ MayValidate(p)
    /\ ~Valid(p)
    /\ Leave(p, "r_begin")
    /\ UNCHANGED <<lockVars, mem, committed, ret, writes, crashes>>

-------------------------------------------------------------------------------
(***************************************************************************)
(* The life of a process                                                   *)
(***************************************************************************)

(* A kill keeps whatever stores were visible; the lock line lives in the   *)
(* mapped file and is not cleaned up by anyone.                            *)
Crash(p) ==
    /\ pc[p] # "dead"
    /\ crashes < MaxCrashes
    /\ crashes' = crashes + 1
    /\ Leave(p, "dead")
    /\ UNCHANGED <<lockVars, mem, committed, ret, writes>>

(* ShmSeqLock::from_existing: a new process attaches and resets nothing.   *)
Restart(p) ==
    /\ pc[p] = "dead"
    /\ Goto(p, "idle")
    /\ UNCHANGED <<lockVars, mem, loc, todo, buf, committed, ret, writes, crashes>>

(* The steps a scheduled process takes inside an operation it has begun.   *)
WriteStep(p) ==
    \/ AcquireWrite(p) \/ StoreOdd(p) \/ StoreEven(p) \/ Unlock(p)
    \/ \E w \in Words : StoreWord(p, w)

ReadStep(p) ==
    \/ ReadBegin(p) \/ ReturnRead(p) \/ RetryRead(p)
    \/ \E w \in Words : LoadWord(p, w)

Next ==
    \E p \in Procs :
        \/ \E new \in Content : StartWrite(p, new)
        \/ StartRead(p)
        \/ WriteStep(p)
        \/ ReadStep(p)
        \/ Crash(p)
        \/ Restart(p)

Spec == Init /\ [][Next]_vars

(***************************************************************************)
(* The operating system runs every process that is not killed, and a       *)
(* killed one is started again.  Nobody is obliged to begin an operation.  *)
(***************************************************************************)
Fairness ==
    \A p \in Procs :
        /\ WF_vars(WriteStep(p))
        /\ WF_vars(ReadStep(p))
        /\ WF_vars(Restart(p))

FairSpec == Spec /\ Fairness

-------------------------------------------------------------------------------
(***************************************************************************)
(* Properties                                                              *)
(***************************************************************************)

Labels == {"idle", "w_spin", "w_odd", "w_data", "w_unlock", "r_begin", "r_data", "dead"}

(* Every variable has its type (lock.rs seq_counter, write_lock).          *)
TypeOK ==
    /\ seq \in Nat
    /\ writeLock \in {0, 1}
    /\ mem \in Content
    /\ pc \in [Procs -> Labels]
    /\ loc \in [Procs -> Nat]
    /\ todo \in [Procs -> SUBSET Words]
    /\ buf \in [Procs -> Content]
    /\ committed \in Content
    /\ ret \in [Procs -> Content]
    /\ writes \in Nat
    /\ crashes \in Nat

InWriteSection(p) == pc[p] \in {"w_odd", "w_data", "w_unlock"}

(* No torn read is validated: whenever read_validate would succeed, the    *)
(* words the reader copied one by one, while writers ran, are the contents *)
(* of one completed write (get_optimistic; issue #40 and loom_tests).      *)
ValidatedReadIsCommitted ==
    \A p \in Procs :
        pc[p] = "r_data" /\ MayValidate(p) /\ Valid(p) => buf[p] = committed

(* write_lock excludes: two processes are never both between the           *)
(* compare_exchange and the store that frees the spinlock, also not after  *)
(* one of them was killed there.                                           *)
WritersExclude ==
    \A p, q \in Procs :
        InWriteSection(p) /\ InWriteSection(q) => p = q

(* An even seq means a whole region: outside the window in which seq is    *)
(* odd, also after kills, every word belongs to the last completed write   *)
(* (what read_begin relies on when it returns).                            *)
EvenSeqMeansWhole == IsEven(seq) => mem = committed

(* The region is one atomic object to its users: reads linearise at        *)
(* read_validate, writes at the even store of write_unlock.                *)
Region == INSTANCE SharedRegion WITH content <- committed

ImplementsSharedRegion == Region!Spec

(* A process was killed between write_lock and write_unlock: nobody will   *)
(* ever free the spinlock.                                                 *)
Orphaned == crashes > 0 /\ writeLock = 1 /\ \A p \in Procs : ~InWriteSection(p)

(* "Existing shared caches survive process restarts" (README): a read that *)
(* was begun ends, unless its own process is killed (read_begin,           *)
(* get_optimistic).                                                        *)
ReadCompletes ==
    \A p \in Procs : pc[p] = "r_begin" ~> pc[p] \in {"idle", "dead"}

(* What holds instead: a read waits only for writers inside the lock, and  *)
(* spins for ever only if one was killed while seq was odd; a write waits  *)
(* for ever only if one was killed inside the lock (read_begin,            *)
(* get_optimistic, write_lock, write_unlock).  MaxWrites makes the         *)
(* interference finite: the code promises nothing to those whom writers    *)
(* overtake for ever, and the TTAS lock is not a fair one.                 *)
OperationsEndUnlessOrphaned ==
    \A p \in Procs :
        /\ pc[p] = "r_begin" ~> (pc[p] \in {"idle", "dead"} \/ (Orphaned /\ ~IsEven(seq)))
        /\ pc[p] = "w_spin" ~> (pc[p] \in {"idle", "dead"} \/ Orphaned)
===============================================================================
