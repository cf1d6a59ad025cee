--------------------------- MODULE ShmSeqLockProofs ---------------------------
(***************************************************************************)
(* Proofs about ShmSeqLock, for any processes, words and values, any       *)
(* number of writes and any number of kills.                               *)
(***************************************************************************)
EXTENDS ShmSeqLock, TLAPS

(***************************************************************************)
(* The inductive invariant.  It ties the parity of seq to the position of  *)
(* the writer, and says of a reader still under way that what it has       *)
(* copied is committed as long as seq has not moved.                       *)
(***************************************************************************)

(* The process inside the write section holds the spinlock.                *)
HolderInv == \A p \in Procs : InWriteSection(p) => writeLock = 1

(* A free spinlock, a writer about to go odd and one that went even again  *)
(* leave seq even.                                                         *)
ParityInv ==
    /\ writeLock = 0 => IsEven(seq)
    /\ \A p \in Procs : pc[p] \in {"w_odd", "w_unlock"} => IsEven(seq)
    /\ \A p \in Procs : pc[p] = "w_data" => ~IsEven(seq)

(* A writer has stored all the words it does not have still to store.      *)
WriterInv ==
    \A p \in Procs : pc[p] \in {"w_odd", "w_data"} =>
        \A w \in Words \ todo[p] : mem[w] = buf[p][w]

(* A reader that seq has not overtaken has copied committed words.         *)
ReaderInv ==
    \A p \in Procs : pc[p] = "r_data" =>
        /\ IsEven(loc[p])
        /\ loc[p] <= seq
        /\ seq = loc[p] => \A w \in Words \ todo[p] : buf[p][w] = committed[w]

IInv ==
    /\ TypeOK
    /\ HolderInv
    /\ WritersExclude
    /\ ParityInv
    /\ EvenSeqMeansWhole
    /\ WriterInv
    /\ ReaderInv

-------------------------------------------------------------------------------

(* Adding one flips the parity.                                            *)
LEMMA ParityFlips ==
    ASSUME NEW n \in Nat
    PROVE  IsEven(n + 1) <=> ~IsEven(n)
BY DEF IsEven

(* A region of zeroes is a content.                                        *)
LEMMA BlankIsContent == Blank \in Content
BY ZeroAssumption DEF Blank, Content

(* The initial state satisfies the inductive invariant.                    *)
LEMMA InitInv == Init => IInv
<1> SUFFICES ASSUME Init PROVE IInv
  OBVIOUS
<1> USE DEF Init
<1>1. TypeOK
  BY BlankIsContent DEF TypeOK, Labels
<1>2. IsEven(seq)
  BY DEF IsEven
<1>3. HolderInv /\ WritersExclude /\ ParityInv /\ WriterInv /\ ReaderInv
  BY <1>2 DEF HolderInv, WritersExclude, InWriteSection, ParityInv, WriterInv, ReaderInv
<1>4. EvenSeqMeansWhole
  BY DEF EvenSeqMeansWhole
<1> QED
  BY <1>1, <1>3, <1>4 DEF IInv

(* Every step keeps every variable in its type.                            *)
LEMMA TypeStep == TypeOK /\ [Next]_vars => TypeOK'
<1> SUFFICES ASSUME TypeOK, [Next]_vars PROVE TypeOK'
  OBVIOUS
<1> USE DEF TypeOK, Labels, Goto, lockVars
<1>1. ASSUME NEW p \in Procs, NEW new \in Content, StartWrite(p, new) PROVE TypeOK'
  BY <1>1 DEF StartWrite
<1>2. ASSUME NEW p \in Procs, StartRead(p) PROVE TypeOK'
  BY <1>2 DEF StartRead
<1>3. ASSUME NEW p \in Procs, WriteStep(p) PROVE TypeOK'
  <2>1. CASE AcquireWrite(p)
    BY <2>1 DEF AcquireWrite
  <2>2. CASE StoreOdd(p)
    BY <2>2 DEF StoreOdd
  <2>3. CASE StoreEven(p)
    BY <2>3 DEF StoreEven
  <2>4. CASE Unlock(p)
    BY <2>4, BlankIsContent DEF Unlock, Leave
  <2>5. ASSUME NEW w \in Words, StoreWord(p, w) PROVE TypeOK'
    BY <2>5 DEF StoreWord, Content
  <2> QED
    BY <1>3, <2>1, <2>2, <2>3, <2>4, <2>5 DEF WriteStep
<1>4. ASSUME NEW p \in Procs, ReadStep(p) PROVE TypeOK'
  <2>1. CASE ReadBegin(p)
    BY <2>1 DEF ReadBegin
  <2>2. CASE ReturnRead(p)
    BY <2>2, BlankIsContent DEF ReturnRead, Leave
  <2>3. CASE RetryRead(p)
    BY <2>3, BlankIsContent DEF RetryRead, Leave
  <2>4. ASSUME NEW w \in Words, LoadWord(p, w) PROVE TypeOK'
    BY <2>4 DEF LoadWord, Content
  <2> QED
    BY <1>4, <2>1, <2>2, <2>3, <2>4 DEF ReadStep
<1>5. ASSUME NEW p \in Procs, Crash(p) PROVE TypeOK'
  BY <1>5, BlankIsContent DEF Crash, Leave
<1>6. ASSUME NEW p \in Procs, Restart(p) PROVE TypeOK'
  BY <1>6 DEF Restart
<1>7. CASE UNCHANGED vars
  BY <1>7 DEF vars
<1> QED
  BY <1>1, <1>2, <1>3, <1>4, <1>5, <1>6, <1>7 DEF Next

(***************************************************************************)
(* Writer steps.  What only the holder of the spinlock does is harmless to *)
(* other writers by WritersExclude, and to readers because seq moves       *)
(* whenever committed or a committed word does.                            *)
(***************************************************************************)

(* The spinlock is taken.                                                  *)
LEMMA AcquireWriteInv ==
    ASSUME IInv, NEW p \in Procs, AcquireWrite(p), TypeOK'
    PROVE  IInv'
<1> USE DEF IInv, AcquireWrite, Goto, SpinlockFree, TypeOK
<1>1. \A q \in Procs : ~InWriteSection(q)
  BY DEF HolderInv
<1>2. HolderInv' /\ WritersExclude'
  BY <1>1 DEF HolderInv, WritersExclude, InWriteSection
<1>3. ParityInv'
  BY <1>1 DEF ParityInv, InWriteSection
<1>4. WriterInv'
  BY <1>1 DEF WriterInv, InWriteSection
<1>5. EvenSeqMeansWhole'
  BY DEF EvenSeqMeansWhole
<1>6. ReaderInv'
  BY DEF ReaderInv
<1> QED
  BY <1>2, <1>3, <1>4, <1>5, <1>6 DEF IInv

(* seq becomes odd.                                                        *)
LEMMA StoreOddInv ==
    ASSUME IInv, NEW p \in Procs, StoreOdd(p), TypeOK'
    PROVE  IInv'
<1> USE DEF IInv, StoreOdd, Goto, TypeOK
<1>1. writeLock = 1 /\ IsEven(seq)
  BY DEF HolderInv, InWriteSection, ParityInv
<1>2. ~IsEven(seq')
  BY <1>1, ParityFlips
<1>3. HolderInv' /\ WritersExclude'
  BY DEF HolderInv, WritersExclude, InWriteSection
<1>4. \A q \in Procs : q # p => ~InWriteSection(q)
  BY DEF WritersExclude, InWriteSection
<1>5. ParityInv'
  BY <1>1, <1>2, <1>4 DEF ParityInv, InWriteSection
<1>6. EvenSeqMeansWhole'
  BY <1>2 DEF EvenSeqMeansWhole
<1>7. WriterInv'
  BY <1>4 DEF WriterInv, InWriteSection
<1>8. ReaderInv'
  BY DEF ReaderInv
<1> QED
  BY <1>3, <1>5, <1>6, <1>7, <1>8 DEF IInv

(* A writer stores a word.                                                 *)
LEMMA StoreWordInv ==
    ASSUME IInv, NEW p \in Procs, NEW w \in Words, StoreWord(p, w), TypeOK'
    PROVE  IInv'
<1> USE DEF IInv, StoreWord, MayStoreData, lockVars, TypeOK
<1>1. ~IsEven(seq')
  BY DEF ParityInv
<1>2. HolderInv' /\ WritersExclude' /\ ParityInv'
  BY DEF HolderInv, WritersExclude, InWriteSection, ParityInv
<1>3. EvenSeqMeansWhole'
  BY <1>1 DEF EvenSeqMeansWhole
<1>4. \A q \in Procs : q # p => pc[q] \notin {"w_odd", "w_data"}
  BY DEF WritersExclude, InWriteSection
<1>5. WriterInv'
  BY <1>4 DEF WriterInv, Content
<1>6. ReaderInv'
  BY DEF ReaderInv
<1> QED
  BY <1>2, <1>3, <1>5, <1>6 DEF IInv

(* seq becomes even: the write is committed.                               *)
LEMMA StoreEvenInv ==
    ASSUME IInv, NEW p \in Procs, StoreEven(p), TypeOK'
    PROVE  IInv'
<1> USE DEF IInv, StoreEven, MayStoreEven, Goto, TypeOK
<1>1. writeLock = 1 /\ ~IsEven(seq)
  BY DEF HolderInv, InWriteSection, ParityInv
<1>2. IsEven(seq')
  BY <1>1, ParityFlips
<1>3. HolderInv' /\ WritersExclude'
  BY DEF HolderInv, WritersExclude, InWriteSection
<1>4. \A q \in Procs : q # p => ~InWriteSection(q)
  BY DEF WritersExclude, InWriteSection
<1>5. ParityInv'
  BY <1>1, <1>2, <1>4 DEF ParityInv, InWriteSection
<1>6. EvenSeqMeansWhole'
  <2>1. \A w \in Words : mem[w] = buf[p][w]
    BY DEF WriterInv
  <2>2. mem = buf[p]
    BY <2>1 DEF Content
  <2> QED
    BY <2>2 DEF EvenSeqMeansWhole
<1>7. WriterInv'
  BY <1>4 DEF WriterInv, InWriteSection
<1>8. ReaderInv'
  BY DEF ReaderInv
<1> QED
  BY <1>3, <1>5, <1>6, <1>7, <1>8 DEF IInv

(* The spinlock is released.                                               *)
LEMMA UnlockInv ==
    ASSUME IInv, NEW p \in Procs, Unlock(p), TypeOK'
    PROVE  IInv'
<1> USE DEF IInv, Unlock, Leave, Goto, TypeOK
<1>1. IsEven(seq)
  BY DEF ParityInv
<1>2. \A q \in Procs : q # p => ~InWriteSection(q)
  BY DEF WritersExclude, InWriteSection
<1>3. HolderInv' /\ WritersExclude'
  BY <1>2 DEF HolderInv, WritersExclude, InWriteSection
<1>4. ParityInv'
  BY <1>1, <1>2 DEF ParityInv, InWriteSection
<1>5. EvenSeqMeansWhole'
  BY DEF EvenSeqMeansWhole
<1>6. WriterInv'
  BY <1>2 DEF WriterInv, InWriteSection
<1>7. ReaderInv'
  BY DEF ReaderInv
<1> QED
  BY <1>3, <1>4, <1>5, <1>6, <1>7 DEF IInv

(***************************************************************************)
(* Reader steps.                                                           *)
(***************************************************************************)

(* A reader loads seq or a word, or validates.                             *)
LEMMA ReadStepInv ==
    ASSUME IInv, NEW p \in Procs, ReadStep(p), TypeOK'
    PROVE  IInv'
<1> USE DEF IInv, Goto, Leave, lockVars, TypeOK
<1>1. CASE ReadBegin(p)
  <2> USE <1>1 DEF ReadBegin
  <2>1. HolderInv' /\ WritersExclude' /\ ParityInv' /\ EvenSeqMeansWhole' /\ WriterInv'
    BY DEF HolderInv, WritersExclude, InWriteSection, ParityInv, EvenSeqMeansWhole, WriterInv
  <2>2. ReaderInv'
    BY DEF ReaderInv
  <2> QED
    BY <2>1, <2>2 DEF IInv
<1>2. CASE ReturnRead(p) \/ RetryRead(p)
  <2> USE <1>2 DEF ReturnRead, RetryRead
  <2>1. HolderInv' /\ WritersExclude' /\ ParityInv' /\ EvenSeqMeansWhole' /\ WriterInv'
    BY DEF HolderInv, WritersExclude, InWriteSection, ParityInv, EvenSeqMeansWhole, WriterInv
  <2>2. ReaderInv'
    BY DEF ReaderInv
  <2> QED
    BY <2>1, <2>2 DEF IInv
<1>3. ASSUME NEW w \in Words, LoadWord(p, w) PROVE IInv'
  <2> USE <1>3 DEF LoadWord
  <2>1. HolderInv' /\ WritersExclude' /\ ParityInv' /\ EvenSeqMeansWhole' /\ WriterInv'
    BY DEF HolderInv, WritersExclude, InWriteSection, ParityInv, EvenSeqMeansWhole, WriterInv
  <2>2. seq = loc[p] => mem[w] = committed[w]
    BY DEF ReaderInv, EvenSeqMeansWhole
  <2>3. ReaderInv'
    BY <2>2 DEF ReaderInv, Content
  <2> QED
    BY <2>1, <2>3 DEF IInv
<1> QED
  BY <1>1, <1>2, <1>3 DEF ReadStep

(***************************************************************************)
(* Beginning an operation, being killed, coming back.                      *)
(***************************************************************************)

(* A step outside the lock and the copy loop, kills included.              *)
LEMMA OutsideStepInv ==
    ASSUME IInv, NEW p \in Procs, TypeOK',
           \/ \E new \in Content : StartWrite(p, new)
           \/ StartRead(p) \/ Crash(p) \/ Restart(p)
    PROVE  IInv'
<1> USE DEF IInv, Goto, Leave, lockVars, TypeOK, StartWrite, StartRead, Crash, Restart
<1>1. HolderInv' /\ WritersExclude'
  BY DEF HolderInv, WritersExclude, InWriteSection
<1>2. ParityInv'
  BY DEF ParityInv
<1>3. EvenSeqMeansWhole'
  BY DEF EvenSeqMeansWhole
<1>4. WriterInv'
  BY DEF WriterInv
<1>5. ReaderInv'
  BY DEF ReaderInv
<1> QED
  BY <1>1, <1>2, <1>3, <1>4, <1>5 DEF IInv

(* Every step preserves the inductive invariant.                           *)
LEMMA NextInv == IInv /\ [Next]_vars => IInv'
<1> SUFFICES ASSUME IInv, [Next]_vars PROVE IInv'
  OBVIOUS
<1>1. TypeOK'
  BY TypeStep DEF IInv
<1>2. ASSUME NEW p \in Procs, WriteStep(p) PROVE IInv'
  BY <1>1, <1>2, AcquireWriteInv, StoreOddInv, StoreWordInv, StoreEvenInv, UnlockInv
  DEF WriteStep
<1>3. CASE UNCHANGED vars
  BY <1>3 DEF vars, IInv, TypeOK, HolderInv, WritersExclude, InWriteSection, ParityInv,
              EvenSeqMeansWhole, WriterInv, ReaderInv
<1> QED
  BY <1>1, <1>2, <1>3, ReadStepInv, OutsideStepInv DEF Next

(* IInv is an invariant of the seqlock.                                    *)
LEMMA Invariance == Spec => []IInv
BY InitInv, NextInv, PTL DEF Spec

-------------------------------------------------------------------------------
(***************************************************************************)
(* Theorems                                                                *)
(***************************************************************************)

(* Every variable keeps its type (seq_counter, write_lock, the region).    *)
THEOREM TypeCorrect == Spec => []TypeOK
<1>1. IInv => TypeOK
  BY DEF IInv
<1> QED
  BY Invariance, <1>1, PTL

(* No torn read is ever validated: get_optimistic returns the contents of  *)
(* one completed write, however many processes read, write and are killed. *)
THEOREM NoTornReads == Spec => []ValidatedReadIsCommitted
<1>1. IInv => ValidatedReadIsCommitted
  <2> SUFFICES ASSUME IInv, NEW p \in Procs, pc[p] = "r_data", MayValidate(p), Valid(p)
               PROVE  buf[p] = committed
    BY DEF ValidatedReadIsCommitted
  <2>1. \A w \in Words : buf[p][w] = committed[w]
    BY DEF IInv, ReaderInv, MayValidate, Valid
  <2> QED
    BY <2>1 DEF IInv, TypeOK, Content
<1> QED
  BY Invariance, <1>1, PTL

(* write_lock is mutual exclusion.                                         *)
THEOREM MutualExclusion == Spec => []WritersExclude
<1>1. IInv => WritersExclude
  BY DEF IInv
<1> QED
  BY Invariance, <1>1, PTL

(* An even seq is a whole region, also after kills.                        *)
THEOREM EvenIsWhole == Spec => []EvenSeqMeansWhole
<1>1. IInv => EvenSeqMeansWhole
  BY DEF IInv
<1> QED
  BY Invariance, <1>1, PTL

(* The seqlock implements an atomic region: the even store of write_unlock *)
(* is the abstract write, a successful read_validate the abstract read.    *)
THEOREM Refinement == Spec => ImplementsSharedRegion
<1>1. Init => Region!Init
  BY DEF Init, Region!Init, Blank
<1>2. IInv /\ [Next]_vars => [Region!Next]_<<committed, ret>>
  <2> SUFFICES ASSUME IInv, [Next]_vars
               PROVE  [Region!Next]_<<committed, ret>>
    OBVIOUS
  <2>1. ASSUME NEW p \in Procs, StoreEven(p) PROVE Region!Write
    BY <2>1 DEF StoreEven, Region!Write, Region!Content, Content, IInv, TypeOK
  <2>2. ASSUME NEW p \in Procs, ReturnRead(p) PROVE Region!Read(p)
    <3>1. buf[p] = committed
      <4>1. \A w \in Words : buf[p][w] = committed[w]
        BY <2>2 DEF ReturnRead, IInv, ReaderInv, MayValidate, Valid
      <4> QED
        BY <4>1 DEF IInv, TypeOK, Content
    <3> QED
      BY <2>2, <3>1 DEF ReturnRead, Region!Read
  <2>3. ASSUME NEW p \in Procs, WriteStep(p), ~StoreEven(p)
        PROVE  UNCHANGED <<committed, ret>>
    BY <2>3 DEF WriteStep, AcquireWrite, StoreOdd, StoreWord, Unlock
  <2>4. ASSUME NEW p \in Procs, ReadStep(p), ~ReturnRead(p)
        PROVE  UNCHANGED <<committed, ret>>
    BY <2>4 DEF ReadStep, ReadBegin, LoadWord, RetryRead
  <2>5. ASSUME NEW p \in Procs,
               \/ \E new \in Content : StartWrite(p, new)
               \/ StartRead(p) \/ Crash(p) \/ Restart(p)
        PROVE  UNCHANGED <<committed, ret>>
    BY <2>5 DEF StartWrite, StartRead, Crash, Restart
  <2>6. CASE UNCHANGED vars
    BY <2>6 DEF vars
  <2> QED
    BY <2>1, <2>2, <2>3, <2>4, <2>5, <2>6 DEF Next, Region!Next
<1> QED
  BY Invariance, <1>1, <1>2, PTL DEF Spec, ImplementsSharedRegion, Region!Spec
===============================================================================
