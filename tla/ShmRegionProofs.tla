---------------------------- MODULE ShmRegionProofs ----------------------------
(***************************************************************************)
(* Proofs about ShmRegion, for any processes, parameters and bounds: what  *)
(* a starter finds, what it gets and what it keeps.                        *)
(*                                                                         *)
(* The properties speak of moments (a starter decides, a process works);   *)
(* the invariant says what the process that holds the init lock has built  *)
(* so far, and that nobody without a disagreement, a kill or an error has  *)
(* the files mapped meanwhile.                                             *)
(***************************************************************************)
EXTENDS ShmRegion, TLAPS

Holding(p) == pc[p] \in {"decide", "create"} \/ InCreate(p)

(* Only the holder of the init lock is past it.                            *)
HolderInv == \A p \in Procs : Holding(p) => initLock = p

(* The magic is stored when both files are there.                          *)
MagicInv == data.magic => lockFile /\ data.state = "sized"

(* Whoever is about to create has found nothing to open, or could not.     *)
CreateInv == \A p \in Procs : pc[p] = "create" => ~(data.magic /\ Matches(p)) \/ tainted

(* The header, as far as p has stored it.                                  *)
HeaderBuilt(p) ==
    /\ \A f \in Compared \ todo[p] : data.fields[f] = Params(p)[f]
    /\ "magic" \in todo[p] \/ data.magic
    /\ "links" \in todo[p] \/ "links" \in data.built

(* What a creator has done when it is at its label.                        *)
Progress(p) ==
    /\ ValidCapacity(p)
    /\ data.by = Params(p)
    /\ data.mixed => tainted
    /\ data.state = IF pc[p] = "size" THEN "empty" ELSE "sized"
    /\ pc[p] \notin {"size", "lockfile"} => lockFile
    /\ pc[p] \notin {"size", "lockfile", "zero"} => HeaderBuilt(p)
    /\ pc[p] \in {"table", "slots", "flush"} => todo[p] = {}
    /\ pc[p] \in {"slots", "flush"} => "table" \in data.built
    /\ pc[p] = "flush" => "slots" \in data.built

BuildInv == \A p \in Procs : InCreate(p) => Progress(p)

(* What lies in the data file when nobody is creating.                     *)
Finished == data.state = "absent" \/ Whole \/ data.abandoned \/ (data.mixed /\ tainted)

RestInv == (\A p \in Procs : ~InCreate(p)) => Finished

(* Without a taint nobody has the files mapped while they are rebuilt.     *)
UserInv ==
    ~tainted => \A p \in Procs : pc[p] = "open" =>
        /\ Whole /\ data.by = Params(p)
        /\ \A q \in Procs : ~InCreate(q)

IInv ==
    /\ TypeOK /\ HolderInv /\ MagicInv /\ CreateInv /\ BuildInv /\ RestInv /\ UserInv
    /\ data.abandoned => tainted

-------------------------------------------------------------------------------
(***************************************************************************)
(* Types                                                                   *)
(***************************************************************************)

(* The fields that create_or_open compares.                                *)
LEMMA ComparedFields ==
    Compared = {"version", "capacity", "max_key_size", "max_value_size", "ttl_nanos"}
BY DEF Compared, NoParams

(* The conversion of a ttl is a number.                                    *)
LEMMA TtlIsNat == ASSUME NEW p \in Procs PROVE ttl_nanos(Request[p].ttl) \in Nat
<1> DEFINE t == Request[p].ttl
<1>1. CASE t = NoTtl \/ t < 0
    BY <1>1 DEF ttl_nanos
<1>2. CASE ~(t = NoTtl \/ t < 0)
    <2>1. t \in Nat
        BY <1>2, RequestAssumption
    <2> QED
        BY <1>2, <2>1, RegionAssumption DEF ttl_nanos
<1> QED
    BY <1>1, <1>2

(* Parameters have their type, those of nobody included.                   *)
LEMMA ParamsTyped ==
    /\ NoParams \in ParamsType
    /\ \A p \in Procs : Params(p) \in ParamsType
<1>1. NoParams \in ParamsType
    BY ComparedFields DEF ParamsType, NoParams
<1>2. ASSUME NEW p \in Procs PROVE Params(p) \in ParamsType
    BY ComparedFields, TtlIsNat, RequestAssumption DEF ParamsType, Params
<1> QED
    BY <1>1, <1>2

(* The capacity in the parameters of p is the one it asks for.             *)
LEMMA CapacityOfParams == ASSUME NEW p \in Procs PROVE Params(p).capacity = Request[p].capacity
BY DEF Params

DataType ==
    [state : {"absent", "empty", "sized"}, magic : BOOLEAN, fields : ParamsType,
     built : SUBSET Parts, by : ParamsType, abandoned : BOOLEAN, mixed : BOOLEAN]

(* A zeroed region has its type.                                           *)
LEMMA ZeroedTyped ==
    ASSUME NEW by \in ParamsType
    PROVE  Zeroed(by) \in DataType /\ [Zeroed(by) EXCEPT !.state = "empty"] \in DataType
BY ParamsTyped DEF Zeroed, DataType

(* Every variable keeps its type, given what a creator has done so far.    *)
LEMMA TypeStep == TypeOK /\ BuildInv /\ [Next]_vars => TypeOK'
<1> SUFFICES ASSUME TypeOK, BuildInv, [Next]_vars PROVE TypeOK'
    OBVIOUS
<1> USE RegionAssumption DEF TypeOK, Goto, Return, Leave, Unlocked, files, bounds, Labels
<1>1. ASSUME NEW p \in Procs, Start(p) \/ Lock(p) \/ Decide(p) PROVE TypeOK'
    BY <1>1 DEF Start, Lock, Decide
<1>2. ASSUME NEW p \in Procs, Reopen(p) \/ Fault(p) \/ Refuse(p) \/ FinishCreate(p) PROVE TypeOK'
    BY <1>2 DEF Reopen, Fault, Refuse, FinishCreate
<1>3. ASSUME NEW p \in Procs, Truncate(p) PROVE TypeOK'
    <2>1. data' \in DataType
        BY <1>3, ZeroedTyped, ParamsTyped DEF Truncate
    <2>2. data'.by.capacity \in 1 .. MaxCapacity
        BY <1>3, CapacityOfParams DEF Truncate, Zeroed, ValidCapacity
    <2> QED
        BY <1>3, <2>1, <2>2 DEF Truncate, DataType
<1>4. ASSUME NEW p \in Procs, InCreate(p) PROVE data.by.capacity \in 1 .. MaxCapacity
    BY <1>4 DEF BuildInv, Progress
<1>5. ASSUME NEW p \in Procs, SetLen(p) PROVE TypeOK'
    <2>1. InCreate(p)
        BY <1>5 DEF SetLen, InCreate
    <2>2. data' \in DataType /\ data'.by = data.by
        BY <1>5 DEF SetLen, DataType
    <2> QED
        BY <1>4, <1>5, <2>1, <2>2 DEF SetLen, DataType
<1>6. ASSUME NEW p \in Procs, MakeLockFile(p) PROVE TypeOK'
    BY <1>6 DEF MakeLockFile
<1>7. ASSUME NEW p \in Procs, Zero(p) PROVE TypeOK'
    <2>1. InCreate(p)
        BY <1>7 DEF Zero, InCreate
    <2>2. data' \in DataType /\ data'.by = data.by
        BY <1>7, ZeroedTyped DEF Zero, Zeroed
    <2> QED
        BY <1>4, <1>7, <2>1, <2>2 DEF Zero, DataType
<1>8. ASSUME NEW p \in Procs, NEW f \in HeaderStores, StoreHeader(p, f) PROVE TypeOK'
    <2>1. CASE f = "magic" \/ f = "links"
        BY <1>8, <2>1 DEF StoreHeader, Parts
    <2>2. CASE f \in Compared
        <3>1. Params(p)[f] \in Nat
            BY <2>2, ParamsTyped DEF ParamsType
        <3>2. data' = [data EXCEPT !.fields[f] = Params(p)[f]]
            BY <1>8, <2>2, ComparedFields DEF StoreHeader
        <3>3. data' \in DataType /\ data'.by = data.by /\ data'.state = data.state
            BY <2>2, <3>1, <3>2 DEF DataType, ParamsType
        <3> QED
            BY <1>8, <3>3 DEF StoreHeader, DataType
    <2> QED
        BY <2>1, <2>2 DEF HeaderStores
<1>9. ASSUME NEW p \in Procs, BuildTable(p) \/ BuildSlots(p) PROVE TypeOK'
    BY <1>9 DEF BuildTable, BuildSlots, Parts
<1>10. ASSUME NEW p \in Procs, WriteAstray(p) \/ UserFaults(p) \/ Exit(p) \/ Restart(p)
       PROVE TypeOK'
    BY <1>10 DEF WriteAstray, UserFaults, Exit, Restart
<1>11. ASSUME NEW p \in Procs, Crash(p) PROVE TypeOK'
    <2>1. data' \in DataType /\ data'.by = data.by /\ data'.state = data.state
        BY <1>11, Zenon DEF Crash, DataType
    <2> QED
        BY <1>11, <2>1 DEF Crash, DataType
<1>12. ASSUME NEW p \in Procs, OpenFails(p) \/ FailHarmlessly(p) PROVE TypeOK'
    <2>1. CASE OpenFails(p)
        BY <2>1 DEF OpenFails, SystemCallFails
    <2>2. CASE FailHarmlessly(p)
        BY <2>2 DEF FailHarmlessly, SystemCallFails
    <2> QED
        BY <1>12, <2>1, <2>2
<1>13. ASSUME NEW p \in Procs, FailCreate(p) PROVE TypeOK'
    <2>1. data' \in DataType /\ data'.by = data.by /\ data'.state = data.state
        BY <1>13 DEF FailCreate, DataType
    <2>2. lockFile' \in BOOLEAN
        BY <1>13, Zenon DEF FailCreate
    <2> QED
        BY <1>13, <2>1, <2>2 DEF FailCreate, SystemCallFails, DataType
<1>14. CASE UNCHANGED vars
    BY <1>14 DEF vars
<1> QED
    BY <1>1, <1>2, <1>3, <1>5, <1>6, <1>7, <1>8, <1>9, <1>10, <1>11, <1>12, <1>13, <1>14
    DEF Next, Continue

-------------------------------------------------------------------------------
(***************************************************************************)
(* The invariant                                                           *)
(***************************************************************************)

Creating == {"size", "lockfile", "zero", "header", "table", "slots", "flush"}

(* No two processes are past the init lock.                                *)
LEMMA Exclusive ==
    ASSUME HolderInv, NEW p \in Procs, NEW q \in Procs, Holding(p), Holding(q)
    PROVE  p = q
BY DEF HolderInv

(* A step of p that touches nothing but its label and the lock, outside    *)
(* create on both sides, and that maps nothing.                            *)
LEMMA QuietStep ==
    ASSUME IInv, TypeOK', HolderInv', CreateInv', NEW p \in Procs, NEW label \in Labels,
           label \notin Creating \cup {"open"}, ~InCreate(p), Goto(p, label),
           UNCHANGED <<data, lockFile, todo>>, tainted => tainted'
    PROVE  IInv'
<1> USE DEF IInv, TypeOK, Goto, InCreate, Creating
<1>1. MagicInv'
    BY DEF MagicInv
<1>2. BuildInv'
    BY DEF BuildInv, Progress, HeaderBuilt
<1>3. RestInv'
    BY DEF RestInv, Finished, Whole
<1>4. UserInv'
    BY DEF UserInv, Whole
<1> QED
    BY <1>1, <1>2, <1>3, <1>4

(* A step of a creator that stays inside create: nobody else is past the   *)
(* lock, and nobody has the files mapped unless there is a taint.          *)
LEMMA CreatorStep ==
    ASSUME IInv, TypeOK', NEW p \in Procs, NEW label \in Creating, InCreate(p), Goto(p, label),
           UNCHANGED <<initLock, tainted>>, data'.abandoned => data.abandoned,
           Progress(p)', MagicInv'
    PROVE  IInv'
<1> USE DEF IInv, TypeOK, Goto, Creating
<1>1. \A q \in Procs \ {p} : ~Holding(q) /\ ~Holding(q)'
    BY Exclusive DEF Holding, InCreate
<1>2. InCreate(p)'
    BY DEF InCreate
<1>3. HolderInv'
    BY <1>1, <1>2 DEF HolderInv, Holding
<1>4. CreateInv'
    BY <1>1, <1>2 DEF CreateInv, Holding, InCreate
<1>5. BuildInv'
    BY <1>1 DEF BuildInv, Holding
<1>6. RestInv'
    BY <1>2 DEF RestInv
<1>7. UserInv'
    BY <1>2 DEF UserInv, InCreate
<1> QED
    BY <1>3, <1>4, <1>5, <1>6, <1>7

(* The stores of create, one after the other, lead from Progress to        *)
(* Progress.                                                               *)
LEMMA CreateSteps ==
    ASSUME IInv, TypeOK', NEW p \in Procs,
           \/ SetLen(p) \/ MakeLockFile(p) \/ Zero(p) \/ BuildTable(p) \/ BuildSlots(p)
           \/ \E f \in HeaderStores : StoreHeader(p, f)
    PROVE  IInv'
<1> USE DEF IInv, TypeOK, Goto, bounds
<1>0. InCreate(p) /\ Progress(p)
    BY DEF SetLen, MakeLockFile, Zero, BuildTable, BuildSlots, StoreHeader, InCreate, BuildInv
<1>1. CASE SetLen(p)
    <2>1. Progress(p)' /\ MagicInv'
        BY <1>0, <1>1 DEF SetLen, Progress, MagicInv, Params, ValidCapacity
    <2> QED
        BY <1>0, <1>1, <2>1, CreatorStep DEF SetLen, Creating
<1>2. CASE MakeLockFile(p)
    <2>1. Progress(p)' /\ MagicInv'
        BY <1>0, <1>2 DEF MakeLockFile, Progress, MagicInv, Params, ValidCapacity
    <2> QED
        BY <1>0, <1>2, <2>1, CreatorStep DEF MakeLockFile, Creating
<1>3. CASE Zero(p)
    <2>1. HeaderBuilt(p)'
        BY <1>3 DEF Zero, HeaderBuilt, HeaderStores
    <2>2. Progress(p)' /\ MagicInv'
        BY <1>0, <1>3, <2>1 DEF Zero, Zeroed, Progress, MagicInv, Params, ValidCapacity
    <2>3. data'.abandoned => data.abandoned
        BY <1>3 DEF Zero, Zeroed
    <2> QED
        BY <1>0, <1>3, <2>2, <2>3, CreatorStep DEF Zero, Creating
<1>4. ASSUME NEW f \in HeaderStores, StoreHeader(p, f) PROVE IInv'
    <2>0. HeaderBuilt(p)
        BY <1>0, <1>4 DEF StoreHeader, Progress
    <2>1. CASE f = "magic" \/ f = "links"
        <3>1. HeaderBuilt(p)'
            BY <1>4, <2>0, <2>1, ComparedFields DEF StoreHeader, HeaderBuilt, Params
        <3>2. Progress(p)' /\ MagicInv'
            BY <1>0, <1>4, <2>1, <3>1 DEF StoreHeader, Progress, MagicInv, Params, ValidCapacity
        <3>3. data'.abandoned => data.abandoned
            BY <1>4, <2>1 DEF StoreHeader
        <3> QED
            BY <1>0, <1>4, <3>2, <3>3, CreatorStep DEF StoreHeader, Creating
    <2>2. CASE f \in Compared
        <3>1. data' = [data EXCEPT !.fields[f] = Params(p)[f]]
            BY <1>4, <2>2, ComparedFields DEF StoreHeader
        <3>2. HeaderBuilt(p)'
            BY <1>4, <2>0, <2>2, <3>1, ComparedFields DEF StoreHeader, HeaderBuilt, ParamsType, Params
        <3>3. Progress(p)' /\ MagicInv' /\ data'.abandoned = data.abandoned
            BY <1>0, <1>4, <3>1, <3>2 DEF StoreHeader, Progress, MagicInv, Params, ValidCapacity
        <3> QED
            BY <1>0, <1>4, <3>3, CreatorStep DEF StoreHeader, Creating
    <2> QED
        BY <2>1, <2>2 DEF HeaderStores
<1>5. CASE BuildTable(p)
    <2>1. Progress(p)' /\ MagicInv'
        BY <1>0, <1>5 DEF BuildTable, Progress, HeaderBuilt, MagicInv, Params, ValidCapacity
    <2> QED
        BY <1>0, <1>5, <2>1, CreatorStep DEF BuildTable, Creating
<1>6. CASE BuildSlots(p)
    <2>1. Progress(p)' /\ MagicInv'
        BY <1>0, <1>6 DEF BuildSlots, Progress, HeaderBuilt, MagicInv, Params, ValidCapacity
    <2> QED
        BY <1>0, <1>6, <2>1, CreatorStep DEF BuildSlots, Creating
<1> QED
    BY <1>1, <1>2, <1>3, <1>4, <1>5, <1>6

(* Whoever truncates has found nothing to open, so that an existing region *)
(* of the same parameters has no user unless there is a taint.             *)
LEMMA TruncateStep ==
    ASSUME IInv, TypeOK', NEW p \in Procs, Truncate(p)
    PROVE  IInv'
<1> USE DEF IInv, TypeOK, Goto, Truncate, bounds
<1>1. Holding(p) /\ \A q \in Procs \ {p} : ~Holding(q) /\ ~Holding(q)'
    BY Exclusive DEF Holding, InCreate
<1>2. InCreate(p)' /\ \A q \in Procs : ~InCreate(q)
    BY <1>1 DEF InCreate, Holding
<1>3. /\ data'.state = "empty" /\ ~data'.magic /\ ~data'.mixed /\ ~data'.abandoned
      /\ data'.by = Params(p)
    BY DEF Zeroed
<1>4. HolderInv'
    BY <1>1 DEF HolderInv, Holding, InCreate
<1>5. MagicInv' /\ CreateInv'
    BY <1>3 DEF MagicInv, CreateInv
<1>6. BuildInv'
    BY <1>1, <1>3 DEF BuildInv, Progress, Holding, InCreate, Params, ValidCapacity
<1>7. RestInv'
    BY <1>2 DEF RestInv
<1>8. UserInv'
    <2> SUFFICES ASSUME ~tainted', NEW q \in Procs, pc'[q] = "open" PROVE FALSE
        BY DEF UserInv
    <2>1. pc[q] = "open" /\ ~tainted
        OBVIOUS
    <2>2. Whole
        BY <2>1 DEF UserInv
    <2>3. data.by = Params(p)
        BY <2>2 DEF Whole
    <2> QED
        BY <2>2, <2>3 DEF Whole, CreateInv, Matches
<1> QED
    BY <1>3, <1>4, <1>5, <1>6, <1>7, <1>8

(* What create has built when it comes to the flush is a whole region of   *)
(* the caller's parameters, unless someone has written astray.             *)
LEMMA BuiltIsWhole ==
    ASSUME IInv, NEW p \in Procs, pc[p] = "flush"
    PROVE  data.fields = Params(p) /\ (Whole \/ (data.mixed /\ tainted))
<1> USE DEF IInv, TypeOK
<1>1. Progress(p)
    BY DEF BuildInv, InCreate
<1>2. todo[p] = {} /\ data.magic /\ data.state = "sized" /\ data.by = Params(p)
    BY <1>1 DEF Progress, HeaderBuilt
<1>3. \A f \in Compared : data.fields[f] = Params(p)[f]
    BY <1>1, <1>2 DEF Progress, HeaderBuilt
<1>4. data.fields = Params(p)
    BY <1>3, ParamsTyped DEF ParamsType
<1>5. data.built = Parts
    BY <1>1, <1>2 DEF Progress, HeaderBuilt, Parts
<1> QED
    BY <1>1, <1>2, <1>4, <1>5 DEF Progress, Whole

(* A region that p opens or has finished is its own, and whole unless a    *)
(* creator was killed or failed or someone has written astray.             *)
LEMMA OpenedIsOwn ==
    ASSUME IInv, NEW p \in Procs, Reopen(p) \/ FinishCreate(p)
    PROVE  /\ data.fields = Params(p)
           /\ Whole \/ data.abandoned \/ (data.mixed /\ tainted)
           /\ \A q \in Procs \ {p} : ~InCreate(q)
<1> USE DEF IInv, TypeOK
<1>1. Holding(p)
    BY DEF Reopen, FinishCreate, Holding, InCreate
<1>2. \A q \in Procs \ {p} : ~InCreate(q)
    BY <1>1, Exclusive DEF Holding
<1>3. CASE Reopen(p)
    <2>1. RestInv => Finished
        BY <1>2, <1>3 DEF Reopen, RestInv, InCreate
    <2> QED
        BY <1>2, <1>3, <2>1 DEF Reopen, Matches, Finished
<1>4. CASE FinishCreate(p)
    BY <1>2, <1>4, BuiltIsWhole DEF FinishCreate
<1> QED
    BY <1>3, <1>4

(* Opening, and finishing creation.                                        *)
LEMMA OpenStep ==
    ASSUME IInv, TypeOK', NEW p \in Procs, Reopen(p) \/ FinishCreate(p)
    PROVE  IInv'
<1> USE DEF IInv, TypeOK
<1>1. /\ UNCHANGED <<data, lockFile, tainted, todo>>
      /\ Goto(p, "open")
      /\ initLock' = Unlocked(p)
    BY DEF Reopen, FinishCreate, Return, Leave, files
<1>2. /\ data.fields = Params(p)
      /\ Whole \/ data.abandoned \/ (data.mixed /\ tainted)
      /\ \A q \in Procs : ~InCreate(q)'
    BY <1>1, OpenedIsOwn DEF Goto, InCreate
<1>3. HolderInv'
    BY <1>1 DEF HolderInv, Holding, Goto, Unlocked, InCreate
<1>4. MagicInv' /\ CreateInv'
    BY <1>1 DEF MagicInv, CreateInv, Matches, Goto
<1>5. BuildInv'
    BY <1>2 DEF BuildInv
<1>6. RestInv'
    BY <1>1, <1>2 DEF RestInv, Finished, Whole
<1>7. UserInv'
    <2> SUFFICES ASSUME ~tainted, NEW q \in Procs, pc'[q] = "open"
                 PROVE  Whole /\ data.by = Params(q)
        BY <1>1, <1>2 DEF UserInv, Whole
    <2>1. Whole
        BY <1>2
    <2>2. CASE q = p
        BY <1>2, <2>1, <2>2 DEF Whole
    <2>3. CASE q # p
        BY <1>1, <2>1, <2>3 DEF UserInv, Goto
    <2> QED
        BY <2>1, <2>2, <2>3
<1> QED
    BY <1>1, <1>3, <1>4, <1>5, <1>6, <1>7

(* Writing astray happens after a taint only.                              *)
LEMMA AstrayStep ==
    ASSUME IInv, TypeOK', NEW p \in Procs, WriteAstray(p)
    PROVE  IInv'
<1> USE DEF IInv, TypeOK, WriteAstray, bounds
<1>1. tainted
    BY DEF UserInv
<1>2. /\ data'.state = data.state /\ data'.magic = data.magic /\ data'.fields = data.fields
      /\ data'.built = data.built /\ data'.by = data.by /\ data'.abandoned = data.abandoned
      /\ data'.mixed = TRUE
    OBVIOUS
<1>3. HolderInv' /\ MagicInv' /\ CreateInv'
    BY <1>2 DEF HolderInv, Holding, InCreate, MagicInv, CreateInv, Matches
<1>4. BuildInv'
    BY <1>1, <1>2 DEF BuildInv, InCreate, Progress, HeaderBuilt
<1>5. RestInv' /\ UserInv'
    BY <1>1, <1>2 DEF RestInv, Finished, UserInv
<1> QED
    BY <1>1, <1>3, <1>4, <1>5

(* A kill: outside create nothing is lost, inside it is a taint.           *)
LEMMA CrashStep ==
    ASSUME IInv, TypeOK', NEW p \in Procs, Crash(p)
    PROVE  IInv'
<1> USE DEF IInv, TypeOK, Goto, Crash
<1>1. /\ data'.state = data.state /\ data'.magic = data.magic /\ data'.fields = data.fields
      /\ data'.built = data.built /\ data'.by = data.by /\ data'.mixed = data.mixed
    OBVIOUS
<1>2. data'.abandoned <=> data.abandoned \/ InCreate(p)
    BY Zenon
<1>3. tainted' <=> tainted \/ InCreate(p)
    OBVIOUS
<1>4. \A q \in Procs \ {p} : pc'[q] = pc[q] /\ todo'[q] = todo[q]
    OBVIOUS
<1>5. pc'[p] = "dead"
    OBVIOUS
<1>6. HolderInv'
    BY <1>4, <1>5 DEF HolderInv, Holding, Unlocked, InCreate
<1>7. MagicInv' /\ CreateInv'
    BY <1>1, <1>4, <1>5 DEF MagicInv, CreateInv, Matches
<1>8. BuildInv'
    BY <1>1, <1>3, <1>4, <1>5 DEF BuildInv, InCreate, Progress, HeaderBuilt
<1>9. RestInv'
    <2>1. CASE InCreate(p)
        BY <1>2, <2>1 DEF RestInv, Finished
    <2>2. CASE ~InCreate(p)
        BY <1>1, <1>2, <1>3, <1>4, <1>5, <2>2 DEF RestInv, Finished, Whole, InCreate
    <2> QED
        BY <2>1, <2>2
<1>10. UserInv'
    BY <1>1, <1>3, <1>4, <1>5 DEF UserInv, Whole, InCreate
<1> QED
    BY <1>2, <1>3, <1>6, <1>7, <1>8, <1>9, <1>10

(* An error inside create leaves a taint, one that comes later does not.   *)
LEMMA FailStep ==
    ASSUME IInv, TypeOK', NEW p \in Procs,
           FailCreate(p) \/ (FailHarmlessly(p) /\ pc[p] = "flush")
    PROVE  IInv'
<1> USE DEF IInv, TypeOK
<1>1. InCreate(p) /\ Progress(p) /\ Holding(p)
    BY DEF FailCreate, FailHarmlessly, InCreate, BuildInv, Holding
<1>2. /\ \A q \in Procs \ {p} : pc'[q] = pc[q]
      /\ pc'[p] = "failed"
      /\ initLock' = Unlocked(p)
    BY DEF FailCreate, FailHarmlessly, Leave, Goto
<1>3. \A q \in Procs : ~Holding(q)' /\ ~InCreate(q)'
    BY <1>1, <1>2, Exclusive DEF Holding, InCreate
<1>4. HolderInv' /\ BuildInv' /\ CreateInv'
    BY <1>3 DEF HolderInv, BuildInv, CreateInv, Holding
<1>5. CASE FailCreate(p)
    <2>1. data'.abandoned /\ tainted' /\ data'.state = data.state /\ data'.magic = data.magic
        BY <1>5 DEF FailCreate
    <2>2. lockFile => lockFile'
        BY <1>5, Zenon DEF FailCreate
    <2> QED
        BY <1>4, <2>1, <2>2 DEF MagicInv, RestInv, Finished, UserInv
<1>6. CASE FailHarmlessly(p) /\ pc[p] = "flush"
    <2>1. UNCHANGED <<data, lockFile, tainted>>
        BY <1>6 DEF FailHarmlessly, files
    <2>2. Finished
        BY <1>6, BuiltIsWhole DEF Finished
    <2>3. ~tainted => \A q \in Procs : pc[q] # "open"
        BY <1>1 DEF UserInv
    <2> QED
        BY <1>2, <1>4, <2>1, <2>2, <2>3 DEF MagicInv, RestInv, Finished, Whole, UserInv
<1> QED
    BY <1>5, <1>6

(* The invariant is inductive.                                             *)
LEMMA InvStep == IInv /\ [Next]_vars => IInv'
<1> SUFFICES ASSUME IInv, [Next]_vars PROVE IInv'
    OBVIOUS
<1>0. TypeOK /\ TypeOK'
    BY TypeStep DEF IInv
<1> USE DEF IInv, Return, Leave, Unlocked, files, bounds
<1>1. ASSUME NEW p \in Procs, Start(p) \/ UserFaults(p) \/ Exit(p) \/ Restart(p) PROVE IInv'
    <2>1. /\ UNCHANGED <<data, lockFile, initLock, tainted, todo>>
          /\ pc[p] \in {"idle", "open", "failed", "fault", "dead"}
          /\ Goto(p, "wait") \/ Goto(p, "dead") \/ Goto(p, "idle")
        BY <1>1 DEF Start, UserFaults, Exit, Restart
    <2>2. HolderInv' /\ CreateInv' /\ ~InCreate(p)
        BY <1>0, <2>1 DEF HolderInv, Holding, InCreate, CreateInv, Matches, Goto, TypeOK
    <2> QED
        BY <1>0, <2>1, <2>2, QuietStep DEF Creating, Labels
<1>2. ASSUME NEW p \in Procs, Lock(p) PROVE IInv'
    <2>1. HolderInv' /\ CreateInv' /\ ~InCreate(p)
        BY <1>0, <1>2, RegionAssumption
        DEF Lock, InitLockFree, HolderInv, Holding, InCreate, CreateInv, Matches, Goto, TypeOK
    <2> QED
        BY <1>0, <1>2, <2>1, QuietStep DEF Lock, Creating, Labels
<1>3. ASSUME NEW p \in Procs, Decide(p) PROVE IInv'
    <2>1. HolderInv' /\ ~InCreate(p)
        BY <1>0, <1>3 DEF Decide, HolderInv, Holding, InCreate, Goto, TypeOK
    <2>2. CreateInv'
        BY <1>0, <1>3 DEF Decide, CreateInv, MagicInv, FilesExist, Matches, Goto, TypeOK
    <2> QED
        BY <1>0, <1>3, <2>1, <2>2, QuietStep DEF Decide, Creating, Labels
<1>4. ASSUME NEW p \in Procs, Fault(p) \/ Refuse(p) PROVE IInv'
    <2>1. HolderInv' /\ CreateInv' /\ ~InCreate(p)
        BY <1>0, <1>4 DEF Fault, Refuse, HolderInv, Holding, InCreate, CreateInv, Matches, Goto, TypeOK
    <2> QED
        BY <1>0, <1>4, <2>1, QuietStep DEF Fault, Refuse, Creating, Labels
<1>5. ASSUME NEW p \in Procs, Continue(p) PROVE IInv'
    BY <1>0, <1>2, <1>3, <1>4, <1>5, TruncateStep, OpenStep, CreateSteps DEF Continue
<1>6. ASSUME NEW p \in Procs, OpenFails(p) PROVE IInv'
    <2>1. HolderInv' /\ CreateInv' /\ ~InCreate(p)
        BY <1>0, <1>6 DEF OpenFails, HolderInv, Holding, InCreate, CreateInv, Goto, TypeOK
    <2> QED
        BY <1>0, <1>6, <2>1, QuietStep DEF OpenFails, Creating, Labels
<1>7. ASSUME NEW p \in Procs, FailHarmlessly(p), pc[p] \in {"wait", "create"} PROVE IInv'
    <2>1. HolderInv' /\ CreateInv' /\ ~InCreate(p)
        BY <1>0, <1>7
        DEF FailHarmlessly, HolderInv, Holding, InCreate, CreateInv, Matches, Goto, TypeOK
    <2> QED
        BY <1>0, <1>7, <2>1, QuietStep DEF FailHarmlessly, Creating, Labels
<1>8. ASSUME NEW p \in Procs, FailHarmlessly(p) \/ FailCreate(p) PROVE IInv'
    BY <1>0, <1>7, <1>8, FailStep DEF FailHarmlessly
<1>9. CASE UNCHANGED vars
    BY <1>9 DEF vars, TypeOK, HolderInv, Holding, InCreate, MagicInv, CreateInv, Matches, BuildInv,
           Progress, HeaderBuilt, RestInv, Finished, Whole, UserInv
<1> QED
    BY <1>0, <1>1, <1>5, <1>6, <1>8, <1>9, AstrayStep, CrashStep DEF Next

(* It holds when there are no files yet.                                   *)
LEMMA InitInv == Init => IInv
<1> SUFFICES ASSUME Init PROVE IInv
    OBVIOUS
<1>1. /\ data.state = "absent" /\ ~data.magic /\ ~data.mixed /\ ~data.abandoned
      /\ data \in DataType
    BY ParamsTyped DEF Init, Zeroed, DataType
<1>2. TypeOK
    BY <1>1, RegionAssumption DEF Init, TypeOK, DataType, Labels
<1> QED
    BY <1>1, <1>2 DEF Init, IInv, HolderInv, Holding, InCreate, MagicInv, CreateInv, BuildInv,
           RestInv, Finished, UserInv

(* So it holds throughout.                                                 *)
LEMMA Invariance == Spec => []IInv
BY InitInv, InvStep, PTL DEF Spec

-------------------------------------------------------------------------------
(***************************************************************************)
(* Theorems                                                                *)
(***************************************************************************)

(* Every variable keeps its type, and no region has a capacity that create *)
(* refuses.                                                                *)
THEOREM TypeCorrect == Spec => []TypeOK
<1>1. IInv => TypeOK
    BY DEF IInv
<1> QED
    BY <1>1, Invariance, PTL

(* Whoever decides between open and create finds no region or a finished   *)
(* one, unless a creator was killed or had a system call fail after its    *)
(* truncating open, or someone wrote to a region that was recreated under  *)
(* it (create_or_open, issue #33).                                         *)
THEOREM StartersAreSerialised == Spec => []DeciderFindsFinishedWork
<1>1. IInv => DeciderFindsFinishedWork
    <2> SUFFICES ASSUME IInv, NEW p \in Procs, pc[p] = "decide" PROVE Finished
        BY DEF DeciderFindsFinishedWork, Finished
    <2>1. \A q \in Procs : ~InCreate(q)
        BY Exclusive DEF IInv, Holding, InCreate
    <2> QED
        BY <2>1 DEF IInv, RestInv
<1> QED
    BY <1>1, Invariance, PTL

(* While no creator is killed or fails, every region that is there can be  *)
(* opened and all processes ask for the same, whoever has the region       *)
(* mapped keeps it whole and its own (create_or_open).                     *)
THEOREM RegionsAreKept == Spec => []UsersKeepTheirRegion
<1>1. IInv => UsersKeepTheirRegion
    BY DEF IInv, UserInv, UsersKeepTheirRegion
<1> QED
    BY <1>1, Invariance, PTL

(* The region that create_or_open returns has the caller's parameters, and *)
(* is whole but for kills, errors and strays.                              *)
THEOREM RegionsAreOwn == Spec => ReturnedRegionIsOwn
<1> DEFINE A == \A p \in Procs : pc[p] # "open" /\ pc'[p] = "open" =>
                    /\ data'.fields = Params(p)
                    /\ Whole' \/ data'.abandoned \/ data'.mixed
<1>1. IInv /\ [Next]_vars => [A]_vars
    <2> SUFFICES ASSUME IInv, [Next]_vars, NEW p \in Procs, pc[p] # "open", pc'[p] = "open"
                 PROVE  /\ data'.fields = Params(p)
                        /\ Whole' \/ data'.abandoned \/ data'.mixed
        OBVIOUS
    <2>1. Reopen(p) \/ FinishCreate(p)
        BY DEF Next, Continue, vars, Start, Lock, Fault, Decide, Refuse, Truncate, SetLen,
               MakeLockFile, Zero, StoreHeader, BuildTable, BuildSlots, WriteAstray, UserFaults,
               Exit, Crash, Restart, OpenFails, FailHarmlessly, FailCreate, Return, Leave, Goto,
               IInv, TypeOK, Reopen, FinishCreate
    <2>2. UNCHANGED data
        BY <2>1 DEF Reopen, FinishCreate, files
    <2> QED
        BY <2>1, <2>2, OpenedIsOwn DEF Whole
<1> QED
    BY <1>1, Invariance, PTL DEF Spec, ReturnedRegionIsOwn

(* Entries expire for those who asked for a nanosecond or more, and for    *)
(* nobody who asked for no ttl (mod.rs create_or_open).                    *)
THEOREM TtlIsEffective == Spec => []TtlTakesEffect
<1>1. IInv => TtlTakesEffect
    <2> SUFFICES ASSUME IInv, NEW p \in Procs, pc[p] = "open", ~tainted
                 PROVE  /\ Request[p].ttl = NoTtl => data.fields.ttl_nanos = 0
                        /\ Request[p].ttl # NoTtl /\ Request[p].ttl >= 2
                                => data.fields.ttl_nanos > 0
        BY DEF TtlTakesEffect
    <2>1. data.fields.ttl_nanos = ttl_nanos(Request[p].ttl)
        <3>1. data.fields = Params(p)
            BY DEF IInv, UserInv, Whole
        <3>2. Params(p).ttl_nanos = ttl_nanos(Request[p].ttl)
            BY DEF Params
        <3> QED
            BY <3>1, <3>2
    <2>2. CASE Request[p].ttl = NoTtl
        BY <2>1, <2>2 DEF ttl_nanos
    <2>3. CASE Request[p].ttl # NoTtl
        <3> DEFINE t == Request[p].ttl
        <3>1. t \in Int
            BY <2>3, RequestAssumption
        <3>2. t >= 0 => t \div 2 \in Nat /\ (t >= 2 => t \div 2 > 0)
            BY <3>1
        <3> QED
            BY <2>1, <2>3, <3>1, <3>2, RegionAssumption DEF ttl_nanos
    <2> QED
        BY <2>2, <2>3
<1> QED
    BY <1>1, Invariance, PTL

(* A process whose capacity create refuses changes no file.                *)
THEOREM RefusalIsHarmless == Spec => RefusedLeavesFilesAlone
<1> DEFINE A == \A p \in Procs : ~ValidCapacity(p) /\ pc'[p] # pc[p] => UNCHANGED files
<1>1. IInv /\ [Next]_vars => [A]_vars
    <2> SUFFICES ASSUME IInv, [Next]_vars, NEW p \in Procs, ~ValidCapacity(p), pc'[p] # pc[p]
                 PROVE  UNCHANGED files
        OBVIOUS
    <2> USE DEF IInv, TypeOK, Goto, Return, Leave, files, bounds
    <2>1. ~InCreate(p)
        BY DEF BuildInv, Progress
    <2>2. PICK q \in Procs :
            \/ Start(q) \/ Continue(q) \/ OpenFails(q) \/ FailHarmlessly(q) \/ FailCreate(q)
            \/ WriteAstray(q) \/ UserFaults(q) \/ Exit(q) \/ Crash(q) \/ Restart(q)
        BY DEF Next, vars
    <2>3. q = p
        BY <2>2 DEF Start, Continue, WriteAstray, UserFaults, Exit, Crash, Restart, Lock, Reopen,
               Fault, Decide, Refuse, Truncate, SetLen, MakeLockFile, Zero, StoreHeader, BuildTable,
               BuildSlots, FinishCreate, OpenFails, FailHarmlessly, FailCreate
    <2>4. CASE Crash(p)
        <3>1. data' = [data EXCEPT !.abandoned = @ \/ FALSE]
            BY <2>1, <2>4, Zenon DEF Crash
        <3>2. (data.abandoned \/ FALSE) = data.abandoned
            BY Zenon
        <3>3. data' = [data EXCEPT !.abandoned = data.abandoned]
            BY <3>1, <3>2, Zenon
        <3> QED
            BY <2>4, <3>3 DEF Crash
    <2>5. CASE WriteAstray(p)
        BY <2>5 DEF WriteAstray
    <2>6. CASE Continue(p)
        BY <2>1, <2>6 DEF Continue, InCreate, Lock, Reopen, Fault, Decide, Refuse, Truncate, SetLen,
               MakeLockFile, Zero, StoreHeader, BuildTable, BuildSlots, FinishCreate
    <2> QED
        BY <2>1, <2>2, <2>3, <2>4, <2>5, <2>6
        DEF Start, UserFaults, Exit, Restart, OpenFails, FailHarmlessly, FailCreate, InCreate
<1> QED
    BY <1>1, Invariance, PTL DEF Spec, RefusedLeavesFilesAlone
===============================================================================
