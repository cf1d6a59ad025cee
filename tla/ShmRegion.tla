------------------------------- MODULE ShmRegion -------------------------------
(***************************************************************************)
(* The life of a shared region (src/shm/region.rs): processes that call    *)
(* ShmCache::create_or_open for one name, work on what they have mapped,   *)
(* and are killed and started again.  Any system call of create_or_open    *)
(* may fail, and ends the call or, in open_paths, the attempt to open.     *)
(*                                                                         *)
(* The files are never removed and never replaced: recreating a region     *)
(* truncates the files that other processes have mapped.  The contents of  *)
(* the data file are kept as far as open_paths and create_or_open look at  *)
(* them, and as the parts that create has still to build.                  *)
(***************************************************************************)
EXTENDS Integers, FiniteSets

CONSTANTS
    Procs,         \* processes that use the cache of one name
    Request,       \* Request[p]: the arguments p calls create_or_open with
    NoTtl,         \* the ttl argument None; other ttls are in half nanoseconds
    NoProc,
    MaxCapacity,   \* 2^30 in the code: twice that must fit in a u32
    U64,           \* 2^64 in the code
    MaxStarts,     \* bound: calls of create_or_open
    MaxCrashes,    \* bound: processes killed
    MaxErrors      \* bound: system calls that fail

ASSUME RequestAssumption ==
    \A p \in Procs :
        /\ {Request[p].version, Request[p].capacity, Request[p].max_key_size,
            Request[p].max_value_size} \subseteq Nat
        /\ Request[p].ttl \in Int \cup {NoTtl}
ASSUME RegionAssumption ==
    /\ NoProc \notin Procs
    /\ {MaxCapacity, U64, MaxStarts, MaxCrashes, MaxErrors} \subseteq Nat
    /\ U64 > 1

VARIABLES
    data,       \* the data file
    lockFile,   \* whether the lock file exists
    initLock,   \* who holds the advisory lock on the .init file, or NoProc
    pc,         \* pc[p]: where p is in create_or_open, or in its later life
    todo,       \* todo[p]: header stores p has still to make
    tainted,    \* history: a creator was killed or failed, an existing region could not be
                \* opened, or two creators had different parameters
    starts,     \* calls so far
    crashes,    \* kills so far
    errors      \* failed system calls so far

files == <<data, lockFile>>
bounds == <<starts, crashes, errors>>
vars == <<data, lockFile, initLock, pc, todo, tainted, starts, crashes, errors>>

(* Mutant: a conversion that wraps.                                        *)
ttl_nanosWraps(t) == IF t = NoTtl \/ t < 0 THEN 0 ELSE (t \div 2) % U64

(* (t * 1e9) as u64: truncates, and saturates at both ends.                *)
ttl_nanos(t) ==
    IF t = NoTtl \/ t < 0 THEN 0 ELSE IF t \div 2 >= U64 THEN U64 - 1 ELSE t \div 2

(* The header fields that create_or_open compares, as p would have them.   *)
Params(p) ==
    [version        |-> Request[p].version,
     capacity       |-> Request[p].capacity,
     max_key_size   |-> Request[p].max_key_size,
     max_value_size |-> Request[p].max_value_size,
     ttl_nanos      |-> ttl_nanos(Request[p].ttl)]

NoParams == [version |-> 0, capacity |-> 0, max_key_size |-> 0, max_value_size |-> 0, ttl_nanos |-> 0]

Compared == DOMAIN NoParams

(* capacity == 0, and a hash table that does not fit in a u32.             *)
ValidCapacity(p) == Request[p].capacity \in 1 .. MaxCapacity

(* links: list_head, list_tail and sieve_hand, which are -1 and not 0.     *)
HeaderStores == Compared \cup {"magic", "links"}
Parts == {"links", "table", "slots"}

(* The last three fields are history: for whom the file was last           *)
(* truncated, whether that process was killed or failed before it was      *)
(* done, and whether someone has written to it as if it were another       *)
(* region.                                                                 *)
Zeroed(by) ==
    [state |-> "sized", magic |-> FALSE, fields |-> NoParams, built |-> {},
     by |-> by, abandoned |-> FALSE, mixed |-> FALSE]

Init ==
    /\ data = [Zeroed(NoParams) EXCEPT !.state = "absent"]
    /\ lockFile = FALSE
    /\ initLock = NoProc
    /\ pc = [p \in Procs |-> "idle"]
    /\ todo = [p \in Procs |-> {}]
    /\ tainted = FALSE
    /\ starts = 0
    /\ crashes = 0
    /\ errors = 0

Goto(p, label) == pc' = [pc EXCEPT ![p] = label]

Unlocked(p) == IF initLock = p THEN NoProc ELSE initLock

(* create_or_open is left: init_file is dropped, and with it the lock.     *)
Leave(p, label) ==
    /\ Goto(p, label)
    /\ initLock' = Unlocked(p)

Return(p, label) == Leave(p, label) /\ UNCHANGED <<todo, tainted, bounds>>

(* A system call returns an error.                                         *)
SystemCallFails ==
    /\ errors < MaxErrors
    /\ errors' = errors + 1
    /\ UNCHANGED <<starts, crashes>>

-------------------------------------------------------------------------------
(***************************************************************************)
(* create_or_open                                                          *)
(***************************************************************************)

Start(p) ==
    /\ pc[p] = "idle"
    /\ starts < MaxStarts
    /\ starts' = starts + 1
    /\ Goto(p, "wait")
    /\ UNCHANGED <<files, initLock, todo, tainted, crashes, errors>>

(* Mutant: the init lock of issue #33 left out.                            *)
InitLockIgnored == TRUE

InitLockFree == initLock = NoProc

(* init_file.lock()                                                        *)
Lock(p) ==
    /\ pc[p] = "wait"
    /\ InitLockFree
    /\ initLock' = p
    /\ Goto(p, "decide")
    /\ UNCHANGED <<files, todo, tainted, bounds>>

(* Mutant: ttl_nanos is not compared (issue #42).                          *)
MatchesButTtl(p) == [data.fields EXCEPT !.ttl_nanos = Params(p).ttl_nanos] = Params(p)

(* Mutant: the ttl argument is compared before its conversion.             *)
MatchesRawTtl(p) == data.fields = [Params(p) EXCEPT !.ttl_nanos = Request[p].ttl]

Matches(p) == data.fields = Params(p)

FilesExist == data.state # "absent" /\ lockFile

(* open_paths finds the magic, and the parameters are those of p.          *)
Reopen(p) ==
    /\ pc[p] = "decide"
    /\ FilesExist /\ data.state = "sized" /\ data.magic /\ Matches(p)
    /\ Return(p, "open")
    /\ UNCHANGED files

(* memmap2 maps an empty file as one byte, and reading the magic from it   *)
(* is a SIGBUS.                                                            *)
Fault(p) ==
    /\ pc[p] = "decide"
    /\ FilesExist /\ data.state = "empty"
    /\ Return(p, "fault")
    /\ UNCHANGED files

(* A file is missing, the magic is bad, or the parameters differ.          *)
Decide(p) ==
    /\ pc[p] = "decide"
    /\ FilesExist => data.state = "sized" /\ ~(data.magic /\ Matches(p))
    /\ Goto(p, "create")
    /\ UNCHANGED <<files, initLock, todo, tainted, bounds>>

(* exists() cannot tell, or an open or a map of open_paths fails: the      *)
(* region is taken for a stale or corrupted one, whatever it is.           *)
OpenFails(p) ==
    /\ pc[p] = "decide"
    /\ FilesExist
    /\ SystemCallFails
    /\ tainted' = TRUE
    /\ Goto(p, "create")
    /\ UNCHANGED <<files, initLock, todo>>

-------------------------------------------------------------------------------
(***************************************************************************)
(* create                                                                  *)
(***************************************************************************)

(* Mutant: the capacity is checked once the files are open.                *)
RefuseLate(p) ==
    /\ pc[p] = "create"
    /\ ~ValidCapacity(p)
    /\ data' = [Zeroed(Params(p)) EXCEPT !.state = "empty"]
    /\ Return(p, "failed")
    /\ UNCHANGED lockFile

Refuse(p) ==
    /\ pc[p] = "create"
    /\ ~ValidCapacity(p)
    /\ Return(p, "failed")
    /\ UNCHANGED files

Truncate(p) ==
    /\ pc[p] = "create"
    /\ ValidCapacity(p)
    /\ data' = [Zeroed(Params(p)) EXCEPT !.state = "empty"]
    /\ tainted' = (tainted \/ (data.state # "absent" /\ data.by # Params(p)))
    /\ Goto(p, "size")
    /\ UNCHANGED <<lockFile, initLock, todo, bounds>>

SetLen(p) ==
    /\ pc[p] = "size"
    /\ data' = [data EXCEPT !.state = "sized"]
    /\ Goto(p, "lockfile")
    /\ UNCHANGED <<lockFile, initLock, todo, tainted, bounds>>

(* The lock file is created or truncated, and given its size.  Zeroes are  *)
(* already what ShmSeqLock::init stores there.                             *)
MakeLockFile(p) ==
    /\ pc[p] = "lockfile"
    /\ lockFile' = TRUE
    /\ Goto(p, "zero")
    /\ UNCHANGED <<data, initLock, todo, tainted, bounds>>

(* map, and fill(0), which also wipes what others have written meanwhile.  *)
Zero(p) ==
    /\ pc[p] = "zero"
    /\ data' = Zeroed(data.by)
    /\ todo' = [todo EXCEPT ![p] = HeaderStores]
    /\ Goto(p, "header")
    /\ UNCHANGED <<lockFile, initLock, tainted, bounds>>

(* The header: plain stores, in whatever order the compiler puts them.     *)
StoreHeader(p, f) ==
    /\ pc[p] = "header"
    /\ f \in todo[p]
    /\ data' = CASE f = "magic" -> [data EXCEPT !.magic = TRUE]
                 [] f = "links" -> [data EXCEPT !.built = @ \cup {f}]
                 [] OTHER       -> [data EXCEPT !.fields[f] = Params(p)[f]]
    /\ todo' = [todo EXCEPT ![p] = @ \ {f}]
    /\ Goto(p, IF todo[p] = {f} THEN "table" ELSE "header")
    /\ UNCHANGED <<lockFile, initLock, tainted, bounds>>

BuildTable(p) ==
    /\ pc[p] = "table"
    /\ data' = [data EXCEPT !.built = @ \cup {"table"}]
    /\ Goto(p, "slots")
    /\ UNCHANGED <<lockFile, initLock, todo, tainted, bounds>>

BuildSlots(p) ==
    /\ pc[p] = "slots"
    /\ data' = [data EXCEPT !.built = @ \cup {"slots"}]
    /\ Goto(p, "flush")
    /\ UNCHANGED <<lockFile, initLock, todo, tainted, bounds>>

FinishCreate(p) ==
    /\ pc[p] = "flush"
    /\ Return(p, "open")
    /\ UNCHANGED files

-------------------------------------------------------------------------------
(***************************************************************************)
(* The ? exits                                                             *)
(***************************************************************************)

(* The directory, the init file or its lock, the truncating open, or a     *)
(* flush fails: the files stay as they are.                                *)
FailHarmlessly(p) ==
    /\ pc[p] \in {"wait", "create", "flush"}
    /\ SystemCallFails
    /\ Leave(p, "failed")
    /\ UNCHANGED <<files, todo, tainted>>

(* set_len, the lock file (opened or not) or a map fails after the         *)
(* truncating open: an unfinished region stays behind.                     *)
FailCreate(p) ==
    /\ pc[p] \in {"size", "lockfile", "zero"}
    /\ SystemCallFails
    /\ Leave(p, "failed")
    /\ data' = [data EXCEPT !.abandoned = TRUE]
    /\ lockFile' \in {lockFile, lockFile \/ pc[p] = "lockfile"}
    /\ tainted' = TRUE
    /\ UNCHANGED todo

-------------------------------------------------------------------------------
(***************************************************************************)
(* The later life of a process                                             *)
(***************************************************************************)

Whole ==
    /\ data.state = "sized" /\ data.magic /\ data.fields = data.by
    /\ data.built = Parts
    /\ ~data.mixed

(* An insert by a process whose region is no longer there, or not yet.     *)
WriteAstray(p) ==
    /\ pc[p] = "open"
    /\ data.state = "sized"
    /\ ~(Whole /\ data.by = Params(p))
    /\ data' = [data EXCEPT !.mixed = TRUE]
    /\ UNCHANGED <<lockFile, initLock, pc, todo, tainted, bounds>>

(* layout::region_size, with every fixed-size part counted as one.         *)
region_size(params) == 1 + params.capacity * (1 + params.max_key_size + params.max_value_size)

(* A page of the mapping lies beyond the end of the truncated file.        *)
UserFaults(p) ==
    /\ pc[p] = "open"
    /\ data.state = "empty" \/ region_size(data.by) < region_size(Params(p))
    /\ Goto(p, "dead")
    /\ UNCHANGED <<files, initLock, todo, tainted, bounds>>

(* The process ends, or drops its function.                                *)
Exit(p) ==
    /\ pc[p] \in {"open", "failed"}
    /\ Goto(p, "idle")
    /\ UNCHANGED <<files, initLock, todo, tainted, bounds>>

InCreate(p) ==
    pc[p] \in {"size", "lockfile", "zero", "header", "table", "slots", "flush"}

(* Mutant: the lock is a flag in the file.                                 *)
CrashKeepsLock(p) ==
    /\ pc[p] \notin {"idle", "dead", "fault"}
    /\ crashes < MaxCrashes
    /\ crashes' = crashes + 1
    /\ data' = [data EXCEPT !.abandoned = @ \/ InCreate(p)]
    /\ tainted' = (tainted \/ InCreate(p))
    /\ todo' = [todo EXCEPT ![p] = {}]
    /\ Goto(p, "dead")
    /\ UNCHANGED <<lockFile, initLock, starts, errors>>

(* A kill: the system drops the advisory lock, the files stay.             *)
Crash(p) ==
    /\ pc[p] \notin {"idle", "dead", "fault"}
    /\ crashes < MaxCrashes
    /\ crashes' = crashes + 1
    /\ data' = [data EXCEPT !.abandoned = @ \/ InCreate(p)]
    /\ tainted' = (tainted \/ InCreate(p))
    /\ todo' = [todo EXCEPT ![p] = {}]
    /\ initLock' = Unlocked(p)
    /\ Goto(p, "dead")
    /\ UNCHANGED <<lockFile, starts, errors>>

Restart(p) ==
    /\ pc[p] \in {"dead", "fault"}
    /\ Goto(p, "idle")
    /\ UNCHANGED <<files, initLock, todo, tainted, bounds>>

-------------------------------------------------------------------------------

(* The steps of a call of create_or_open.                                  *)
Continue(p) ==
    \/ Lock(p) \/ Reopen(p) \/ Fault(p) \/ Decide(p) \/ Refuse(p)
    \/ Truncate(p) \/ SetLen(p) \/ MakeLockFile(p) \/ Zero(p)
    \/ (\E f \in HeaderStores : StoreHeader(p, f))
    \/ BuildTable(p) \/ BuildSlots(p) \/ FinishCreate(p)

Next ==
    \E p \in Procs :
        \/ Start(p) \/ Continue(p)
        \/ OpenFails(p) \/ FailHarmlessly(p) \/ FailCreate(p)
        \/ WriteAstray(p) \/ UserFaults(p) \/ Exit(p)
        \/ Crash(p) \/ Restart(p)

Spec == Init /\ [][Next]_vars

(* The operating system runs every process inside create_or_open.          *)
FairSpec == Spec /\ \A p \in Procs : WF_vars(Continue(p))

-------------------------------------------------------------------------------
(***************************************************************************)
(* Properties                                                              *)
(***************************************************************************)

ParamsType == [Compared -> Nat]

Labels ==
    {"idle", "wait", "decide", "create", "size", "lockfile", "zero", "header", "table",
     "slots", "flush", "open", "failed", "fault", "dead"}

(* Every variable has its type, and a region that anyone made has a        *)
(* capacity create accepts.                                                *)
TypeOK ==
    /\ data \in [state : {"absent", "empty", "sized"}, magic : BOOLEAN,
                 fields : ParamsType, built : SUBSET Parts, by : ParamsType,
                 abandoned : BOOLEAN, mixed : BOOLEAN]
    /\ data.state # "absent" => data.by.capacity \in 1 .. MaxCapacity
    /\ lockFile \in BOOLEAN
    /\ initLock \in Procs \cup {NoProc}
    /\ pc \in [Procs -> Labels]
    /\ todo \in [Procs -> SUBSET HeaderStores]
    /\ tainted \in BOOLEAN
    /\ starts \in Nat
    /\ crashes \in Nat
    /\ errors \in Nat

(* "concurrent starters block here, then open the already-initialized file *)
(* instead of racing into create()" (issue #33): whoever decides between   *)
(* open and create finds no region or a whole one.  Only a creator that    *)
(* was killed, or had a system call fail, after its truncating open, or a  *)
(* process writing to a region that was recreated under it, leaves         *)
(* anything else behind.                                                   *)
DeciderFindsFinishedWork ==
    \A p \in Procs : pc[p] = "decide" =>
        data.state = "absent" \/ Whole \/ data.abandoned \/ (data.mixed /\ tainted)

(* A process gets a region with its own parameters, ttl included (issue    *)
(* #42), and a whole one.  The exceptions are those above: of a creator    *)
(* killed half-way nothing is noticed if the fields compared are right,    *)
(* which a zero ttl_nanos also is when it was never stored.                *)
ReturnedRegionIsOwn ==
    [][\A p \in Procs : pc[p] # "open" /\ pc'[p] = "open" =>
        /\ data'.fields = Params(p)
        /\ Whole' \/ data'.abandoned \/ data'.mixed]_vars

(* Whoever works on a region keeps it: "the second's truncate+zero         *)
(* clobbers a region the first has already mapped" (issue #33) happens     *)
(* only after a kill or an error inside create, after an error in opening  *)
(* the existing region, or if processes ask for different parameters.      *)
UsersKeepTheirRegion ==
    ~tainted => \A p \in Procs : pc[p] = "open" => Whole /\ data.by = Params(p)

(* A call that is refused for its capacity leaves an existing region alone. *)
RefusedLeavesFilesAlone ==
    [][\A p \in Procs : ~ValidCapacity(p) /\ pc'[p] # pc[p] => UNCHANGED files]_vars

(* Entries expire for those who asked for a ttl of a nanosecond or more,   *)
(* however large, and for nobody who asked for none, whoever created the   *)
(* region and whatever was there before (mod.rs create_or_open).           *)
TtlTakesEffect ==
    \A p \in Procs : pc[p] = "open" /\ ~tainted =>
        /\ Request[p].ttl = NoTtl => data.fields.ttl_nanos = 0
        /\ Request[p].ttl # NoTtl /\ Request[p].ttl >= 2 => data.fields.ttl_nanos > 0

(* Every call of create_or_open ends, also when the process that held the  *)
(* init lock was killed: with a region or an error, or because the process *)
(* is killed.  A SIGBUS in open_paths ends it only where a creator has     *)
(* left an empty data file.                                                *)
StartersFinish ==
    \A p \in Procs : pc[p] = "wait" ~>
        pc[p] \in {"open", "failed", "dead"} \/ (pc[p] = "fault" /\ data.abandoned)

(* "Stale or corrupted file - recreate" (create_or_open): a starter that   *)
(* finds a region it cannot use makes a new one.  It neither opens what is *)
(* not finished, or was written to as another region, nor dies of it.      *)
CorruptedFileIsRecreated ==
    [][\A p \in Procs : pc[p] = "decide" /\ pc'[p] # "decide" /\ data.state # "absent" /\ ~Whole
        => pc'[p] \in {"create", "dead"}]_vars
===============================================================================
