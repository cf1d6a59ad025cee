----------------------------- MODULE SharedRegion -----------------------------
(***************************************************************************)
(* What the seqlock promises its users: the shared region behaves as one   *)
(* atomic object.  A write replaces the whole contents in one step, and a  *)
(* read returns the contents as they are at one moment.  ShmSeqLock is     *)
(* shown to implement this module.                                         *)
(***************************************************************************)
CONSTANTS Procs, Words, Values, Zero

VARIABLES
    content,  \* what the region holds
    ret       \* ret[p]: the copy the last read of p returned

Content == [Words -> Values]

Init ==
    /\ content = [w \in Words |-> Zero]
    /\ ret = [p \in Procs |-> [w \in Words |-> Zero]]

Write == content' \in Content /\ UNCHANGED ret

Read(p) == ret' = [ret EXCEPT ![p] = content] /\ UNCHANGED content

Next == Write \/ \E p \in Procs : Read(p)

Spec == Init /\ [][Next]_<<content, ret>>
===============================================================================
