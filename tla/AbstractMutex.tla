--------------------------- MODULE AbstractMutex ----------------------------
(* What mutex_t of include/lock.h promises: one owner at a time, and the lock *)
(* passes from one owner to the next only through being free.  The zombie     *)
(* lock of RestoreStages, the tty and the ghost file locks rely on it.        *)
CONSTANT Procs
VARIABLE owners

Init == owners = {}

Acquire(p) == owners = {} /\ owners' = {p}
Release(p) == owners = {p} /\ owners' = {}

Next == \E p \in Procs : Acquire(p) \/ Release(p)
Spec == Init /\ [][Next]_owners
=============================================================================
