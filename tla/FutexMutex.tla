----------------------------- MODULE FutexMutex -----------------------------
(***************************************************************************)
(* mutex_t of include/lock.h: a counter in shared memory and the futex     *)
(* system call.  mutex_lock() increments the counter and owns the lock     *)
(* when it reads 1; otherwise it sleeps as long as the counter keeps the   *)
(* value it read.  mutex_unlock() stores 0 and wakes one sleeper.          *)
(*                                                                         *)
(* The counter is a 32-bit word in the code.  It is a natural number here: *)
(* it would have to be incremented 2^32 times while one owner holds the    *)
(* lock to wrap.                                                           *)
(***************************************************************************)
EXTENDS Naturals

CONSTANTS
  Procs,    \* the processes that share the lock
  MaxRaw    \* bound for TLC: no increment beyond it

ASSUME MutexAssumption == MaxRaw \in Nat /\ MaxRaw > 1

VARIABLES
  raw,      \* m->raw
  c,        \* the local variable of mutex_lock()
  pc        \* "idle", "lock", "wait", "asleep", "cs" or "wake"

vars == <<raw, c, pc>>

Init ==
  /\ raw = 0
  /\ c = [p \in Procs |-> 0]
  /\ pc = [p \in Procs |-> "idle"]

Goto(p, l) == pc' = [pc EXCEPT ![p] = l]

\* A process decides to call mutex_lock().
Call(p) ==
  /\ pc[p] = "idle"
  /\ Goto(p, "lock")
  /\ UNCHANGED <<raw, c>>

\* Mutant: the counter is read before it is incremented.
Owns_Old(v) == v = 1 \/ v = 2

\* The condition of mutex_lock()'s loop.
Owns(v) == v = 1

\* atomic_inc_return()
IncReturn(p) ==
  /\ pc[p] = "lock" /\ raw < MaxRaw
  /\ raw' = raw + 1
  /\ c' = [c EXCEPT ![p] = raw + 1]
  /\ Goto(p, IF Owns(raw + 1) THEN "cs" ELSE "wait")

\* Mutant: FUTEX_WAIT without the comparison.
MaySleep_Always(p) == TRUE

\* FUTEX_WAIT compares the word with c and goes to sleep atomically.
MaySleep(p) == raw = c[p]

\* Otherwise FUTEX_WAIT returns -EWOULDBLOCK and the loop goes on.
FutexWait(p) ==
  /\ pc[p] = "wait"
  /\ Goto(p, IF MaySleep(p) THEN "asleep" ELSE "lock")
  /\ UNCHANGED <<raw, c>>

\* A signal handler with SA_RESTART interrupts the sleep; the system call is
\* restarted and compares again.
Interrupted(p) ==
  /\ pc[p] = "asleep"
  /\ Goto(p, "wait")
  /\ UNCHANGED <<raw, c>>

\* mutex_unlock(): atomic_set(&m->raw, 0)
Unlock(p) ==
  /\ pc[p] = "cs"
  /\ raw' = 0
  /\ Goto(p, "wake")
  /\ UNCHANGED c

\* Mutant: nobody is woken.
Woken_None(q) == FALSE

\* Whom FUTEX_WAKE may wake.
Woken(q) == pc[q] = "asleep"

\* mutex_unlock(): FUTEX_WAKE, 1
Wake(p) ==
  /\ pc[p] = "wake"
  /\ \/ /\ \A q \in Procs : ~Woken(q)
        /\ Goto(p, "idle")
     \/ \E q \in Procs :
          /\ Woken(q)
          /\ pc' = [pc EXCEPT ![p] = "idle", ![q] = "lock"]
  /\ UNCHANGED <<raw, c>>

Step(p) == IncReturn(p) \/ FutexWait(p) \/ Unlock(p) \/ Wake(p)

Next == \E p \in Procs : Call(p) \/ Interrupted(p) \/ Step(p)

Spec == Init /\ [][Next]_vars

\* A process that has called mutex_lock() or mutex_unlock(), and an owner, is
\* scheduled; nobody is obliged to call, or to be interrupted.
FairSpec == Spec /\ \A p \in Procs : WF_vars(Step(p))

-----------------------------------------------------------------------------
(* Properties *)

\* Type invariant of the lock word and the callers.
TypeOK ==
  /\ raw \in Nat
  /\ c \in [Procs -> Nat]
  /\ pc \in [Procs -> {"idle", "lock", "wait", "asleep", "cs", "wake"}]

Owners == {p \in Procs : pc[p] = "cs"}

\* Two processes never own the lock together, although sleepers compare with
\* counts that grow stale and the lock may be taken between the two halves of
\* mutex_unlock().
MutualExclusion == \A p, q \in Owners : p = q

\* No wakeup is lost: while somebody sleeps there is an owner, or a process
\* that is about to wake a sleeper or to try for the lock.
NoLostWakeup ==
  (\E p \in Procs : pc[p] = "asleep") =>
    \E q \in Procs : pc[q] \in {"cs", "wake", "lock", "wait"}

\* Whoever calls mutex_lock(), somebody gets the lock.  (Not the caller: the
\* lock is not fair, and a woken process competes with newcomers.)
SomebodyGetsIn ==
  (\E p \in Procs : pc[p] \in {"lock", "wait", "asleep"}) ~> (Owners # {})

Abs == INSTANCE AbstractMutex WITH owners <- Owners

\* The futex lock implements the abstract one.
ImplementsMutex == Abs!Spec

=============================================================================
