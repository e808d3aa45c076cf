-------------------------- MODULE FutexMutexProofs --------------------------
(* Theorems about FutexMutex, for any set of processes. *)
EXTENDS FutexMutex, TLAPS

\* The lock word is 0 exactly when nobody owns the lock; a process that is about
\* to sleep, or sleeps, compares with a value that an owner's presence explains.
WordTellsOwner ==
  /\ raw = 0 <=> Owners = {}
  /\ \A p \in Procs : pc[p] \in {"wait", "asleep"} => c[p] > 1

MutexInv == TypeOK /\ MutualExclusion /\ WordTellsOwner /\ NoLostWakeup

LEMMA InitMutexInv == Init => MutexInv
BY DEF Init, MutexInv, TypeOK, MutualExclusion, WordTellsOwner, NoLostWakeup,
   Owners

LEMMA NextMutexInv == MutexInv /\ [Next]_vars => MutexInv'
<1> SUFFICES ASSUME MutexInv, [Next]_vars PROVE MutexInv'
  OBVIOUS
<1> USE DEF MutexInv, TypeOK, Goto
<1>1. ASSUME NEW p \in Procs, Call(p) PROVE MutexInv'
  <2>1. Owners' = Owners
    BY <1>1 DEF Call, Owners
  <2>2. WordTellsOwner' /\ MutualExclusion'
    BY <1>1, <2>1 DEF Call, WordTellsOwner, MutualExclusion
  <2>3. NoLostWakeup'
    BY <1>1 DEF Call, NoLostWakeup
  <2> QED BY <1>1, <2>2, <2>3 DEF Call
<1>2. ASSUME NEW p \in Procs, Interrupted(p) PROVE MutexInv'
  <2>1. Owners' = Owners
    BY <1>2 DEF Interrupted, Owners
  <2>2. c[p] > 1
    BY <1>2 DEF Interrupted, WordTellsOwner
  <2>3. WordTellsOwner' /\ MutualExclusion'
    BY <1>2, <2>1, <2>2 DEF Interrupted, WordTellsOwner, MutualExclusion
  <2>4. NoLostWakeup'
    BY <1>2 DEF Interrupted, NoLostWakeup
  <2> QED BY <1>2, <2>3, <2>4 DEF Interrupted
<1>3. ASSUME NEW p \in Procs, IncReturn(p) PROVE MutexInv'
  <2>1. TypeOK'
    BY <1>3 DEF IncReturn
  <2>2. CASE raw = 0
    <3>1. Owners' = {p}
      BY <1>3, <2>2 DEF IncReturn, Owns, Owners, WordTellsOwner
    <3>2. WordTellsOwner' /\ MutualExclusion'
      BY <1>3, <2>2, <3>1 DEF IncReturn, Owns, WordTellsOwner, MutualExclusion
    <3>3. NoLostWakeup'
      BY <1>3, <2>2 DEF IncReturn, Owns, NoLostWakeup
    <3> QED BY <2>1, <3>2, <3>3
  <2>3. CASE raw # 0
    <3>1. Owners' = Owners
      BY <1>3, <2>3 DEF IncReturn, Owns, Owners
    <3>2. WordTellsOwner' /\ MutualExclusion'
      BY <1>3, <2>3, <3>1 DEF IncReturn, Owns, WordTellsOwner, MutualExclusion
    <3>3. NoLostWakeup'
      BY <1>3, <2>3 DEF IncReturn, Owns, NoLostWakeup
    <3> QED BY <2>1, <3>2, <3>3
  <2> QED BY <2>2, <2>3
<1>4. ASSUME NEW p \in Procs, FutexWait(p) PROVE MutexInv'
  <2>1. Owners' = Owners
    BY <1>4 DEF FutexWait, Owners
  <2>2. WordTellsOwner' /\ MutualExclusion'
    BY <1>4, <2>1 DEF FutexWait, WordTellsOwner, MutualExclusion
  <2>3. NoLostWakeup'
    <3>1. CASE MaySleep(p)
      <4>1. raw # 0
        BY <1>4, <3>1 DEF FutexWait, MaySleep, WordTellsOwner
      <4>2. PICK q \in Procs : pc[q] = "cs"
        BY <4>1 DEF WordTellsOwner, Owners
      <4>3. pc'[q] = "cs"
        BY <1>4, <4>2 DEF FutexWait
      <4> QED BY <4>3 DEF NoLostWakeup
    <3>2. CASE ~MaySleep(p)
      BY <1>4, <3>2 DEF FutexWait, NoLostWakeup
    <3> QED BY <3>1, <3>2
  <2> QED BY <1>4, <2>2, <2>3 DEF FutexWait
<1>5. ASSUME NEW p \in Procs, Unlock(p) PROVE MutexInv'
  <2>1. Owners' = {}
    BY <1>5 DEF Unlock, Owners, MutualExclusion
  <2>2. WordTellsOwner' /\ MutualExclusion'
    BY <1>5, <2>1 DEF Unlock, WordTellsOwner, MutualExclusion
  <2>3. NoLostWakeup'
    BY <1>5 DEF Unlock, NoLostWakeup
  <2> QED BY <1>5, <2>2, <2>3 DEF Unlock
<1>6. ASSUME NEW p \in Procs, Wake(p) PROVE MutexInv'
  <2>1. Owners' = Owners
    BY <1>6 DEF Wake, Woken, Owners
  <2>2. WordTellsOwner' /\ MutualExclusion'
    BY <1>6, <2>1 DEF Wake, Woken, WordTellsOwner, MutualExclusion
  <2>3. NoLostWakeup'
    BY <1>6 DEF Wake, Woken, NoLostWakeup
  <2> QED BY <1>6, <2>2, <2>3 DEF Wake
<1>7. CASE UNCHANGED vars
  BY <1>7 DEF vars, WordTellsOwner, MutualExclusion, NoLostWakeup, Owners
<1> QED BY <1>1, <1>2, <1>3, <1>4, <1>5, <1>6, <1>7 DEF Next, Step

\* The inductive invariant holds in every state of the lock.
THEOREM MutexInvariant == Spec => []MutexInv
BY InitMutexInv, NextMutexInv, PTL DEF Spec

\* mutex_lock() never lets two processes in, however many share the lock.
THEOREM MutexExcludes == Spec => []MutualExclusion
<1>1. MutexInv => MutualExclusion
  BY DEF MutexInv
<1> QED BY <1>1, MutexInvariant, PTL

\* No sleeper of mutex_lock() is forgotten by mutex_unlock(), which wakes one.
THEOREM WakeupsAreKept == Spec => []NoLostWakeup
<1>1. MutexInv => NoLostWakeup
  BY DEF MutexInv
<1> QED BY <1>1, MutexInvariant, PTL

\* The futex lock refines the abstract lock: the lock word does what an owner
\* variable would do, and only IncReturn and Unlock change the owner.
THEOREM MutexRefines == Spec => ImplementsMutex
<1>1. Init => Abs!Init
  BY DEF Init, Abs!Init, Owners
<1>2. MutexInv /\ [Next]_vars => [Abs!Next]_Owners
  <2> SUFFICES ASSUME MutexInv, [Next]_vars PROVE [Abs!Next]_Owners
    OBVIOUS
  <2> USE DEF MutexInv, TypeOK, Goto
  <2>1. ASSUME NEW p \in Procs, Call(p) \/ Interrupted(p) \/ FutexWait(p)
        PROVE  Owners' = Owners
    BY <2>1 DEF Call, Interrupted, FutexWait, Owners
  <2>2. ASSUME NEW p \in Procs, Wake(p) PROVE Owners' = Owners
    BY <2>2 DEF Wake, Woken, Owners
  <2>3. ASSUME NEW p \in Procs, IncReturn(p) PROVE [Abs!Next]_Owners
    <3>1. CASE raw = 0
      <4>1. Owners = {} /\ Owners' = {p}
        BY <2>3, <3>1 DEF IncReturn, Owns, Owners, WordTellsOwner
      <4> QED BY <4>1 DEF Abs!Next, Abs!Acquire
    <3>2. CASE raw # 0
      BY <2>3, <3>2 DEF IncReturn, Owns, Owners
    <3> QED BY <3>1, <3>2
  <2>4. ASSUME NEW p \in Procs, Unlock(p) PROVE [Abs!Next]_Owners
    <3>1. Owners = {p} /\ Owners' = {}
      BY <2>4 DEF Unlock, Owners, MutualExclusion
    <3> QED BY <3>1 DEF Abs!Next, Abs!Release
  <2>5. CASE UNCHANGED vars
    BY <2>5 DEF vars, Owners
  <2> QED BY <2>1, <2>2, <2>3, <2>4, <2>5 DEF Next, Step
<1> QED BY <1>1, <1>2, MutexInvariant, PTL DEF Spec, ImplementsMutex, Abs!Spec

=============================================================================
