------------------------- MODULE RestoreStagesProofs -------------------------
(* Theorems about RestoreStages, for every process tree. *)
EXTENDS RestoreStages, FiniteSetTheorems, TLAPS

-----------------------------------------------------------------------------
(* Type correctness *)

\* The number of participants of a stage is an integer: the tree is finite.
LEMMA ParticipantsType ==
  ASSUME TypeOK, NEW s
  PROVE  stage_participants(s) \in Int
<1>1. Cardinality(Tasks) \in Nat
  BY RestoreAssumption, FS_CardinalityType
<1> QED BY <1>1 DEF stage_participants, TypeOK

\* The threads of a task can be counted.
LEMMA ThreadsOfType ==
  ASSUME NEW t
  PROVE  Cardinality(ThreadsOf(t)) \in Nat
<1>1. ThreadsOf(t) \subseteq Threads
  BY DEF ThreadsOf
<1>2. IsFiniteSet(ThreadsOf(t))
  BY <1>1, RestoreAssumption, FS_Subset
<1> QED BY <1>2, FS_CardinalityType

LEMMA InitTypeOK == Init => TypeOK
<1> SUFFICES ASSUME Init PROVE TypeOK
  OBVIOUS
<1>1. nr_threads \in Int
  <2> DEFINE Counted == {t \in Tasks : Kind[t] # "helper"}
  <2>1. IsFiniteSet(Counted)
    BY RestoreAssumption, FS_Subset
  <2>2. Cardinality(Counted) \in Nat /\ Cardinality(Threads) \in Nat
    BY <2>1, RestoreAssumption, FS_CardinalityType
  <2> QED BY <2>2 DEF Init
<1>2. ppid \in [Tasks -> Tasks \cup {Criu, Outside}]
  BY RestoreAssumption DEF Init
<1> QED
  BY <1>1, <1>2 DEF Init, TypeOK, Procs, TaskPcs, ThreadPcs, CriuPcs, EndStates,
     CR_STATE_FAIL, CR_STATE_RESTORE_NS, CR_STATE_RESTORE_CREDS, CR_STATE_COMPLETE

\* The part of TypeOK that speaks of one step's new values of pc, hpc, ppid and
\* sigpend after a death.
LEMMA DieType ==
  ASSUME TypeOK, NEW t \in Tasks, NEW how \in EndStates, Die(t, how)
  PROVE  /\ pc' \in [Procs -> TaskPcs \cup ThreadPcs]
         /\ hpc' \in [Procs -> {"idle", "zombies", "nr_threads", "unlock"}]
         /\ ppid' \in [Tasks -> Tasks \cup {Criu, Outside}]
         /\ sigpend' \in [Tasks \cup {Criu} -> Tasks \cup {NoSig}]
<1>1. Raise(t) \in [Tasks \cup {Criu} -> Tasks \cup {NoSig}]
  BY DEF TypeOK, Raise
<1>2. Reaper(t) \in Tasks \cup {Criu, Outside}
  BY RestoreAssumption DEF Reaper
<1>3. pc' \in [Procs -> TaskPcs \cup ThreadPcs]
  BY DEF Die, TypeOK, TaskPcs, ThreadPcs, EndStates
<1>4. ppid' \in [Tasks -> Tasks \cup {Criu, Outside}]
  BY <1>2 DEF Die, TypeOK
<1> QED BY <1>1, <1>3, <1>4 DEF Die, TypeOK

LEMMA TaskOfType ==
  ASSUME NEW p \in Procs
  PROVE  TaskOf(p) \in Tasks
BY RestoreAssumption DEF TaskOf, Procs

LEMMA NextTypeOK == TypeOK /\ [Next]_vars => TypeOK'
<1> SUFFICES ASSUME TypeOK, [Next]_vars PROVE TypeOK'
  OBVIOUS
<1> USE DEF vars, criuVars, sharedVars, sigVars, taskVars
<1>0. mayfail' = mayfail
  BY DEF Next
<1> USE <1>0
<1>1. CASE CriuForkRoot
  BY <1>1, RestoreAssumption DEF TypeOK, CriuForkRoot, Go, Procs, TaskPcs,
     CriuPcs
<1>2. CASE CriuWaitInProgress
  BY <1>2 DEF TypeOK, CriuWaitInProgress, StageSucceeded, StageFailed,
     CriuPcs, CR_STATE_FAIL, CR_STATE_RESTORE_NS, CR_STATE_FORKING,
     CR_STATE_RESTORE, CR_STATE_RESTORE_SIGCHLD, CR_STATE_RESTORE_CREDS,
     CR_STATE_COMPLETE
<1>3. CASE CriuRunScripts
  BY <1>3 DEF TypeOK, CriuRunScripts, CriuPcs, CR_STATE_FAIL,
     CR_STATE_RESTORE_NS, CR_STATE_FORKING, CR_STATE_RESTORE,
     CR_STATE_RESTORE_SIGCHLD, CR_STATE_RESTORE_CREDS, CR_STATE_COMPLETE
<1>4. CASE CriuSetNr
  BY <1>4, ParticipantsType DEF TypeOK, CriuSetNr, CriuPcs
<1>5. CASE CriuSetStart
  BY <1>5 DEF TypeOK, CriuSetStart, CriuPcs, CR_STATE_FAIL,
     CR_STATE_RESTORE_NS, CR_STATE_FORKING, CR_STATE_RESTORE,
     CR_STATE_RESTORE_SIGCHLD, CR_STATE_RESTORE_CREDS, CR_STATE_COMPLETE
<1>6. CASE CriuUnlockNetwork
  <2>1. criu_act' \in BOOLEAN
    BY <1>6, Zenon DEF TypeOK, CriuUnlockNetwork
  <2>2. cpc' \in CriuPcs /\ network' \in {"locked", "unlocked"}
          /\ target' \in CR_STATE_RESTORE_NS .. CR_STATE_RESTORE_CREDS
    BY <1>6 DEF TypeOK, CriuUnlockNetwork, CriuPcs, CR_STATE_RESTORE_NS,
       CR_STATE_RESTORE_CREDS
  <2> QED BY <1>6, <2>1, <2>2 DEF TypeOK, CriuUnlockNetwork
<1>7. CASE CriuAttach
  BY <1>7 DEF TypeOK, CriuAttach, RunningItems, CriuPcs
<1>8. CASE CriuComplete
  BY <1>8 DEF TypeOK, CriuComplete, CriuPcs, CR_STATE_FAIL,
     CR_STATE_RESTORE_NS, CR_STATE_FORKING, CR_STATE_RESTORE,
     CR_STATE_RESTORE_SIGCHLD, CR_STATE_RESTORE_CREDS, CR_STATE_COMPLETE
<1>9. CASE CriuStopOnSyscall
  BY <1>9 DEF TypeOK, CriuStopOnSyscall, CriuPcs
<1>10. CASE CriuFinalize
  BY <1>10 DEF TypeOK, CriuFinalize, CriuPcs, TaskPcs
<1>11. CASE CriuKill
  BY <1>11, RestoreAssumption DEF TypeOK, CriuKill, CriuPcs, TaskPcs,
     EndStates, Raise
<1>12. CASE CriuFailNr
  BY <1>12, ParticipantsType DEF TypeOK, CriuFailNr, CriuPcs
<1>13. CASE CriuFailStart
  BY <1>13 DEF TypeOK, CriuFailStart, CriuPcs, CR_STATE_FAIL,
     CR_STATE_RESTORE_NS, CR_STATE_FORKING, CR_STATE_RESTORE,
     CR_STATE_RESTORE_SIGCHLD, CR_STATE_RESTORE_CREDS, CR_STATE_COMPLETE
<1>14. CASE CriuSigchld
  BY <1>14 DEF TypeOK, CriuSigchld, TakeSig, Abort
<1>15. CASE PidNsZap
  BY <1>15, RestoreAssumption DEF TypeOK, PidNsZap, TaskPcs, EndStates,
     Raise
<1>16. CASE Finished
  BY <1>16 DEF TypeOK, Finished
<1>17. ASSUME NEW t \in Tasks, TaskStep(t) PROVE TypeOK'
  <2>0. ASSUME RestorerFail(t) PROVE TypeOK'
    <3>1. Die(t, "exit1")
      BY <2>0 DEF RestorerFail, TaskOf
    <3> QED BY <2>0, <3>1, DieType DEF TypeOK, RestorerFail, Abort, EndStates
  <2>1. CASE t = Root /\ RootFinishNs
    BY <2>1, RestoreAssumption DEF TypeOK, RootFinishNs, FinishStage, Dec,
       Others, At, Go, Procs, TaskPcs, ThreadPcs
  <2>2. CASE t = Root /\ RootLeaveNs
    BY <2>2, RestoreAssumption, DieType DEF TypeOK, RootLeaveNs, TaskExit,
       EndStates, Others, At, Go, Procs, TaskPcs, ThreadPcs
  <2>3. CASE TaskPrepare(t)
    BY <2>3, DieType DEF TypeOK, TaskPrepare, TaskExit, EndStates, Others,
       At, Go, Procs, TaskPcs, ThreadPcs
  <2>4. CASE TaskForkFails(t)
    BY <2>4, DieType DEF TypeOK, TaskForkFails, TaskExit, EndStates
  <2>5. CASE TaskFinishForking(t)
    BY <2>5, DieType DEF TypeOK, TaskFinishForking, TaskExit, EndStates,
       FinishStage, Dec, Others, At, Go, Procs, TaskPcs, ThreadPcs
  <2>23. CASE TaskUnmapGuards(t)
    BY <2>23, DieType DEF TypeOK, TaskUnmapGuards, TaskExit, EndStates, Others,
       At, Go, Procs, TaskPcs, ThreadPcs
  <2>6. CASE \E c \in Tasks : TaskForkChild(t, c)
    BY <2>6 DEF TypeOK, TaskForkChild, CountZombie, At, Go, Procs, TaskPcs,
       ThreadPcs
  <2>7. CASE TaskLeaveForking(t)
    BY <2>7, DieType DEF TypeOK, TaskLeaveForking, restore_one_task, TaskExit, EndStates,
       Others, At, Go, Procs, TaskPcs, ThreadPcs
  <2>8. CASE ZombieFinishRestore(t)
    BY <2>8 DEF TypeOK, ZombieFinishRestore, FinishStage, Dec, Others, At,
       Go, Procs, TaskPcs, ThreadPcs
  <2>9. CASE ZombieDie(t)
    BY <2>9, DieType DEF TypeOK, ZombieDie, TakeZombieLock, EndStates
  <2>10. CASE TaskWaitHelpers(t)
    BY <2>10 DEF TypeOK, TaskWaitHelpers, Others, At, Go, Procs, TaskPcs,
       ThreadPcs
  <2>11. CASE TaskResources(t)
    BY <2>11, DieType DEF TypeOK, TaskResources, TaskExit, EndStates,
       Others, At, Go, Procs, TaskPcs, ThreadPcs
  <2>12. CASE TaskRestoreMm(t)
    BY <2>12, <2>0 DEF TypeOK, TaskRestoreMm, Others, At, Go, Procs,
       TaskPcs, ThreadPcs
  <2>13. CASE \E th \in Threads : TaskCloneThread(t, th)
    BY <2>13 DEF TypeOK, TaskCloneThread, Others, At, Go, Procs, TaskPcs,
       ThreadPcs
  <2>14. CASE TaskFinishRestore(t)
    BY <2>14, <2>0 DEF TypeOK, TaskFinishRestore, FinishStage, Dec, At, Go,
       Procs, TaskPcs, ThreadPcs
  <2>15. CASE TaskLeaveRestore(t)
    BY <2>15 DEF TypeOK, TaskLeaveRestore, Others, At, Go, Procs, TaskPcs,
       ThreadPcs
  <2>16. CASE TaskCollected(t)
    BY <2>16 DEF TypeOK, TaskCollected, BlockSignals, At, Go, Procs,
       TaskPcs, ThreadPcs
  <2>17. CASE FinishSigchld(t)
    BY <2>17, <2>0 DEF TypeOK, FinishSigchld, FinishStage, Dec, Others, At,
       Go, Procs, TaskPcs, ThreadPcs
  <2>18. CASE TaskCreds(t)
    BY <2>18, ThreadsOfType DEF TypeOK, TaskCreds, restore_creds, At, Go, Procs, TaskPcs,
       ThreadPcs
  <2>19. CASE FinishCreds(t)
    BY <2>19 DEF TypeOK, FinishCreds, FinishStage, Dec, Others, At, Go,
       Procs, TaskPcs, ThreadPcs
  <2>20. CASE TaskLeaveCreds(t)
    BY <2>20, DieType DEF TypeOK, TaskLeaveCreds, TaskExit, EndStates,
       Others, At, Go, Procs, TaskPcs, ThreadPcs
  <2>21. CASE TaskUnmap(t)
    BY <2>21 DEF TypeOK, TaskUnmap, At, Go, Procs, TaskPcs, ThreadPcs
  <2>22. CASE Sigreturn(t)
    BY <2>22 DEF TypeOK, Sigreturn, Others, At, Go, Procs, TaskPcs,
       ThreadPcs
  <2> QED BY <1>17, <2>1, <2>2, <2>3, <2>4, <2>5, <2>6, <2>7, <2>8, <2>9, <2>10, <2>11, <2>12, <2>13, <2>14, <2>15, <2>16, <2>17, <2>18, <2>19, <2>20, <2>21, <2>22, <2>23 DEF TaskStep
<1>18. ASSUME NEW th \in Threads, ThreadStep(th) PROVE TypeOK'
  <2>0. ASSUME RestorerFail(th) PROVE TypeOK'
    <3>1. TaskOf(th) \in Tasks
      BY TaskOfType DEF Procs
    <3>2. Die(TaskOf(th), "exit1")
      BY <2>0 DEF RestorerFail
    <3> QED
      BY <2>0, <3>1, <3>2, DieType DEF TypeOK, RestorerFail, Abort, EndStates
  <2>1. CASE ThreadStart(th)
    BY <2>1, <2>0 DEF TypeOK, ThreadStart, BlockSignals, FinishStage, Dec,
       At, Go, Procs, TaskPcs, ThreadPcs
  <2>2. CASE ThreadLeaveRestore(th)
    BY <2>2 DEF TypeOK, ThreadLeaveRestore, Others, At, Go, Procs, TaskPcs,
       ThreadPcs
  <2>3. CASE FinishSigchld(th)
    BY <2>3, <2>0 DEF TypeOK, FinishSigchld, FinishStage, Dec, Others, At,
       Go, Procs, TaskPcs, ThreadPcs
  <2>4. CASE ThreadLeaveSigchld(th)
    BY <2>4 DEF TypeOK, ThreadLeaveSigchld, Others, At, Go, Procs, TaskPcs,
       ThreadPcs
  <2>5. CASE FinishCreds(th)
    BY <2>5 DEF TypeOK, FinishCreds, FinishStage, Dec, Others, At, Go,
       Procs, TaskPcs, ThreadPcs
  <2>6. CASE ThreadLeaveCreds(th)
    BY <2>6, RestoreAssumption DEF TypeOK, ThreadLeaveCreds, At, Go, Procs,
       TaskPcs, ThreadPcs
  <2>7. CASE Sigreturn(th)
    BY <2>7 DEF TypeOK, Sigreturn, Others, At, Go, Procs, TaskPcs,
       ThreadPcs
  <2> QED BY <1>18, <2>1, <2>2, <2>3, <2>4, <2>5, <2>6, <2>7 DEF ThreadStep
<1>19. ASSUME NEW p \in Procs, HandlerStep(p) PROVE TypeOK'
  <2>1. CASE p \in Tasks /\ TaskSigchld(p)
    BY <2>1 DEF TypeOK, TaskSigchld, TakeSig, Abort
  <2>2. CASE PieSigchld(p)
    BY <2>2, TaskOfType DEF TypeOK, PieSigchld, TakeSig, Abort, Dec, Procs,
       TaskPcs
  <2>3. CASE PieZombies(p)
    BY <2>3, TaskOfType DEF TypeOK, PieZombies
  <2>4. CASE PieNrThreads(p)
    BY <2>4 DEF TypeOK, PieNrThreads
  <2>5. CASE PieUnlock(p)
    BY <2>5 DEF TypeOK, PieUnlock
  <2> QED BY <1>19, <2>1, <2>2, <2>3, <2>4, <2>5 DEF HandlerStep
<1>20. CASE UNCHANGED vars
  BY <1>20 DEF TypeOK
<1> QED
  BY <1>1, <1>2, <1>3, <1>4, <1>5, <1>6, <1>7, <1>8, <1>9, <1>10, <1>11,
     <1>12, <1>13, <1>14, <1>15, <1>16, <1>17, <1>18, <1>19, <1>20 DEF Next,
     CriuStep

\* Every reachable state is well typed: the shared counters stay integers
\* whatever fails, nr_zombies natural, and every SIGCHLD pending is a task's.
THEOREM Typing == Spec => []TypeOK
<1>1. Init => TypeOK
  BY InitTypeOK
<1>2. TypeOK /\ [Next]_vars => TypeOK'
  BY NextTypeOK
<1> QED BY <1>1, <1>2, PTL DEF Spec

-----------------------------------------------------------------------------
(* Stages in order: nobody is ahead of the stage criu has announced *)

\* The labels of a proc between leaving one stage and leaving the next.
AfterNs      == {"prepare", "fork_children", "pgid", "fork_wait"}
AfterForking == {"z_dec", "z_wait", "wait_helpers", "resources", "restorer",
                 "clone_threads", "t_new", "r_wait"}
AfterRestore == {"collect", "signals", "s_wait"}
AfterSigchld == {"c_dec", "c_wait"}
AfterCreds   == {"t_wait", "sigreturn", "trapped", "run", "tstop"}

\* A proc that has left a stage has seen a later one announced; after a failure
\* only procs that have not left CR_STATE_FORKING are still there.
InStage(l) ==
  /\ l \in AfterNs      => start = CR_STATE_FAIL \/ start >= CR_STATE_FORKING
  /\ l \in AfterForking => start >= CR_STATE_RESTORE
  /\ l \in AfterRestore => start >= CR_STATE_RESTORE_SIGCHLD
  /\ l \in AfterSigchld => start >= CR_STATE_RESTORE_CREDS
  /\ l \in AfterCreds   => start >= CR_STATE_COMPLETE

NobodyLeft == \A p \in Procs : Gone(p) \/ Unborn(p)

\* Where criu is, which stage it has announced and whether the network is open.
CriuInStage ==
  /\ cpc \in {"fork", "scripts"} => start = CR_STATE_RESTORE_NS
  /\ cpc = "sigaction" => start = CR_STATE_RESTORE_SIGCHLD
  /\ cpc \in {"attach", "complete"} => target = CR_STATE_RESTORE_CREDS
  /\ cpc \in {"fork", "scripts", "wait", "sigaction", "attach", "complete",
              "kill", "fail_nr", "fail_start"} => start = target
  /\ cpc \in {"set_nr", "set_start"} => target = start + 1 /\ start >= 0
  /\ target = CR_STATE_RESTORE_CREDS => network = "unlocked"
  /\ start >= CR_STATE_RESTORE_CREDS => network = "unlocked"
  /\ cpc \in {"fail_nr", "fail_start"} =>
       start <= CR_STATE_FORKING \/ NobodyLeft

StageInv ==
  /\ CriuInStage
  /\ \A p \in Procs : InStage(pc[p])
  /\ RepairOffAfterUnlock

\* A step of a live proc that moves procs only to labels of the announced stage
\* keeps the invariant, if repair mode is switched off only in an open network.
LEMMA ProcStepInStage ==
  ASSUME StageInv, UNCHANGED <<start, cpc, target, network>>,
         \E p \in Procs : ~Gone(p) /\ ~Unborn(p),
         \A q \in Procs : pc'[q] = pc[q] \/ InStage(pc'[q]),
         repair' = repair \/ network = "unlocked"
  PROVE  StageInv'
<1>1. ~NobodyLeft
  BY DEF NobodyLeft
<1>2. CriuInStage'
  BY <1>1 DEF StageInv, CriuInStage
<1>3. \A q \in Procs : InStage(pc[q])'
  BY DEF StageInv, InStage
<1>4. RepairOffAfterUnlock'
  BY DEF StageInv, RepairOffAfterUnlock
<1> QED BY <1>2, <1>3, <1>4 DEF StageInv

\* Dying moves procs only to end states.
LEMMA DieInStage ==
  ASSUME TypeOK, NEW t \in Tasks, NEW how \in EndStates, Die(t, how)
  PROVE  \A q \in Procs : pc'[q] = pc[q] \/ InStage(pc'[q])
BY DEF Die, TypeOK, EndStates, InStage, AfterNs, AfterForking, AfterRestore, AfterSigchld, AfterCreds

LEMMA InitStageInv == Init => StageInv
BY RestoreAssumption DEF Init, StageInv, CriuInStage, RepairOffAfterUnlock, Alive,
   InStage, AfterNs, AfterForking, AfterRestore, AfterSigchld, AfterCreds, CR_STATE_FAIL, CR_STATE_RESTORE_NS, CR_STATE_FORKING, CR_STATE_RESTORE, CR_STATE_RESTORE_SIGCHLD, CR_STATE_RESTORE_CREDS, CR_STATE_COMPLETE

\* The steps of criu.  out_kill leaves nobody when criu has no pid namespace to
\* rely on.
LEMMA CriuStageInv ==
  ASSUME ~NewPid, TypeOK, StageInv, CriuStep \/ CriuSigchld
  PROVE  StageInv'
<1> USE DEF criuVars, sharedVars, sigVars, taskVars
<1>1. (\A p \in Procs : InStage(pc[p])) /\ CriuInStage /\ RepairOffAfterUnlock
  BY DEF StageInv
<1>2. CASE CriuForkRoot
  <2>1. CriuInStage'
    BY <1>1, <1>2, RestoreAssumption DEF CriuForkRoot, Go, TypeOK,
       CriuInStage, NobodyLeft, Gone, Unborn, CR_STATE_FAIL,
       CR_STATE_RESTORE_NS, CR_STATE_FORKING, CR_STATE_RESTORE,
       CR_STATE_RESTORE_SIGCHLD, CR_STATE_RESTORE_CREDS, CR_STATE_COMPLETE
  <2>2. \A p \in Procs : InStage(pc[p])'
    BY <1>1, <1>2, RestoreAssumption DEF CriuForkRoot, Go, TypeOK,
       CriuInStage, InStage, AfterNs, AfterForking, AfterRestore,
       AfterSigchld, AfterCreds, CR_STATE_FAIL, CR_STATE_RESTORE_NS,
       CR_STATE_FORKING, CR_STATE_RESTORE, CR_STATE_RESTORE_SIGCHLD,
       CR_STATE_RESTORE_CREDS, CR_STATE_COMPLETE
  <2>3. RepairOffAfterUnlock'
    BY <1>1, <1>2 DEF CriuForkRoot, RepairOffAfterUnlock
  <2> QED BY <2>1, <2>2, <2>3 DEF StageInv
<1>3. CASE CriuWaitInProgress
  <2>1. CriuInStage'
    BY <1>1, <1>3 DEF CriuWaitInProgress, StageSucceeded, StageFailed,
       TypeOK, CriuInStage, NobodyLeft, Gone, Unborn, CR_STATE_FAIL,
       CR_STATE_RESTORE_NS, CR_STATE_FORKING, CR_STATE_RESTORE,
       CR_STATE_RESTORE_SIGCHLD, CR_STATE_RESTORE_CREDS, CR_STATE_COMPLETE
  <2>2. \A p \in Procs : InStage(pc[p])'
    BY <1>1, <1>3 DEF CriuWaitInProgress, StageSucceeded, StageFailed,
       TypeOK, CriuInStage, InStage, AfterNs, AfterForking, AfterRestore,
       AfterSigchld, AfterCreds, CR_STATE_FAIL, CR_STATE_RESTORE_NS,
       CR_STATE_FORKING, CR_STATE_RESTORE, CR_STATE_RESTORE_SIGCHLD,
       CR_STATE_RESTORE_CREDS, CR_STATE_COMPLETE
  <2>3. RepairOffAfterUnlock'
    BY <1>1, <1>3 DEF CriuWaitInProgress, RepairOffAfterUnlock
  <2> QED BY <2>1, <2>2, <2>3 DEF StageInv
<1>4. CASE CriuRunScripts
  <2>1. CriuInStage'
    BY <1>1, <1>4 DEF CriuRunScripts, CriuInStage, NobodyLeft, Gone,
       Unborn, CR_STATE_FAIL, CR_STATE_RESTORE_NS, CR_STATE_FORKING,
       CR_STATE_RESTORE, CR_STATE_RESTORE_SIGCHLD, CR_STATE_RESTORE_CREDS,
       CR_STATE_COMPLETE
  <2>2. \A p \in Procs : InStage(pc[p])'
    BY <1>1, <1>4 DEF CriuRunScripts, CriuInStage, InStage, AfterNs,
       AfterForking, AfterRestore, AfterSigchld, AfterCreds, CR_STATE_FAIL,
       CR_STATE_RESTORE_NS, CR_STATE_FORKING, CR_STATE_RESTORE,
       CR_STATE_RESTORE_SIGCHLD, CR_STATE_RESTORE_CREDS, CR_STATE_COMPLETE
  <2>3. RepairOffAfterUnlock'
    BY <1>1, <1>4 DEF CriuRunScripts, RepairOffAfterUnlock
  <2> QED BY <2>1, <2>2, <2>3 DEF StageInv
<1>5. CASE CriuSetNr
  <2>1. CriuInStage'
    BY <1>1, <1>5 DEF CriuSetNr, CriuInStage, NobodyLeft, Gone, Unborn,
       CR_STATE_FAIL, CR_STATE_RESTORE_NS, CR_STATE_FORKING, CR_STATE_RESTORE,
       CR_STATE_RESTORE_SIGCHLD, CR_STATE_RESTORE_CREDS, CR_STATE_COMPLETE
  <2>2. \A p \in Procs : InStage(pc[p])'
    BY <1>1, <1>5 DEF CriuSetNr, CriuInStage, InStage, AfterNs,
       AfterForking, AfterRestore, AfterSigchld, AfterCreds, CR_STATE_FAIL,
       CR_STATE_RESTORE_NS, CR_STATE_FORKING, CR_STATE_RESTORE,
       CR_STATE_RESTORE_SIGCHLD, CR_STATE_RESTORE_CREDS, CR_STATE_COMPLETE
  <2>3. RepairOffAfterUnlock'
    BY <1>1, <1>5 DEF CriuSetNr, RepairOffAfterUnlock
  <2> QED BY <2>1, <2>2, <2>3 DEF StageInv
<1>6. CASE CriuSetStart
  <2>1. CriuInStage'
    BY <1>1, <1>6 DEF CriuSetStart, TypeOK, CriuInStage, NobodyLeft, Gone,
       Unborn, CR_STATE_FAIL, CR_STATE_RESTORE_NS, CR_STATE_FORKING,
       CR_STATE_RESTORE, CR_STATE_RESTORE_SIGCHLD, CR_STATE_RESTORE_CREDS,
       CR_STATE_COMPLETE
  <2>2. \A p \in Procs : InStage(pc[p])'
    BY <1>1, <1>6 DEF CriuSetStart, TypeOK, CriuInStage, InStage, AfterNs,
       AfterForking, AfterRestore, AfterSigchld, AfterCreds, CR_STATE_FAIL,
       CR_STATE_RESTORE_NS, CR_STATE_FORKING, CR_STATE_RESTORE,
       CR_STATE_RESTORE_SIGCHLD, CR_STATE_RESTORE_CREDS, CR_STATE_COMPLETE
  <2>3. RepairOffAfterUnlock'
    BY <1>1, <1>6 DEF CriuSetStart, RepairOffAfterUnlock
  <2> QED BY <2>1, <2>2, <2>3 DEF StageInv
<1>7. CASE CriuUnlockNetwork
  <2>1. CriuInStage'
    BY <1>1, <1>7 DEF CriuUnlockNetwork, TypeOK, CriuInStage, NobodyLeft,
       Gone, Unborn, CR_STATE_FAIL, CR_STATE_RESTORE_NS, CR_STATE_FORKING,
       CR_STATE_RESTORE, CR_STATE_RESTORE_SIGCHLD, CR_STATE_RESTORE_CREDS,
       CR_STATE_COMPLETE
  <2>2. \A p \in Procs : InStage(pc[p])'
    BY <1>1, <1>7 DEF CriuUnlockNetwork, TypeOK, CriuInStage, InStage,
       AfterNs, AfterForking, AfterRestore, AfterSigchld, AfterCreds,
       CR_STATE_FAIL, CR_STATE_RESTORE_NS, CR_STATE_FORKING, CR_STATE_RESTORE,
       CR_STATE_RESTORE_SIGCHLD, CR_STATE_RESTORE_CREDS, CR_STATE_COMPLETE
  <2>3. RepairOffAfterUnlock'
    BY <1>1, <1>7 DEF CriuUnlockNetwork, RepairOffAfterUnlock
  <2> QED BY <2>1, <2>2, <2>3 DEF StageInv
<1>8. CASE CriuAttach
  <2>1. CriuInStage'
    BY <1>1, <1>8 DEF CriuAttach, CriuInStage, NobodyLeft, Gone, Unborn,
       CR_STATE_FAIL, CR_STATE_RESTORE_NS, CR_STATE_FORKING, CR_STATE_RESTORE,
       CR_STATE_RESTORE_SIGCHLD, CR_STATE_RESTORE_CREDS, CR_STATE_COMPLETE
  <2>2. \A p \in Procs : InStage(pc[p])'
    BY <1>1, <1>8 DEF CriuAttach, CriuInStage, InStage, AfterNs,
       AfterForking, AfterRestore, AfterSigchld, AfterCreds, CR_STATE_FAIL,
       CR_STATE_RESTORE_NS, CR_STATE_FORKING, CR_STATE_RESTORE,
       CR_STATE_RESTORE_SIGCHLD, CR_STATE_RESTORE_CREDS, CR_STATE_COMPLETE
  <2>3. RepairOffAfterUnlock'
    BY <1>1, <1>8 DEF CriuAttach, RepairOffAfterUnlock
  <2> QED BY <2>1, <2>2, <2>3 DEF StageInv
<1>9. CASE CriuComplete
  <2>1. CriuInStage'
    BY <1>1, <1>9 DEF CriuComplete, TypeOK, CriuInStage, NobodyLeft, Gone,
       Unborn, CR_STATE_FAIL, CR_STATE_RESTORE_NS, CR_STATE_FORKING,
       CR_STATE_RESTORE, CR_STATE_RESTORE_SIGCHLD, CR_STATE_RESTORE_CREDS,
       CR_STATE_COMPLETE
  <2>2. \A p \in Procs : InStage(pc[p])'
    BY <1>1, <1>9 DEF CriuComplete, TypeOK, CriuInStage, InStage, AfterNs,
       AfterForking, AfterRestore, AfterSigchld, AfterCreds, CR_STATE_FAIL,
       CR_STATE_RESTORE_NS, CR_STATE_FORKING, CR_STATE_RESTORE,
       CR_STATE_RESTORE_SIGCHLD, CR_STATE_RESTORE_CREDS, CR_STATE_COMPLETE
  <2>3. RepairOffAfterUnlock'
    BY <1>1, <1>9 DEF CriuComplete, RepairOffAfterUnlock
  <2> QED BY <2>1, <2>2, <2>3 DEF StageInv
<1>10. CASE CriuStopOnSyscall
  <2>1. CriuInStage'
    BY <1>1, <1>10 DEF CriuStopOnSyscall, CriuInStage, NobodyLeft, Gone,
       Unborn, CR_STATE_FAIL, CR_STATE_RESTORE_NS, CR_STATE_FORKING,
       CR_STATE_RESTORE, CR_STATE_RESTORE_SIGCHLD, CR_STATE_RESTORE_CREDS,
       CR_STATE_COMPLETE
  <2>2. \A p \in Procs : InStage(pc[p])'
    BY <1>1, <1>10 DEF CriuStopOnSyscall, CriuInStage, InStage, AfterNs,
       AfterForking, AfterRestore, AfterSigchld, AfterCreds, CR_STATE_FAIL,
       CR_STATE_RESTORE_NS, CR_STATE_FORKING, CR_STATE_RESTORE,
       CR_STATE_RESTORE_SIGCHLD, CR_STATE_RESTORE_CREDS, CR_STATE_COMPLETE
  <2>3. RepairOffAfterUnlock'
    BY <1>1, <1>10 DEF CriuStopOnSyscall, RepairOffAfterUnlock
  <2> QED BY <2>1, <2>2, <2>3 DEF StageInv
<1>11. CASE CriuFinalize
  <2>1. CriuInStage'
    BY <1>1, <1>11 DEF CriuFinalize, CriuInStage, NobodyLeft, Gone, Unborn,
       CR_STATE_FAIL, CR_STATE_RESTORE_NS, CR_STATE_FORKING, CR_STATE_RESTORE,
       CR_STATE_RESTORE_SIGCHLD, CR_STATE_RESTORE_CREDS, CR_STATE_COMPLETE
  <2>2. \A p \in Procs : InStage(pc[p])'
    BY <1>1, <1>11 DEF CriuFinalize, CriuInStage, InStage, AfterNs,
       AfterForking, AfterRestore, AfterSigchld, AfterCreds, CR_STATE_FAIL,
       CR_STATE_RESTORE_NS, CR_STATE_FORKING, CR_STATE_RESTORE,
       CR_STATE_RESTORE_SIGCHLD, CR_STATE_RESTORE_CREDS, CR_STATE_COMPLETE
  <2>3. RepairOffAfterUnlock'
    BY <1>1, <1>11 DEF CriuFinalize, RepairOffAfterUnlock
  <2> QED BY <2>1, <2>2, <2>3 DEF StageInv
<1>12. CASE CriuKill
  <2>1. CriuInStage'
    BY <1>1, <1>12 DEF CriuKill, OutKill, TypeOK, NobodyLeft, Gone, Unborn,
       EndStates, IsInit, CriuInStage, NobodyLeft, Gone, Unborn,
       CR_STATE_FAIL, CR_STATE_RESTORE_NS, CR_STATE_FORKING, CR_STATE_RESTORE,
       CR_STATE_RESTORE_SIGCHLD, CR_STATE_RESTORE_CREDS, CR_STATE_COMPLETE
  <2>2. \A p \in Procs : InStage(pc[p])'
    BY <1>1, <1>12 DEF CriuKill, OutKill, TypeOK, NobodyLeft, Gone, Unborn,
       EndStates, IsInit, CriuInStage, InStage, AfterNs, AfterForking,
       AfterRestore, AfterSigchld, AfterCreds, CR_STATE_FAIL,
       CR_STATE_RESTORE_NS, CR_STATE_FORKING, CR_STATE_RESTORE,
       CR_STATE_RESTORE_SIGCHLD, CR_STATE_RESTORE_CREDS, CR_STATE_COMPLETE
  <2>3. RepairOffAfterUnlock'
    BY <1>1, <1>12 DEF CriuKill, RepairOffAfterUnlock
  <2> QED BY <2>1, <2>2, <2>3 DEF StageInv
<1>13. CASE CriuFailNr
  <2>1. CriuInStage'
    BY <1>1, <1>13 DEF CriuFailNr, CriuInStage, NobodyLeft, Gone, Unborn,
       CR_STATE_FAIL, CR_STATE_RESTORE_NS, CR_STATE_FORKING, CR_STATE_RESTORE,
       CR_STATE_RESTORE_SIGCHLD, CR_STATE_RESTORE_CREDS, CR_STATE_COMPLETE
  <2>2. \A p \in Procs : InStage(pc[p])'
    BY <1>1, <1>13 DEF CriuFailNr, CriuInStage, InStage, AfterNs,
       AfterForking, AfterRestore, AfterSigchld, AfterCreds, CR_STATE_FAIL,
       CR_STATE_RESTORE_NS, CR_STATE_FORKING, CR_STATE_RESTORE,
       CR_STATE_RESTORE_SIGCHLD, CR_STATE_RESTORE_CREDS, CR_STATE_COMPLETE
  <2>3. RepairOffAfterUnlock'
    BY <1>1, <1>13 DEF CriuFailNr, RepairOffAfterUnlock
  <2> QED BY <2>1, <2>2, <2>3 DEF StageInv
<1>14. CASE CriuFailStart
  <2>1. CriuInStage'
    BY <1>1, <1>14 DEF CriuFailStart, TypeOK, NobodyLeft, Gone, Unborn,
       EndStates, CriuInStage, NobodyLeft, Gone, Unborn, CR_STATE_FAIL,
       CR_STATE_RESTORE_NS, CR_STATE_FORKING, CR_STATE_RESTORE,
       CR_STATE_RESTORE_SIGCHLD, CR_STATE_RESTORE_CREDS, CR_STATE_COMPLETE
  <2>2. \A p \in Procs : InStage(pc[p])'
    BY <1>1, <1>14 DEF CriuFailStart, TypeOK, NobodyLeft, Gone, Unborn,
       EndStates, CriuInStage, InStage, AfterNs, AfterForking, AfterRestore,
       AfterSigchld, AfterCreds, CR_STATE_FAIL, CR_STATE_RESTORE_NS,
       CR_STATE_FORKING, CR_STATE_RESTORE, CR_STATE_RESTORE_SIGCHLD,
       CR_STATE_RESTORE_CREDS, CR_STATE_COMPLETE
  <2>3. RepairOffAfterUnlock'
    BY <1>1, <1>14 DEF CriuFailStart, RepairOffAfterUnlock
  <2> QED BY <2>1, <2>2, <2>3 DEF StageInv
<1>15. CASE CriuSigchld
  <2>1. CriuInStage'
    BY <1>1, <1>15 DEF CriuSigchld, CriuInStage, NobodyLeft, Gone, Unborn,
       CR_STATE_FAIL, CR_STATE_RESTORE_NS, CR_STATE_FORKING, CR_STATE_RESTORE,
       CR_STATE_RESTORE_SIGCHLD, CR_STATE_RESTORE_CREDS, CR_STATE_COMPLETE
  <2>2. \A p \in Procs : InStage(pc[p])'
    BY <1>1, <1>15 DEF CriuSigchld, CriuInStage, InStage, AfterNs,
       AfterForking, AfterRestore, AfterSigchld, AfterCreds, CR_STATE_FAIL,
       CR_STATE_RESTORE_NS, CR_STATE_FORKING, CR_STATE_RESTORE,
       CR_STATE_RESTORE_SIGCHLD, CR_STATE_RESTORE_CREDS, CR_STATE_COMPLETE
  <2>3. RepairOffAfterUnlock'
    BY <1>1, <1>15 DEF CriuSigchld, RepairOffAfterUnlock
  <2> QED BY <2>1, <2>2, <2>3 DEF StageInv
<1> QED
  BY <1>2, <1>3, <1>4, <1>5, <1>6, <1>7, <1>8, <1>9, <1>10, <1>11, <1>12,
     <1>13, <1>14, <1>15 DEF CriuStep

\* The steps of tasks, threads and handlers.
LEMMA ProcStageInv ==
  ASSUME ~NewPid, TypeOK, StageInv,
         \/ \E t \in Tasks : TaskStep(t)
         \/ \E th \in Threads : ThreadStep(th)
         \/ \E p \in Procs : HandlerStep(p)
         \/ PidNsZap
  PROVE  StageInv'
<1> USE DEF criuVars, sharedVars, sigVars, taskVars
<1>1. (\A p \in Procs : InStage(pc[p])) /\ CriuInStage
  BY DEF StageInv
<1>2. ASSUME NEW t \in Tasks, TaskStep(t) PROVE StageInv'
  <2>0. ASSUME RestorerFail(t), \E p \in Procs : ~Gone(p) /\ ~Unborn(p)
        PROVE  StageInv'
    <3>1. TaskOf(t) \in Tasks /\ "exit1" \in EndStates
      BY TaskOfType DEF Procs, EndStates
    <3>2. \A q \in Procs : pc'[q] = pc[q] \/ InStage(pc'[q])
      BY <2>0, <3>1, DieInStage DEF RestorerFail
    <3> QED BY <2>0, <3>2, ProcStepInStage DEF RestorerFail
  <2>1. CASE t = Root /\ RootFinishNs
    BY <1>1, <2>1, ProcStepInStage, RestoreAssumption DEF RootFinishNs,
       FinishStage, Dec, Others, At, Go, Gone, Unborn, EndStates, Procs,
       TypeOK, InStage, AfterNs, AfterForking, AfterRestore, AfterSigchld,
       AfterCreds, CR_STATE_FAIL, CR_STATE_RESTORE_NS, CR_STATE_FORKING,
       CR_STATE_RESTORE, CR_STATE_RESTORE_SIGCHLD, CR_STATE_RESTORE_CREDS,
       CR_STATE_COMPLETE
  <2>2. CASE t = Root /\ RootLeaveNs
    BY <1>1, <2>2, ProcStepInStage, RestoreAssumption, DieInStage DEF
       RootLeaveNs, StageOver, TaskExit, Others, At, Go, Gone, Unborn,
       EndStates, Procs, TypeOK, InStage, AfterNs, AfterForking, AfterRestore,
       AfterSigchld, AfterCreds, CR_STATE_FAIL, CR_STATE_RESTORE_NS,
       CR_STATE_FORKING, CR_STATE_RESTORE, CR_STATE_RESTORE_SIGCHLD,
       CR_STATE_RESTORE_CREDS, CR_STATE_COMPLETE
  <2>3. CASE TaskPrepare(t)
    BY <1>1, <2>3, ProcStepInStage, DieInStage DEF TaskPrepare, TaskExit,
       Others, At, Go, Gone, Unborn, EndStates, Procs, TypeOK, InStage,
       AfterNs, AfterForking, AfterRestore, AfterSigchld, AfterCreds,
       CR_STATE_FAIL, CR_STATE_RESTORE_NS, CR_STATE_FORKING, CR_STATE_RESTORE,
       CR_STATE_RESTORE_SIGCHLD, CR_STATE_RESTORE_CREDS, CR_STATE_COMPLETE
  <2>4. CASE TaskForkFails(t)
    BY <1>1, <2>4, ProcStepInStage, DieInStage DEF TaskForkFails, TaskExit,
       Others, At, Go, Gone, Unborn, EndStates, Procs, TypeOK
  <2>5. CASE TaskFinishForking(t)
    BY <1>1, <2>5, ProcStepInStage, DieInStage DEF TaskFinishForking,
       TaskExit, FinishStage, Dec, Others, At, Go, Gone, Unborn, EndStates,
       Procs, TypeOK, InStage, AfterNs, AfterForking, AfterRestore,
       AfterSigchld, AfterCreds, CR_STATE_FAIL, CR_STATE_RESTORE_NS,
       CR_STATE_FORKING, CR_STATE_RESTORE, CR_STATE_RESTORE_SIGCHLD,
       CR_STATE_RESTORE_CREDS, CR_STATE_COMPLETE
  <2>23. CASE TaskUnmapGuards(t)
    BY <1>1, <2>23, ProcStepInStage, DieInStage DEF TaskUnmapGuards, TaskExit,
       Others, At, Go, Gone, Unborn, EndStates, Procs, TypeOK, InStage,
       AfterNs, AfterForking, AfterRestore, AfterSigchld, AfterCreds,
       CR_STATE_FAIL, CR_STATE_RESTORE_NS, CR_STATE_FORKING, CR_STATE_RESTORE,
       CR_STATE_RESTORE_SIGCHLD, CR_STATE_RESTORE_CREDS, CR_STATE_COMPLETE
  <2>6. CASE \E c \in Tasks : TaskForkChild(t, c)
    BY <1>1, <2>6, ProcStepInStage DEF TaskForkChild, At, Go, Gone, Unborn,
       EndStates, Procs, TypeOK, InStage, AfterNs, AfterForking, AfterRestore,
       AfterSigchld, AfterCreds, CR_STATE_FAIL, CR_STATE_RESTORE_NS,
       CR_STATE_FORKING, CR_STATE_RESTORE, CR_STATE_RESTORE_SIGCHLD,
       CR_STATE_RESTORE_CREDS, CR_STATE_COMPLETE
  <2>7. CASE TaskLeaveForking(t)
    BY <1>1, <2>7, ProcStepInStage, DieInStage DEF TaskLeaveForking, restore_one_task,
       StageOver, TaskExit, Others, At, Go, Gone, Unborn, EndStates, Procs,
       TypeOK, InStage, AfterNs, AfterForking, AfterRestore, AfterSigchld,
       AfterCreds, CR_STATE_FAIL, CR_STATE_RESTORE_NS, CR_STATE_FORKING,
       CR_STATE_RESTORE, CR_STATE_RESTORE_SIGCHLD, CR_STATE_RESTORE_CREDS,
       CR_STATE_COMPLETE
  <2>8. CASE ZombieFinishRestore(t)
    BY <1>1, <2>8, ProcStepInStage DEF ZombieFinishRestore, FinishStage,
       Dec, Others, At, Go, Gone, Unborn, EndStates, Procs, TypeOK, InStage,
       AfterNs, AfterForking, AfterRestore, AfterSigchld, AfterCreds,
       CR_STATE_FAIL, CR_STATE_RESTORE_NS, CR_STATE_FORKING, CR_STATE_RESTORE,
       CR_STATE_RESTORE_SIGCHLD, CR_STATE_RESTORE_CREDS, CR_STATE_COMPLETE
  <2>9. CASE ZombieDie(t)
    BY <1>1, <2>9, ProcStepInStage, DieInStage DEF ZombieDie, At, Go, Gone,
       Unborn, EndStates, Procs, TypeOK
  <2>10. CASE TaskWaitHelpers(t)
    BY <1>1, <2>10, ProcStepInStage DEF TaskWaitHelpers, Others, At, Go,
       Gone, Unborn, EndStates, Procs, TypeOK, InStage, AfterNs, AfterForking,
       AfterRestore, AfterSigchld, AfterCreds, CR_STATE_FAIL,
       CR_STATE_RESTORE_NS, CR_STATE_FORKING, CR_STATE_RESTORE,
       CR_STATE_RESTORE_SIGCHLD, CR_STATE_RESTORE_CREDS, CR_STATE_COMPLETE
  <2>11. CASE TaskResources(t)
    BY <1>1, <2>11, ProcStepInStage, DieInStage DEF TaskResources,
       TaskExit, Others, At, Go, Gone, Unborn, EndStates, Procs, TypeOK,
       InStage, AfterNs, AfterForking, AfterRestore, AfterSigchld, AfterCreds,
       CR_STATE_FAIL, CR_STATE_RESTORE_NS, CR_STATE_FORKING, CR_STATE_RESTORE,
       CR_STATE_RESTORE_SIGCHLD, CR_STATE_RESTORE_CREDS, CR_STATE_COMPLETE
  <2>12. CASE TaskRestoreMm(t)
    BY <1>1, <2>12, ProcStepInStage, <2>0 DEF TaskRestoreMm, Others, At,
       Go, Gone, Unborn, EndStates, Procs, TypeOK, InStage, AfterNs,
       AfterForking, AfterRestore, AfterSigchld, AfterCreds, CR_STATE_FAIL,
       CR_STATE_RESTORE_NS, CR_STATE_FORKING, CR_STATE_RESTORE,
       CR_STATE_RESTORE_SIGCHLD, CR_STATE_RESTORE_CREDS, CR_STATE_COMPLETE
  <2>13. CASE \E th \in Threads : TaskCloneThread(t, th)
    BY <1>1, <2>13, ProcStepInStage DEF TaskCloneThread, Others, At, Go,
       Gone, Unborn, EndStates, Procs, TypeOK, InStage, AfterNs, AfterForking,
       AfterRestore, AfterSigchld, AfterCreds, CR_STATE_FAIL,
       CR_STATE_RESTORE_NS, CR_STATE_FORKING, CR_STATE_RESTORE,
       CR_STATE_RESTORE_SIGCHLD, CR_STATE_RESTORE_CREDS, CR_STATE_COMPLETE
  <2>14. CASE TaskFinishRestore(t)
    BY <1>1, <2>14, ProcStepInStage, <2>0 DEF TaskFinishRestore,
       FinishStage, Dec, At, Go, Gone, Unborn, EndStates, Procs, TypeOK,
       InStage, AfterNs, AfterForking, AfterRestore, AfterSigchld, AfterCreds,
       CR_STATE_FAIL, CR_STATE_RESTORE_NS, CR_STATE_FORKING, CR_STATE_RESTORE,
       CR_STATE_RESTORE_SIGCHLD, CR_STATE_RESTORE_CREDS, CR_STATE_COMPLETE
  <2>15. CASE TaskLeaveRestore(t)
    BY <1>1, <2>15, ProcStepInStage DEF TaskLeaveRestore, StageOver,
       Others, At, Go, Gone, Unborn, EndStates, Procs, TypeOK, InStage,
       AfterNs, AfterForking, AfterRestore, AfterSigchld, AfterCreds,
       CR_STATE_FAIL, CR_STATE_RESTORE_NS, CR_STATE_FORKING, CR_STATE_RESTORE,
       CR_STATE_RESTORE_SIGCHLD, CR_STATE_RESTORE_CREDS, CR_STATE_COMPLETE
  <2>16. CASE TaskCollected(t)
    BY <1>1, <2>16, ProcStepInStage DEF TaskCollected, At, Go, Gone,
       Unborn, EndStates, Procs, TypeOK, InStage, AfterNs, AfterForking,
       AfterRestore, AfterSigchld, AfterCreds, CR_STATE_FAIL,
       CR_STATE_RESTORE_NS, CR_STATE_FORKING, CR_STATE_RESTORE,
       CR_STATE_RESTORE_SIGCHLD, CR_STATE_RESTORE_CREDS, CR_STATE_COMPLETE
  <2>17. CASE FinishSigchld(t)
    BY <1>1, <2>17, ProcStepInStage, <2>0 DEF FinishSigchld, FinishStage,
       Dec, Others, At, Go, Gone, Unborn, EndStates, Procs, TypeOK, InStage,
       AfterNs, AfterForking, AfterRestore, AfterSigchld, AfterCreds,
       CR_STATE_FAIL, CR_STATE_RESTORE_NS, CR_STATE_FORKING, CR_STATE_RESTORE,
       CR_STATE_RESTORE_SIGCHLD, CR_STATE_RESTORE_CREDS, CR_STATE_COMPLETE
  <2>18. CASE TaskCreds(t)
    BY <1>1, <2>18, ProcStepInStage DEF TaskCreds, restore_creds, StageOver, CriuInStage,
       At, Go, Gone, Unborn, EndStates, Procs, TypeOK, InStage, AfterNs,
       AfterForking, AfterRestore, AfterSigchld, AfterCreds, CR_STATE_FAIL,
       CR_STATE_RESTORE_NS, CR_STATE_FORKING, CR_STATE_RESTORE,
       CR_STATE_RESTORE_SIGCHLD, CR_STATE_RESTORE_CREDS, CR_STATE_COMPLETE
  <2>19. CASE FinishCreds(t)
    BY <1>1, <2>19, ProcStepInStage DEF FinishCreds, FinishStage, Dec,
       Others, At, Go, Gone, Unborn, EndStates, Procs, TypeOK, InStage,
       AfterNs, AfterForking, AfterRestore, AfterSigchld, AfterCreds,
       CR_STATE_FAIL, CR_STATE_RESTORE_NS, CR_STATE_FORKING, CR_STATE_RESTORE,
       CR_STATE_RESTORE_SIGCHLD, CR_STATE_RESTORE_CREDS, CR_STATE_COMPLETE
  <2>20. CASE TaskLeaveCreds(t)
    BY <1>1, <2>20, ProcStepInStage, DieInStage DEF TaskLeaveCreds,
       StageOver, TaskExit, Others, At, Go, Gone, Unborn, EndStates, Procs,
       TypeOK, InStage, AfterNs, AfterForking, AfterRestore, AfterSigchld,
       AfterCreds, CR_STATE_FAIL, CR_STATE_RESTORE_NS, CR_STATE_FORKING,
       CR_STATE_RESTORE, CR_STATE_RESTORE_SIGCHLD, CR_STATE_RESTORE_CREDS,
       CR_STATE_COMPLETE
  <2>21. CASE TaskUnmap(t)
    BY <1>1, <2>21, ProcStepInStage DEF TaskUnmap, At, Go, Gone, Unborn,
       EndStates, Procs, TypeOK, InStage, AfterNs, AfterForking, AfterRestore,
       AfterSigchld, AfterCreds, CR_STATE_FAIL, CR_STATE_RESTORE_NS,
       CR_STATE_FORKING, CR_STATE_RESTORE, CR_STATE_RESTORE_SIGCHLD,
       CR_STATE_RESTORE_CREDS, CR_STATE_COMPLETE
  <2>22. CASE Sigreturn(t)
    BY <1>1, <2>22, ProcStepInStage DEF Sigreturn, Others, At, Go, Gone,
       Unborn, EndStates, Procs, TypeOK, InStage, AfterNs, AfterForking,
       AfterRestore, AfterSigchld, AfterCreds, CR_STATE_FAIL,
       CR_STATE_RESTORE_NS, CR_STATE_FORKING, CR_STATE_RESTORE,
       CR_STATE_RESTORE_SIGCHLD, CR_STATE_RESTORE_CREDS, CR_STATE_COMPLETE
  <2> QED
    BY <1>2, <2>1, <2>2, <2>3, <2>4, <2>5, <2>6, <2>7, <2>8, <2>9, <2>10,
       <2>11, <2>12, <2>13, <2>14, <2>15, <2>16, <2>17, <2>18, <2>19, <2>20,
       <2>21, <2>22, <2>23 DEF TaskStep
<1>3. ASSUME NEW th \in Threads, ThreadStep(th) PROVE StageInv'
  <2>0. ASSUME RestorerFail(th), \E p \in Procs : ~Gone(p) /\ ~Unborn(p)
        PROVE  StageInv'
    <3>1. TaskOf(th) \in Tasks /\ "exit1" \in EndStates
      BY TaskOfType DEF Procs, EndStates
    <3>2. \A q \in Procs : pc'[q] = pc[q] \/ InStage(pc'[q])
      BY <2>0, <3>1, DieInStage DEF RestorerFail
    <3> QED BY <2>0, <3>2, ProcStepInStage DEF RestorerFail
  <2>1. CASE ThreadStart(th)
    BY <1>1, <2>1, ProcStepInStage, <2>0 DEF ThreadStart, FinishStage, Dec,
       At, Go, Gone, Unborn, EndStates, Procs, TypeOK, InStage, AfterNs,
       AfterForking, AfterRestore, AfterSigchld, AfterCreds, CR_STATE_FAIL,
       CR_STATE_RESTORE_NS, CR_STATE_FORKING, CR_STATE_RESTORE,
       CR_STATE_RESTORE_SIGCHLD, CR_STATE_RESTORE_CREDS, CR_STATE_COMPLETE
  <2>2. CASE ThreadLeaveRestore(th)
    BY <1>1, <2>2, ProcStepInStage DEF ThreadLeaveRestore, StageOver,
       Others, At, Go, Gone, Unborn, EndStates, Procs, TypeOK, InStage,
       AfterNs, AfterForking, AfterRestore, AfterSigchld, AfterCreds,
       CR_STATE_FAIL, CR_STATE_RESTORE_NS, CR_STATE_FORKING, CR_STATE_RESTORE,
       CR_STATE_RESTORE_SIGCHLD, CR_STATE_RESTORE_CREDS, CR_STATE_COMPLETE
  <2>3. CASE FinishSigchld(th)
    BY <1>1, <2>3, ProcStepInStage, <2>0 DEF FinishSigchld, FinishStage,
       Dec, Others, At, Go, Gone, Unborn, EndStates, Procs, TypeOK, InStage,
       AfterNs, AfterForking, AfterRestore, AfterSigchld, AfterCreds,
       CR_STATE_FAIL, CR_STATE_RESTORE_NS, CR_STATE_FORKING, CR_STATE_RESTORE,
       CR_STATE_RESTORE_SIGCHLD, CR_STATE_RESTORE_CREDS, CR_STATE_COMPLETE
  <2>4. CASE ThreadLeaveSigchld(th)
    BY <1>1, <2>4, ProcStepInStage DEF ThreadLeaveSigchld, StageOver,
       Others, At, Go, Gone, Unborn, EndStates, Procs, TypeOK, InStage,
       AfterNs, AfterForking, AfterRestore, AfterSigchld, AfterCreds,
       CR_STATE_FAIL, CR_STATE_RESTORE_NS, CR_STATE_FORKING, CR_STATE_RESTORE,
       CR_STATE_RESTORE_SIGCHLD, CR_STATE_RESTORE_CREDS, CR_STATE_COMPLETE
  <2>5. CASE FinishCreds(th)
    BY <1>1, <2>5, ProcStepInStage DEF FinishCreds, FinishStage, Dec,
       Others, At, Go, Gone, Unborn, EndStates, Procs, TypeOK, InStage,
       AfterNs, AfterForking, AfterRestore, AfterSigchld, AfterCreds,
       CR_STATE_FAIL, CR_STATE_RESTORE_NS, CR_STATE_FORKING, CR_STATE_RESTORE,
       CR_STATE_RESTORE_SIGCHLD, CR_STATE_RESTORE_CREDS, CR_STATE_COMPLETE
  <2>6. CASE ThreadLeaveCreds(th)
    BY <1>1, <2>6, ProcStepInStage DEF ThreadLeaveCreds, StageOver, At, Go,
       Gone, Unborn, EndStates, Procs, TypeOK, InStage, AfterNs, AfterForking,
       AfterRestore, AfterSigchld, AfterCreds, CR_STATE_FAIL,
       CR_STATE_RESTORE_NS, CR_STATE_FORKING, CR_STATE_RESTORE,
       CR_STATE_RESTORE_SIGCHLD, CR_STATE_RESTORE_CREDS, CR_STATE_COMPLETE
  <2>7. CASE Sigreturn(th)
    BY <1>1, <2>7, ProcStepInStage DEF Sigreturn, Others, At, Go, Gone,
       Unborn, EndStates, Procs, TypeOK, InStage, AfterNs, AfterForking,
       AfterRestore, AfterSigchld, AfterCreds, CR_STATE_FAIL,
       CR_STATE_RESTORE_NS, CR_STATE_FORKING, CR_STATE_RESTORE,
       CR_STATE_RESTORE_SIGCHLD, CR_STATE_RESTORE_CREDS, CR_STATE_COMPLETE
  <2> QED
    BY <1>3, <2>1, <2>2, <2>3, <2>4, <2>5, <2>6, <2>7 DEF ThreadStep
<1>4. ASSUME NEW p \in Procs, HandlerStep(p) PROVE StageInv'
  <2>1. CASE p \in Tasks /\ TaskSigchld(p)
    BY <1>1, <2>1, ProcStepInStage DEF TaskSigchld, Running, Gone, Unborn,
       Procs
  <2>2. CASE PieSigchld(p)
    BY <1>1, <2>2, ProcStepInStage DEF PieSigchld, Running, TypeOK, Gone,
       Unborn, Procs, InStage, AfterNs, AfterForking, AfterRestore,
       AfterSigchld, AfterCreds
  <2>3. CASE PieZombies(p)
    BY <2>3 DEF PieZombies, StageInv, CriuInStage, NobodyLeft, Gone,
       Unborn, RepairOffAfterUnlock, InStage
  <2>4. CASE PieNrThreads(p)
    BY <2>4 DEF PieNrThreads, StageInv, CriuInStage, NobodyLeft, Gone,
       Unborn, RepairOffAfterUnlock, InStage
  <2>5. CASE PieUnlock(p)
    BY <2>5 DEF PieUnlock, StageInv, CriuInStage, NobodyLeft, Gone, Unborn,
       RepairOffAfterUnlock, InStage
  <2> QED BY <1>4, <2>1, <2>2, <2>3, <2>4, <2>5 DEF HandlerStep
<1>5. CASE PidNsZap
  <2>1. \A q \in Procs : pc'[q] \in EndStates \/ Unborn(q)'
    BY <1>5 DEF PidNsZap, EndStates, Gone, Unborn, TypeOK
  <2>2. NobodyLeft' /\ \A q \in Procs : InStage(pc[q])'
    BY <2>1 DEF NobodyLeft, Gone, Unborn, EndStates, InStage, AfterNs, AfterForking, AfterRestore, AfterSigchld, AfterCreds
  <2> QED BY <1>5, <2>2 DEF PidNsZap, StageInv, CriuInStage, RepairOffAfterUnlock
<1> QED BY <1>2, <1>3, <1>4, <1>5

\* The code's ordering comments hold for every tree restored without a new pid
\* namespace: no task turns TCP repair mode off, and none returns to the
\* application, before criu has unlocked the network; no task is ever ahead of
\* the stage criu has announced, whatever fails in between.
THEOREM StagesInOrder ==
  ASSUME ~NewPid
  PROVE  Spec => []StageInv
<1>1. Init => StageInv
  BY InitStageInv
<1>2. TypeOK /\ StageInv /\ [Next]_vars => StageInv'
  <2> SUFFICES ASSUME TypeOK, StageInv, [Next]_vars PROVE StageInv'
    OBVIOUS
  <2>1. CASE UNCHANGED vars
    BY <2>1 DEF vars, criuVars, sharedVars, sigVars, taskVars, StageInv,
       CriuInStage, NobodyLeft, Gone, Unborn, RepairOffAfterUnlock, InStage
  <2>2. CASE Finished
    BY <2>1, <2>2 DEF Finished
  <2> QED BY <2>1, <2>2, CriuStageInv, ProcStageInv DEF Next
<1> QED BY <1>1, <1>2, Typing, PTL DEF Spec

\* "Unlock network before disabling repair mode on sockets" (restore_root_task).
THEOREM RepairOff ==
  ASSUME ~NewPid
  PROVE  Spec => []RepairOffAfterUnlock
<1>1. StageInv => RepairOffAfterUnlock
  BY DEF StageInv
<1> QED BY <1>1, StagesInOrder, PTL

=============================================================================
