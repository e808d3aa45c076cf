------------------------- MODULE RestoreBarrierProofs -------------------------
(***************************************************************************)
(* The barrier of RestoreStages proved for every process tree that is      *)
(* restored without a new pid namespace: criu changes the stage only when  *)
(* every participant has finished the current one, although the counter is *)
(* decremented by tasks, by threads and by SIGCHLD handlers on behalf of   *)
(* zombies, is sized from nr_threads, which the handlers change, and may   *)
(* be aborted and overwritten at any time.                                 *)
(***************************************************************************)
EXTENDS RestoreStagesProofs

-----------------------------------------------------------------------------
(* The inductive invariant *)

\* The procs that count for CR_STATE_RESTORE, and those left when the zombies
\* are dead.
Counted == Threads \cup {t \in Tasks : Kind[t] # "helper"}
Live    == Threads \cup {t \in Tasks : Alive(t)}

\* A task runs the program's code, then the restorer with its SIGCHLD handler,
\* then the restorer with all signals blocked.
InProgram == {"unborn", "lost", "ns_dec", "ns_wait", "prepare",
  "fork_children", "pgid", "fork_wait", "z_dec", "z_wait", "wait_helpers", "resources"}
InRestorer == {"restorer", "clone_threads", "r_wait", "collect"}
InBlocked  == {"signals", "s_wait", "c_dec", "c_wait", "t_wait", "sigreturn",
  "trapped", "run", "tstop"}
Left == {"sigreturn", "trapped", "run", "tstop"} \cup EndStates

TaskInv ==
  \A t \in Tasks :
    /\ pc[t] \in TaskPcs \ {"dying"}
    /\ pc[t] \in {"ns_dec", "ns_wait"} => t = Root
    /\ pc[t] \in {"z_dec", "z_wait", "zombie"} => Kind[t] = "dead"
    /\ pc[t] \in {"wait_helpers", "resources", "stopped"}
                   \cup InRestorer \cup InBlocked => Alive(t)
    /\ pc[t] \in InProgram  => act[t] = "restore" /\ t \notin blocked
    /\ pc[t] \in InRestorer => act[t] = "pie" /\ t \notin blocked
    /\ pc[t] \in InBlocked  => act[t] = "orig" /\ t \in blocked

\* A thread exists only while its leader is in the restorer or later, and
\* blocks signals before it reaches the first barrier.
ThreadInv ==
  \A th \in Threads :
    /\ pc[th] \in ThreadPcs
    /\ \/ pc[th] \in {"unborn", "lost", "t_new", "stopped", "killed"}
       \/ th \in blocked /\ th \in creds
    /\ Gone(Owner[th]) => Gone(th) \/ Unborn(th)
    /\ pc[Owner[th]] = "stopped" => Gone(th) \/ Unborn(th) \/ pc[th] = "stopped"
    /\ pc[Owner[th]] \in InProgram \cup {"restorer"} => pc[th] = "unborn"

\* A pending SIGCHLD comes from a dead child, and never from a helper once the
\* restorer's handler is installed.
SigInv ==
  /\ \A c \in Tasks : ppid[c] \in {ParentOf[c], Outside}
  /\ \A t \in Tasks \cup {Criu} :
       sigpend[t] # NoSig => Gone(sigpend[t]) /\ ParentOf[sigpend[t]] = t
  /\ \A t \in Tasks : act[t] # "restore" \/ pc[t] = "resources" =>
       \A c \in Children(t) : Kind[c] = "helper" => Gone(c)
  /\ \A t \in Tasks : act[t] = "pie" /\ sigpend[t] # NoSig =>
       Kind[sigpend[t]] # "helper"

\* The labels of a participant that has not finished a stage.
BeforeForked  == {"unborn", "lost", "ns_dec", "ns_wait", "prepare",
  "fork_children", "pgid"}
BeforeRestore == BeforeForked \cup {"fork_wait", "z_dec", "wait_helpers",
  "resources", "restorer", "clone_threads", "t_new"}
BeforeSigchld == BeforeRestore \cup {"z_wait", "r_wait", "collect", "signals"}
BeforeCreds   == BeforeSigchld \cup {"s_wait", "c_dec"}

\* Nobody who counts is behind the stage criu has announced.
CaughtUp ==
  /\ cpc = "fork" => \A p \in Procs : pc[p] = "unborn"
  /\ cpc = "kill" => start >= CR_STATE_RESTORE
  /\ start >= CR_STATE_FORKING => pc[Root] \notin {"unborn", "lost", "ns_dec"}
  /\ start >= CR_STATE_RESTORE => \A t \in Tasks : pc[t] \notin BeforeForked
  /\ start >= CR_STATE_RESTORE_SIGCHLD =>
       \A p \in Counted : pc[p] \notin BeforeRestore
  /\ start >= CR_STATE_RESTORE_CREDS =>
       \A p \in Counted : pc[p] \notin BeforeSigchld
  /\ start >= CR_STATE_COMPLETE =>
       \A p \in Counted : pc[p] \notin BeforeCreds

\* The restorer's handler collects zombies only on a leader that waits for them.
HandlerInv ==
  \A p \in Procs : hpc[p] # "idle" =>
    /\ p \in Tasks /\ pc[p] \in {"r_wait", "collect"}
    /\ start = CR_STATE_RESTORE_SIGCHLD

\* The participants whose share of nr_in_progress is still to be taken off: a
\* zombie's is, when its parent's handler takes the signal.
Deducted(s, p) ==
  /\ Finished_(s, p)
  /\ s = CR_STATE_RESTORE_SIGCHLD /\ p \in Tasks => sigpend[ParentOf[p]] # p

Pending(s) == {p \in Participants(s) : ~Deducted(s, p)}

AllFinished == \A p \in Participants(start) : Finished_(start, p)

\* The counter is aborted or at least the number of those still to come; from
\* the moment criu has found it zero until the next stage is announced everybody
\* is at the barrier, even if an abort comes in between and is overwritten.
BarrierInv ==
  /\ cpc = "fork" => nr_in_progress = 1
  /\ cpc = "wait" => nr_in_progress < 0
                       \/ nr_in_progress >= Cardinality(Pending(start))
  /\ cpc \in {"scripts", "set_nr", "set_start", "sigaction", "attach",
              "complete"} => AllFinished
  /\ cpc = "set_start" => nr_in_progress < 0
                            \/ nr_in_progress = stage_participants(target)

\* While the zombies are collected, a death that is not theirs aborts.
NobodyDied ==
  cpc = "wait" /\ start = CR_STATE_RESTORE_SIGCHLD /\ nr_in_progress >= 0 =>
    \A p \in Counted : Gone(p) \/ pc[p] = "stopped" => pc[p] = "zombie"

\* The handlers that have taken a zombie off nr_in_progress and not yet off
\* nr_threads, and the live procs that have not finished CR_STATE_RESTORE_SIGCHLD.
Busy       == {p \in Procs : hpc[p] \in {"zombies", "nr_threads"}}
Unfinished == {p \in Live : pc[p] # "s_wait"}

NrInv ==
  /\ start \in {CR_STATE_RESTORE_NS, CR_STATE_FORKING, CR_STATE_RESTORE} =>
       nr_threads = Cardinality(Counted)
  /\ start = CR_STATE_RESTORE_SIGCHLD /\ cpc = "wait" /\ nr_in_progress >= 0 =>
       nr_in_progress - Cardinality(Unfinished)
         = nr_threads - Cardinality(Busy) - Cardinality(Live)
  /\ start = CR_STATE_RESTORE_SIGCHLD /\ cpc \in {"sigaction", "set_nr", "set_start"}
       => nr_threads = Cardinality(Live)
  /\ start = CR_STATE_RESTORE_CREDS => nr_threads = Cardinality(Live)

\* The threads that may still use the shared page; thread_inprogress counts
\* them and the leader.
InPage(t) == {th \in ThreadsOf(t) : pc[th] \notin Left}

PageSafe(t) ==
  /\ pc[t] \in {"c_dec", "c_wait", "t_wait"} =>
       thread_inprogress[t] >= 1 + Cardinality(InPage(t))
  /\ t \notin mapped => /\ pc[t] \in Left /\ act[t] = "orig"
                        /\ InPage(t) = {}

PageInv == \A t \in Tasks : PageSafe(t)

CredsInv ==
  start = CR_STATE_COMPLETE =>
    \A q \in RunningItems : q \in creds \/ pc[q] = "c_wait"

ProcInv == TypeOK /\ StageInv /\ TaskInv /\ ThreadInv /\ SigInv
CountInv == CaughtUp /\ HandlerInv /\ BarrierInv /\ NobodyDied /\ NrInv
RestoreInv == ProcInv /\ CountInv /\ PageInv /\ CredsInv

-----------------------------------------------------------------------------
(* The shapes a step of a task, a thread or a handler can have *)

\* Where the main line of a leader, or of a thread, goes from a label.
TaskTurn(t, l, m) ==
  \/ l = "ns_dec" /\ m = "ns_wait"
  \/ l = "ns_wait" /\ m = "prepare" /\ start # CR_STATE_RESTORE_NS
  \/ l = "prepare" /\ m = "fork_children"
  \/ l = "fork_children" /\ m = "pgid"
  \/ l = "pgid" /\ m = "fork_wait"
  \/ l = "fork_wait" /\ m = "z_dec" /\ Kind[t] = "dead" /\ start # CR_STATE_FORKING
  \/ l = "fork_wait" /\ m = "wait_helpers" /\ Alive(t) /\ start # CR_STATE_FORKING
  \/ l = "z_dec" /\ m = "z_wait"
  \/ /\ l = "wait_helpers" /\ m = "resources"
     /\ \A c \in Children(t) : Kind[c] = "helper" => Gone(c)
  \/ l = "resources" /\ m = "restorer"
  \/ l = "restorer" /\ m = "clone_threads"
  \/ l = "clone_threads" /\ m = "r_wait"
  \/ l = "r_wait" /\ m = "collect" /\ start # CR_STATE_RESTORE
  \/ l = "collect" /\ m = "signals"
  \/ l = "signals" /\ m = "s_wait"
  \/ l = "s_wait" /\ m = "c_dec" /\ start # CR_STATE_RESTORE_SIGCHLD
  \/ l = "c_dec" /\ m = "c_wait"
  \/ l = "c_wait" /\ m = "t_wait" /\ start # CR_STATE_RESTORE_CREDS /\ t \in creds
  \/ l = "t_wait" /\ m = "sigreturn" /\ thread_inprogress[t] <= 1
  \/ l = "sigreturn" /\ m \in {"trapped", "run"}

ThreadTurn(l, m) ==
  \/ l = "t_new" /\ m = "r_wait"
  \/ l = "r_wait" /\ m = "signals" /\ start # CR_STATE_RESTORE
  \/ l = "signals" /\ m = "s_wait"
  \/ l = "s_wait" /\ m = "c_dec" /\ start # CR_STATE_RESTORE_SIGCHLD
  \/ l = "c_dec" /\ m = "c_wait"
  \/ l = "c_wait" /\ m = "sigreturn" /\ start # CR_STATE_RESTORE_CREDS
  \/ l = "sigreturn" /\ m \in {"trapped", "run"}

Decrements == {"ns_dec", "pgid", "z_dec", "clone_threads", "t_new",
               "signals", "c_dec"}

\* A proc moves on.
Advance(p, l, m) ==
  /\ (p \in Tasks /\ TaskTurn(p, l, m)) \/ (p \in Threads /\ ThreadTurn(l, m))
  /\ At(p, l) /\ Go(p, m)
  /\ nr_in_progress' = IF l \in Decrements THEN nr_in_progress - 1
                                           ELSE nr_in_progress
  /\ act' = IF l = "resources" THEN [act EXCEPT ![p] = "pie"]
            ELSE IF l = "collect" THEN [act EXCEPT ![p] = "orig"] ELSE act
  /\ blocked' = IF l \in {"collect", "t_new"} THEN blocked \cup {p} ELSE blocked
  /\ creds \subseteq creds' /\ (l = "t_new" => p \in creds')
  /\ mapped' = IF l = "t_wait" THEN mapped \ {p} ELSE mapped
  /\ thread_inprogress' =
       IF p \in Tasks /\ l = "s_wait"
       THEN [thread_inprogress EXCEPT ![p] = Cardinality(ThreadsOf(p)) + 1]
       ELSE IF p \in Threads /\ l = "c_wait"
       THEN [thread_inprogress EXCEPT ![Owner[p]] = @ - 1]
       ELSE thread_inprogress
  /\ UNCHANGED <<cpc, target, start, nr_threads, ppid, sigpend, hpc>>

\* A task forks a child or clones a thread.
Spawn(t, c, m) ==
  /\ \/ c \in Tasks /\ m \in {"prepare", "lost"} /\ pc[t] = "fork_children"
     \/ /\ c \in Threads /\ m \in {"t_new", "lost"}
        /\ Owner[c] = t /\ pc[t] = "clone_threads"
  /\ pc[c] = "unborn" /\ Go(c, m)
  /\ UNCHANGED <<cpc, target, start, nr_in_progress, nr_threads, ppid, sigVars,
                 creds, mapped, thread_inprogress>>

\* A proc gives up, aborting the barrier if it is in the restorer, or ends as
\* it should; its task dies.
Death(p, l, how) ==
  /\ pc[p] = l /\ hpc[p] = "idle" /\ Die(TaskOf(p), how)
  /\ \/ /\ l \in {"restorer", "clone_threads", "signals", "t_new"}
        /\ how = "exit1" /\ nr_in_progress' = -1
     \/ /\ p \in Tasks /\ nr_in_progress' = nr_in_progress
        /\ \/ l = "ns_wait" /\ how = "exit1" /\ start = CR_STATE_FAIL
           \/ l \in {"prepare", "fork_children", "pgid", "resources"} /\ how = "exit1"
           \/ l = "fork_wait" /\ how = "exit1" /\ start = CR_STATE_FAIL
           \/ /\ l = "fork_wait" /\ how = "exit0"
              /\ Kind[p] = "helper" /\ start # CR_STATE_FORKING
           \/ l = "z_wait" /\ how = "zombie" /\ start # CR_STATE_RESTORE
           \/ l = "c_wait" /\ how = "exit1" /\ start # CR_STATE_RESTORE_CREDS
  /\ UNCHANGED <<cpc, target, start, nr_threads, act, blocked, creds, mapped,
                 thread_inprogress>>

\* A handler outside the restorer takes a signal.
Ignore(t) ==
  /\ sigpend[t] # NoSig
  /\ sigpend' = [sigpend EXCEPT ![t] = NoSig]
  /\ nr_in_progress' \in {nr_in_progress, -1}
  /\ UNCHANGED <<cpc, target, start, nr_threads, act, blocked, hpc, taskVars>>

Labels == TaskPcs \cup ThreadPcs

ProcMoves ==
  \/ \E p \in Procs, l \in Labels, m \in Labels : Advance(p, l, m)
  \/ \E t \in Tasks, c \in Procs, m \in Labels : Spawn(t, c, m)
  \/ \E p \in Procs, l \in Labels, how \in EndStates \ {"dying"} : Death(p, l, how)
  \/ \E t \in Tasks \cup {Criu} : Ignore(t)
  \/ \E p \in Procs : PieSigchld(p) \/ PieZombies(p) \/ PieNrThreads(p) \/ PieUnlock(p)

\* Every step of a task has one of these shapes.
LEMMA TaskShape ==
  ASSUME TypeOK, NEW t \in Tasks, TaskStep(t)
  PROVE  ProcMoves
<1> USE DEF criuVars, sharedVars, sigVars, taskVars, Others, Go
<1>0. t \in Procs /\ t \notin Threads /\ TaskOf(t) = t
  BY RestoreAssumption DEF Procs, TaskOf
<1>a. ASSUME NEW l \in Labels, NEW m \in Labels, Advance(t, l, m) PROVE ProcMoves
  BY <1>0, <1>a DEF ProcMoves
<1>d. ASSUME NEW l \in Labels, NEW how \in EndStates \ {"dying"}, Death(t, l, how)
      PROVE  ProcMoves
  BY <1>0, <1>d DEF ProcMoves
<1>f. ASSUME RestorerFail(t), hpc[t] = "idle",
             pc[t] \in {"restorer", "clone_threads", "signals"}
      PROVE  ProcMoves
  <2>1. Death(t, pc[t], "exit1")
    BY <1>0, <1>f DEF RestorerFail, Abort, Death
  <2> QED BY <1>d, <1>f, <2>1 DEF Labels, TaskPcs, EndStates
<1>1. CASE t = Root /\ RootFinishNs
  <2>1. Advance(t, "ns_dec", "ns_wait")
    BY <1>0, <1>1 DEF RootFinishNs, FinishStage, Dec, Advance, TaskTurn,
       Decrements, At
  <2> QED BY <2>1, <1>a, <1>d DEF Labels, TaskPcs, EndStates
<1>2. CASE t = Root /\ RootLeaveNs
  <2>1. Advance(t, "ns_wait", "prepare") \/ Death(t, "ns_wait", "exit1")
    BY <1>0, <1>2 DEF RootLeaveNs, StageOver, TaskExit, Death, Advance,
       TaskTurn, Decrements, At
  <2> QED BY <2>1, <1>a, <1>d DEF Labels, TaskPcs, EndStates
<1>3. CASE TaskPrepare(t)
  <2>1. Advance(t, "prepare", "fork_children") \/ Death(t, "prepare", "exit1")
    BY <1>0, <1>3 DEF TaskPrepare, TaskExit, Death, Advance, TaskTurn,
       Decrements, At
  <2> QED BY <2>1, <1>a, <1>d DEF Labels, TaskPcs, EndStates
<1>4. CASE TaskForkFails(t)
  <2>1. Death(t, "fork_children", "exit1")
    BY <1>0, <1>4 DEF TaskForkFails, TaskExit, Death, At
  <2> QED BY <2>1, <1>a, <1>d DEF Labels, TaskPcs, EndStates
<1>5. CASE TaskFinishForking(t)
  <2>1. Advance(t, "pgid", "fork_wait") \/ Death(t, "pgid", "exit1")
    BY <1>0, <1>5 DEF TaskFinishForking, TaskExit, Death, FinishStage, Dec,
       Advance, TaskTurn, Decrements, At
  <2> QED BY <2>1, <1>a, <1>d DEF Labels, TaskPcs, EndStates
<1>23. CASE TaskUnmapGuards(t)
  <2>1. Advance(t, "fork_children", "pgid") \/ Death(t, "fork_children", "exit1")
    BY <1>0, <1>23 DEF TaskUnmapGuards, TaskExit, Death, Advance, TaskTurn,
       Decrements, At
  <2> QED BY <2>1, <1>a, <1>d DEF Labels, TaskPcs, EndStates
<1>6. CASE \E c \in Tasks : TaskForkChild(t, c)
  <2>1. PICK c \in Tasks : TaskForkChild(t, c)
    BY <1>6
  <2>2. Spawn(t, c, "prepare") \/ Spawn(t, c, "lost")
    BY <2>1 DEF TaskForkChild, Spawn, At
  <2>3. c \in Procs /\ "prepare" \in Labels /\ "lost" \in Labels
    BY DEF Procs, Labels, TaskPcs
  <2> QED BY <2>2, <2>3 DEF ProcMoves
<1>7. CASE TaskLeaveForking(t)
  <2>1. \/ Advance(t, "fork_wait", "z_dec") \/ Advance(t, "fork_wait", "wait_helpers")
        \/ Death(t, "fork_wait", "exit1") \/ Death(t, "fork_wait", "exit0")
    BY <1>0, <1>7, RestoreAssumption DEF TaskLeaveForking, restore_one_task, StageOver,
       TaskExit, Alive, Death, Advance, TaskTurn, Decrements, At
  <2> QED BY <2>1, <1>a, <1>d DEF Labels, TaskPcs, EndStates
<1>8. CASE ZombieFinishRestore(t)
  <2>1. Advance(t, "z_dec", "z_wait")
    BY <1>0, <1>8 DEF ZombieFinishRestore, FinishStage, Dec, Advance,
       TaskTurn, Decrements, At
  <2> QED BY <2>1, <1>a, <1>d DEF Labels, TaskPcs, EndStates
<1>9. CASE ZombieDie(t)
  <2>1. Death(t, "z_wait", "zombie")
    BY <1>0, <1>9 DEF ZombieDie, StageOver, Death, At
  <2> QED BY <2>1, <1>a, <1>d DEF Labels, TaskPcs, EndStates
<1>10. CASE TaskWaitHelpers(t)
  <2>1. Advance(t, "wait_helpers", "resources")
    BY <1>0, <1>10 DEF TaskWaitHelpers, Advance, TaskTurn, Decrements, At
  <2> QED BY <2>1, <1>a, <1>d DEF Labels, TaskPcs, EndStates
<1>11. CASE TaskResources(t)
  <2>1. Advance(t, "resources", "restorer") \/ Death(t, "resources", "exit1")
    BY <1>0, <1>11 DEF TaskResources, TaskExit, Death, Advance, TaskTurn,
       Decrements, At
  <2> QED BY <2>1, <1>a, <1>d DEF Labels, TaskPcs, EndStates
<1>12. CASE TaskRestoreMm(t)
  <2>1. Advance(t, "restorer", "clone_threads") \/ ProcMoves
    BY <1>0, <1>f, <1>12 DEF TaskRestoreMm, Advance, TaskTurn, Decrements,
       At
  <2> QED BY <2>1, <1>a, <1>d DEF Labels, TaskPcs, EndStates
<1>13. CASE \E th \in Threads : TaskCloneThread(t, th)
  BY <1>13 DEF TaskCloneThread, ThreadsOf, ProcMoves, Spawn, At, Procs,
     Labels, ThreadPcs
<1>14. CASE TaskFinishRestore(t)
  <2>1. Advance(t, "clone_threads", "r_wait") \/ ProcMoves
    BY <1>0, <1>f, <1>14 DEF TaskFinishRestore, FinishStage, Dec, Advance,
       TaskTurn, Decrements, At
  <2> QED BY <2>1, <1>a, <1>d DEF Labels, TaskPcs, EndStates
<1>15. CASE TaskLeaveRestore(t)
  <2>1. Advance(t, "r_wait", "collect")
    BY <1>0, <1>15 DEF TaskLeaveRestore, StageOver, Advance, TaskTurn,
       Decrements, At
  <2> QED BY <2>1, <1>a, <1>d DEF Labels, TaskPcs, EndStates
<1>16. CASE TaskCollected(t)
  <2>1. Advance(t, "collect", "signals")
    BY <1>0, <1>16 DEF TaskCollected, BlockSignals, Advance, TaskTurn,
       Decrements, At
  <2> QED BY <2>1, <1>a, <1>d DEF Labels, TaskPcs, EndStates
<1>17. CASE FinishSigchld(t)
  <2>1. Advance(t, "signals", "s_wait") \/ ProcMoves
    BY <1>0, <1>f, <1>17 DEF FinishSigchld, FinishStage, Dec, Advance,
       TaskTurn, Decrements, At
  <2> QED BY <2>1, <1>a, <1>d DEF Labels, TaskPcs, EndStates
<1>18. CASE TaskCreds(t)
  <2>1. Advance(t, "s_wait", "c_dec")
    BY <1>0, <1>18 DEF TaskCreds, restore_creds, StageOver, Advance, TaskTurn, Decrements,
       At
  <2> QED BY <2>1, <1>a, <1>d DEF Labels, TaskPcs, EndStates
<1>19. CASE FinishCreds(t)
  <2>1. Advance(t, "c_dec", "c_wait")
    BY <1>0, <1>19 DEF FinishCreds, FinishStage, Dec, Advance, TaskTurn,
       Decrements, At
  <2> QED BY <2>1, <1>a, <1>d DEF Labels, TaskPcs, EndStates
<1>20. CASE TaskLeaveCreds(t)
  <2>1. Advance(t, "c_wait", "t_wait") \/ Death(t, "c_wait", "exit1")
    BY <1>0, <1>20 DEF TaskLeaveCreds, StageOver, TaskExit, Death, Advance,
       TaskTurn, Decrements, At
  <2> QED BY <2>1, <1>a, <1>d DEF Labels, TaskPcs, EndStates
<1>21. CASE TaskUnmap(t)
  <2>1. Advance(t, "t_wait", "sigreturn")
    BY <1>0, <1>21 DEF TaskUnmap, ThreadsDone, Advance, TaskTurn,
       Decrements, At
  <2> QED BY <2>1, <1>a, <1>d DEF Labels, TaskPcs, EndStates
<1>22. CASE Sigreturn(t)
  <2>1. Advance(t, "sigreturn", "trapped") \/ Advance(t, "sigreturn", "run")
    BY <1>0, <1>22 DEF Sigreturn, Advance, TaskTurn, Decrements, At
  <2> QED BY <2>1, <1>a, <1>d DEF Labels, TaskPcs, EndStates
<1> QED
  BY <1>1, <1>2, <1>3, <1>4, <1>5, <1>6, <1>7, <1>8, <1>9, <1>10, <1>11,
     <1>12, <1>13, <1>14, <1>15, <1>16, <1>17, <1>18, <1>19, <1>20, <1>21,
     <1>22, <1>23 DEF TaskStep

\* Every step of a thread has one of these shapes.
LEMMA ThreadShape ==
  ASSUME TypeOK, NEW th \in Threads, ThreadStep(th)
  PROVE  ProcMoves
<1> USE DEF criuVars, sharedVars, sigVars, taskVars, Others, Go
<1>0. th \in Procs /\ th \notin Tasks
  BY RestoreAssumption DEF Procs
<1>a. ASSUME NEW l \in Labels, NEW m \in Labels, Advance(th, l, m) PROVE ProcMoves
  BY <1>0, <1>a DEF ProcMoves
<1>f. ASSUME RestorerFail(th), hpc[th] = "idle", pc[th] \in {"t_new", "signals"}
      PROVE  ProcMoves
  <2>1. Death(th, pc[th], "exit1")
    BY <1>f DEF RestorerFail, Abort, Death
  <2>2. pc[th] \in Labels /\ "exit1" \in EndStates \ {"dying"}
    BY <1>f DEF Labels, ThreadPcs, EndStates
  <2> QED BY <1>0, <2>1, <2>2 DEF ProcMoves
<1>1. CASE ThreadStart(th)
  <2>1. Advance(th, "t_new", "r_wait") \/ ProcMoves
    BY <1>0, <1>1, <1>f DEF ThreadStart, FinishStage, Dec, BlockSignals,
       Advance, ThreadTurn, Decrements, At
  <2> QED BY <2>1, <1>a DEF Labels, ThreadPcs
<1>2. CASE ThreadLeaveRestore(th)
  <2>1. Advance(th, "r_wait", "signals")
    BY <1>0, <1>2 DEF ThreadLeaveRestore, StageOver, Advance, ThreadTurn,
       Decrements, At
  <2> QED BY <2>1, <1>a DEF Labels, ThreadPcs
<1>3. CASE FinishSigchld(th)
  <2>1. Advance(th, "signals", "s_wait") \/ ProcMoves
    BY <1>0, <1>3, <1>f DEF FinishSigchld, FinishStage, Dec, Advance,
       ThreadTurn, Decrements, At
  <2> QED BY <2>1, <1>a DEF Labels, ThreadPcs
<1>4. CASE ThreadLeaveSigchld(th)
  <2>1. Advance(th, "s_wait", "c_dec")
    BY <1>0, <1>4 DEF ThreadLeaveSigchld, StageOver, Advance, ThreadTurn,
       Decrements, At
  <2> QED BY <2>1, <1>a DEF Labels, ThreadPcs
<1>5. CASE FinishCreds(th)
  <2>1. Advance(th, "c_dec", "c_wait")
    BY <1>0, <1>5 DEF FinishCreds, FinishStage, Dec, Advance, ThreadTurn,
       Decrements, At
  <2> QED BY <2>1, <1>a DEF Labels, ThreadPcs
<1>6. CASE ThreadLeaveCreds(th)
  <2>1. Advance(th, "c_wait", "sigreturn")
    BY <1>0, <1>6 DEF ThreadLeaveCreds, StageOver, Advance, ThreadTurn,
       Decrements, At
  <2> QED BY <2>1, <1>a DEF Labels, ThreadPcs
<1>7. CASE Sigreturn(th)
  <2>1. Advance(th, "sigreturn", "trapped") \/ Advance(th, "sigreturn", "run")
    BY <1>0, <1>7 DEF Sigreturn, Advance, ThreadTurn, Decrements, At
  <2> QED BY <2>1, <1>a DEF Labels, ThreadPcs
<1> QED
  BY <1>1, <1>2, <1>3, <1>4, <1>5, <1>6, <1>7 DEF ThreadStep

\* Every step is one of criu's own, one of these shapes, or changes nothing.
LEMMA StepShape ==
  ASSUME ProcInv, [Next]_vars
  PROVE  CriuStep \/ ProcMoves \/ UNCHANGED vars
<1>1. TypeOK /\ TaskInv
  BY DEF ProcInv
<1>2. ASSUME NEW p \in Procs, HandlerStep(p) PROVE ProcMoves
  <2>1. CASE p \in Tasks /\ TaskSigchld(p)
    BY <2>1 DEF TaskSigchld, TakeSig, Abort, ProcMoves, Ignore, criuVars, taskVars
  <2>2. CASE PieSigchld(p) \/ PieZombies(p) \/ PieNrThreads(p) \/ PieUnlock(p)
    BY <2>2 DEF ProcMoves
  <2> QED BY <1>2, <2>1, <2>2 DEF HandlerStep
<1>3. CASE CriuSigchld
  <2>1. Ignore(Criu)
    BY <1>3 DEF CriuSigchld, TakeSig, Abort, Ignore, criuVars, taskVars
  <2> QED BY <2>1 DEF ProcMoves
<1>4. ~PidNsZap
  BY <1>1, RestoreAssumption DEF TaskInv, PidNsZap
<1>5. CASE Finished
  BY <1>5 DEF Finished
<1> QED BY <1>1, <1>2, <1>3, <1>4, <1>5, TaskShape, ThreadShape DEF Next

\* The steps of criu that touch the procs.
LEMMA CriuShape ==
  ASSUME CriuStep
  PROVE  \/ CriuForkRoot \/ CriuFinalize \/ CriuKill
         \/ UNCHANGED <<sigVars, taskVars>>
BY DEF CriuStep, CriuWaitInProgress, CriuRunScripts, CriuSetNr, CriuSetStart,
   CriuUnlockNetwork, CriuAttach, CriuComplete, CriuStopOnSyscall, CriuFailNr,
   CriuFailStart, sigVars, taskVars

\* What a death does when there is no pid namespace to take along.
LEMMA DeathEffect ==
  ASSUME ~NewPid, NEW t \in Tasks, NEW how, Die(t, how)
  PROVE  /\ pc' = [p \in Procs |-> IF p = t THEN how
                     ELSE IF p \in ThreadsOf(t) THEN "killed" ELSE pc[p]]
         /\ hpc' = [p \in Procs |-> IF TaskOf(p) = t THEN "idle" ELSE hpc[p]]
         /\ ppid' = [c \in Tasks |-> IF ppid[c] = t THEN Outside ELSE ppid[c]]
         /\ sigpend' = Raise(t)
BY DEF Die, IsInit, Reaper

\* The restorer's handler runs in a task that is in the restorer.
LEMMA PieRuns ==
  ASSUME TypeOK, TaskInv, ThreadInv, NEW p \in Procs, PieSigchld(p)
  PROVE  TaskOf(p) \in Tasks /\ pc[TaskOf(p)] \in InRestorer
<1>1. TaskOf(p) \in Tasks
  BY TaskOfType
<1>2. pc[TaskOf(p)] \in InRestorer
  BY <1>1, RestoreAssumption DEF PieSigchld, TaskOf, TaskInv, ThreadInv, TaskPcs,
     Running, Gone, Unborn, Procs, InProgram, InRestorer, InBlocked, EndStates
<1> QED BY <1>1, <1>2

LEMMA TaskInvStep ==
  ASSUME ~NewPid, RestoreInv, CriuStep \/ ProcMoves \/ UNCHANGED vars
  PROVE  TaskInv'
<1>0. /\ TypeOK /\ TaskInv /\ ThreadInv
      /\ cpc = "fork" => \A p \in Procs : pc[p] = "unborn"
  BY DEF RestoreInv, ProcInv, CountInv, CaughtUp
<1> USE <1>0, RestoreAssumption DEF Procs
<1>1. CASE CriuForkRoot
  BY <1>1 DEF CriuForkRoot, Go, sigVars, TypeOK, TaskInv, TaskPcs, InProgram, InRestorer, InBlocked, EndStates, Alive
<1>2. CASE CriuFinalize
  BY <1>2 DEF CriuFinalize, sigVars, TypeOK, TaskInv, TaskPcs, InProgram, InRestorer, InBlocked, EndStates, Alive
<1>3. CASE CriuKill
  BY <1>3 DEF CriuKill, IsInit, TypeOK, TaskInv, TaskPcs, InProgram, InRestorer, InBlocked, EndStates, Alive
<1>4. CASE UNCHANGED <<sigVars, taskVars>>
  BY <1>4 DEF sigVars, taskVars, TaskInv
<1>5. ASSUME NEW p \in Procs, NEW l, NEW m, Advance(p, l, m) PROVE TaskInv'
  <2>1. CASE p \in Tasks
    BY <1>5, <2>1 DEF Advance, TaskTurn, Go, At, TypeOK, TaskInv, TaskPcs, InProgram, InRestorer, InBlocked, EndStates, Alive
  <2>2. CASE p \in Threads
    BY <1>5, <2>2 DEF Advance, ThreadTurn, Go, At, TypeOK, TaskInv, TaskPcs, InProgram, InRestorer, InBlocked, EndStates, Alive
  <2> QED BY <2>1, <2>2
<1>6. ASSUME NEW t \in Tasks, NEW c \in Procs, NEW m, Spawn(t, c, m)
      PROVE  TaskInv'
  BY <1>6 DEF Spawn, Go, sigVars, TypeOK, TaskInv, TaskPcs, InProgram, InRestorer, InBlocked, EndStates, Alive
<1>7. ASSUME NEW p \in Procs, NEW l, NEW how \in EndStates \ {"dying"}, Death(p, l, how)
      PROVE  TaskInv'
  <2>1. TaskOf(p) \in Tasks
    BY TaskOfType
  <2>2. \A t \in Tasks : pc'[t] = IF t = TaskOf(p) THEN how ELSE pc[t]
    BY <1>7, <2>1, DeathEffect DEF Death, ThreadsOf
  <2>3. how = "zombie" => Kind[TaskOf(p)] = "dead"
    BY <1>7 DEF Death, TaskOf, TaskInv
  <2> QED BY <1>7, <2>2, <2>3 DEF Death, TaskInv, TaskPcs, InProgram, InRestorer, InBlocked, EndStates, Alive
<1>8. ASSUME NEW t \in Tasks \cup {Criu}, Ignore(t) PROVE TaskInv'
  BY <1>8 DEF Ignore, taskVars, TaskInv
<1>9. ASSUME NEW p \in Procs, PieSigchld(p) PROVE TaskInv'
  <2>1. TaskOf(p) \in Tasks /\ pc[TaskOf(p)] \in InRestorer
    BY <1>9, PieRuns
  <2>3. CASE start = CR_STATE_RESTORE_SIGCHLD
    BY <1>9, <2>3 DEF PieSigchld, TaskInv
  <2>4. CASE start # CR_STATE_RESTORE_SIGCHLD
    BY <1>9, <2>1, <2>4 DEF PieSigchld, TaskOf, TypeOK, TaskInv, TaskPcs, InProgram, InRestorer, InBlocked, EndStates, Alive
  <2> QED BY <2>3, <2>4
<1>10. ASSUME NEW p \in Procs, PieZombies(p) \/ PieNrThreads(p) \/ PieUnlock(p)
       PROVE  TaskInv'
  BY <1>10 DEF PieZombies, PieNrThreads, PieUnlock, taskVars, TaskInv
<1>11. CASE UNCHANGED vars
  BY <1>11 DEF vars, sigVars, taskVars, TaskInv
<1> QED
  BY <1>1, <1>2, <1>3, <1>4, <1>5, <1>6, <1>7, <1>8, <1>9, <1>10, <1>11,
     CriuShape DEF ProcMoves

LEMMA ThreadInvStep ==
  ASSUME ~NewPid, RestoreInv, CriuStep \/ ProcMoves \/ UNCHANGED vars
  PROVE  ThreadInv'
<1>0. /\ TypeOK /\ TaskInv /\ ThreadInv
      /\ cpc = "fork" => \A p \in Procs : pc[p] = "unborn"
  BY DEF RestoreInv, ProcInv, CountInv, CaughtUp
<1> USE <1>0, RestoreAssumption DEF Procs, Gone, Unborn, EndStates
<1>1. CASE CriuForkRoot
  BY <1>1 DEF CriuForkRoot, Go, sigVars, TypeOK, ThreadInv, ThreadPcs, InProgram
<1>2. CASE CriuFinalize
  BY <1>2 DEF CriuFinalize, sigVars, TypeOK, ThreadInv, ThreadPcs, InProgram
<1>3. CASE CriuKill
  BY <1>3 DEF CriuKill, IsInit, OutKill, TypeOK, ThreadInv, ThreadPcs, InProgram
<1>4. CASE UNCHANGED <<sigVars, taskVars>>
  BY <1>4 DEF sigVars, taskVars, ThreadInv
<1>5. ASSUME NEW p \in Procs, NEW l, NEW m, Advance(p, l, m) PROVE ThreadInv'
  <2>1. CASE p \in Tasks
    BY <1>5, <2>1 DEF Advance, TaskTurn, Go, At, TypeOK, ThreadInv, InProgram
  <2>2. CASE p \in Threads
    BY <1>5, <2>2 DEF Advance, ThreadTurn, Go, At, TypeOK, ThreadInv, ThreadPcs,
       InProgram
  <2> QED BY <2>1, <2>2
<1>6. ASSUME NEW t \in Tasks, NEW c \in Procs, NEW m, Spawn(t, c, m)
      PROVE  ThreadInv'
  BY <1>6 DEF Spawn, Go, sigVars, TypeOK, ThreadInv, ThreadPcs, InProgram
<1>7. ASSUME NEW p \in Procs, NEW l, NEW how \in EndStates \ {"dying"}, Death(p, l, how)
      PROVE  ThreadInv'
  <2>1. TaskOf(p) \in Tasks
    BY TaskOfType
  <2>2. /\ \A t \in Tasks : pc'[t] = IF t = TaskOf(p) THEN how ELSE pc[t]
        /\ \A th \in Threads :
             pc'[th] = IF Owner[th] = TaskOf(p) THEN "killed" ELSE pc[th]
    BY <1>7, <2>1, DeathEffect DEF Death, ThreadsOf
  <2> QED BY <1>7, <2>2 DEF Death, ThreadInv, ThreadPcs, InProgram
<1>8. ASSUME NEW t \in Tasks \cup {Criu}, Ignore(t) PROVE ThreadInv'
  BY <1>8 DEF Ignore, taskVars, ThreadInv
<1>9. ASSUME NEW p \in Procs, PieSigchld(p) PROVE ThreadInv'
  <2>1. CASE start = CR_STATE_RESTORE_SIGCHLD
    BY <1>9, <2>1 DEF PieSigchld, ThreadInv
  <2>2. CASE start # CR_STATE_RESTORE_SIGCHLD
    BY <1>9, <2>2, PieRuns DEF PieSigchld, TaskOf, TypeOK, ThreadInv, ThreadPcs,
       InProgram
  <2> QED BY <2>1, <2>2
<1>10. ASSUME NEW p \in Procs, PieZombies(p) \/ PieNrThreads(p) \/ PieUnlock(p)
       PROVE  ThreadInv'
  BY <1>10 DEF PieZombies, PieNrThreads, PieUnlock, taskVars, ThreadInv
<1>11. CASE UNCHANGED vars
  BY <1>11 DEF vars, sigVars, taskVars, ThreadInv
<1> QED
  BY <1>1, <1>2, <1>3, <1>4, <1>5, <1>6, <1>7, <1>8, <1>9, <1>10, <1>11,
     CriuShape DEF ProcMoves

\* Nobody comes back from the dead.
LEMMA GoneStays ==
  ASSUME ~NewPid, RestoreInv, CriuStep \/ ProcMoves \/ UNCHANGED vars,
         NEW q \in Procs, Gone(q)
  PROVE  Gone(q)'
<1>0. /\ TypeOK /\ TaskInv /\ ThreadInv
      /\ cpc = "fork" => \A p \in Procs : pc[p] = "unborn"
  BY DEF RestoreInv, ProcInv, CountInv, CaughtUp
<1> USE <1>0, RestoreAssumption DEF Procs, Gone, EndStates, TypeOK
<1>1. CASE CriuForkRoot \/ CriuFinalize \/ CriuKill
  BY <1>1 DEF CriuForkRoot, Go, CriuFinalize, CriuKill
<1>2. CASE UNCHANGED <<sigVars, taskVars>>
  BY <1>2 DEF taskVars
<1>3. ASSUME NEW p \in Procs, NEW l, NEW m, Advance(p, l, m) PROVE Gone(q)'
  BY <1>3 DEF Advance, TaskTurn, ThreadTurn, Go, At
<1>4. ASSUME NEW t \in Tasks, NEW c \in Procs, NEW m, Spawn(t, c, m) PROVE Gone(q)'
  BY <1>4 DEF Spawn, Go
<1>5. ASSUME NEW p \in Procs, NEW l, NEW how \in EndStates \ {"dying"}, Death(p, l, how)
      PROVE  Gone(q)'
  BY <1>5, TaskOfType, DeathEffect DEF Death
<1>6. ASSUME NEW p \in Procs, PieSigchld(p) PROVE Gone(q)'
  BY <1>6 DEF PieSigchld, Unborn
<1>7. CASE \/ \E t \in Tasks \cup {Criu} : Ignore(t)
           \/ \E p \in Procs : PieZombies(p) \/ PieNrThreads(p) \/ PieUnlock(p)
           \/ UNCHANGED vars
  BY <1>7 DEF Ignore, PieZombies, PieNrThreads, PieUnlock, vars, taskVars
<1> QED
  BY <1>1, <1>2, <1>3, <1>4, <1>5, <1>6, <1>7, CriuShape DEF ProcMoves

LEMMA SigInvStep ==
  ASSUME ~NewPid, RestoreInv, CriuStep \/ ProcMoves \/ UNCHANGED vars
  PROVE  SigInv'
<1>0. /\ TypeOK /\ TaskInv /\ ThreadInv /\ SigInv /\ CaughtUp
      /\ \A q \in Procs : Gone(q) => Gone(q)'
  BY GoneStays DEF RestoreInv, ProcInv, CountInv
<1> USE <1>0, RestoreAssumption DEF Procs, Children
\* SigInv is kept by a step that raises no signal, changes no disposition and
\* lets nobody reach "resources".
<1>1. ASSUME ppid' = ppid, act' = act,
             \A t \in Tasks \cup {Criu} : sigpend'[t] \in {sigpend[t], NoSig},
             \A t \in Tasks : pc'[t] = "resources" => pc[t] = "resources"
      PROVE  SigInv'
  BY <1>1 DEF SigInv, TypeOK
\* ... and by one in which a child dies and its parent is told.
<1>2. ASSUME NEW c \in Tasks, act' = act,
             \A t \in Tasks : pc'[t] = "resources" => pc[t] = "resources",
             \A d \in Tasks : ppid'[d] \in {ppid[d], Outside},
             sigpend' = Raise(c), Gone(c)', ~Gone(c) \/ c = Root
      PROVE  SigInv'
  <2>1. \A t \in Tasks \cup {Criu} :
          sigpend'[t] \in {sigpend[t], NoSig} \/ (sigpend'[t] = c /\ ppid[c] = t)
    BY <1>2 DEF Raise, TypeOK
  <2>2. \A t \in Tasks \cup {Criu} :
          sigpend'[t] # NoSig => Gone(sigpend[t])' /\ ParentOf[sigpend'[t]] = t
    BY <1>2, <2>1 DEF SigInv, TypeOK, Gone
  <2>3. \A t \in Tasks : act'[t] = "pie" /\ sigpend'[t] # NoSig =>
          Kind[sigpend'[t]] # "helper"
    BY <1>2, <2>1 DEF SigInv, TypeOK
  <2>4. \A d \in Tasks : ppid'[d] \in {ParentOf[d], Outside}
    BY <1>2 DEF SigInv
  <2>5. \A t \in Tasks : act'[t] # "restore" \/ pc'[t] = "resources" =>
          \A d \in Children(t) : Kind[d] = "helper" => Gone(d)'
    BY <1>2 DEF SigInv
  <2> QED BY <2>2, <2>3, <2>4, <2>5 DEF SigInv, Gone
<1>3. CASE CriuForkRoot \/ CriuFinalize
  BY <1>1, <1>3 DEF CriuForkRoot, CriuFinalize, Go, sigVars, TypeOK
<1>4. CASE CriuKill
  <2>1. Gone(Root)'
    BY <1>4 DEF CriuKill, OutKill, IsInit, Gone, Unborn, EndStates, TypeOK, CaughtUp,
       BeforeForked, TaskInv, TaskPcs, CR_STATE_RESTORE
  <2>2. \A t \in Tasks : pc'[t] = "resources" => pc[t] = "resources"
    BY <1>4 DEF CriuKill, TypeOK
  <2> QED BY <1>2, <1>4, <2>1, <2>2 DEF CriuKill
<1>5. CASE UNCHANGED <<sigVars, taskVars>> \/ UNCHANGED vars
  BY <1>1, <1>5 DEF vars, sigVars, taskVars
<1>6. ASSUME NEW p \in Procs, NEW l, NEW m, Advance(p, l, m) PROVE SigInv'
  <2>1. CASE l \notin {"wait_helpers", "resources", "collect"}
    BY <1>1, <1>6, <2>1 DEF Advance, TaskTurn, ThreadTurn, Go, At, TypeOK
  <2>2. CASE l \in {"wait_helpers", "resources", "collect"}
    <3>1. p \in Tasks /\ TaskTurn(p, l, m) /\ pc[p] = l
      BY <1>6, <2>2 DEF Advance, ThreadTurn, At
    <3>2. l = "resources" => sigpend[p] = NoSig
      BY <1>6, <3>1 DEF Advance, At, TaskInv, InProgram
    <3>3. \A t \in Tasks :
            act'[t] # "restore" \/ pc'[t] = "resources" =>
              \/ act[t] # "restore" \/ pc[t] = "resources"
              \/ \A c \in Children(t) : Kind[c] = "helper" => Gone(c)
      BY <1>6, <3>1 DEF Advance, TaskTurn, Go, TypeOK, TaskInv, InRestorer
    <3>4. \A t \in Tasks : act'[t] = "pie" /\ sigpend[t] # NoSig => act[t] = "pie"
      BY <1>6, <3>1, <3>2 DEF Advance, TypeOK
    <3>5. ppid' = ppid /\ sigpend' = sigpend
      BY <1>6 DEF Advance
    <3> QED BY <3>3, <3>4, <3>5 DEF SigInv, TypeOK
  <2> QED BY <2>1, <2>2
<1>7. ASSUME NEW t \in Tasks, NEW c \in Procs, NEW m, Spawn(t, c, m) PROVE SigInv'
  BY <1>1, <1>7 DEF Spawn, Go, sigVars, TypeOK
<1>8. ASSUME NEW p \in Procs, NEW l, NEW how \in EndStates \ {"dying"}, Death(p, l, how)
      PROVE  SigInv'
  <2>1. TaskOf(p) \in Tasks
    BY TaskOfType
  <2>2. ~Gone(TaskOf(p))
    BY <1>8 DEF Death, TaskOf, ThreadInv, Gone, Unborn, EndStates
  <2>3. /\ \A t \in Tasks : pc'[t] = IF t = TaskOf(p) THEN how ELSE pc[t]
        /\ \A d \in Tasks : ppid'[d] \in {ppid[d], Outside}
        /\ sigpend' = Raise(TaskOf(p))
    BY <1>8, <2>1, DeathEffect DEF Death, ThreadsOf
  <2>4. Gone(TaskOf(p))' /\ act' = act
    BY <1>8, <2>1, <2>3 DEF Gone, Death
  <2> QED BY <1>2, <2>1, <2>2, <2>3, <2>4 DEF EndStates
<1>9. ASSUME NEW t \in Tasks \cup {Criu}, Ignore(t) PROVE SigInv'
  BY <1>1, <1>9 DEF Ignore, taskVars, TypeOK
<1>10. ASSUME NEW p \in Procs, PieSigchld(p) PROVE SigInv'
  <2>1. /\ ppid' = ppid /\ act' = act
        /\ \A t \in Tasks \cup {Criu} : sigpend'[t] \in {sigpend[t], NoSig}
    BY <1>10, PieRuns DEF PieSigchld, TakeSig, TypeOK
  <2>2. \A t \in Tasks : pc'[t] = "resources" => pc[t] = "resources"
    BY <1>10 DEF PieSigchld, TypeOK
  <2> QED BY <1>1, <2>1, <2>2
<1>11. ASSUME NEW p \in Procs, PieZombies(p) \/ PieNrThreads(p) \/ PieUnlock(p)
       PROVE  SigInv'
  BY <1>1, <1>11 DEF PieZombies, PieNrThreads, PieUnlock, taskVars
<1> QED
  BY <1>3, <1>4, <1>5, <1>6, <1>7, <1>8, <1>9, <1>10, <1>11, CriuShape DEF ProcMoves

\* The sets of labels before a barrier are left in one direction only.
LEMMA NobodyFallsBack ==
  ASSUME ~NewPid, RestoreInv, ProcMoves \/ CriuFinalize \/ CriuKill,
         NEW q \in Procs
  PROVE  /\ pc'[q] \in {"unborn", "lost", "ns_dec"} =>
              pc[q] \in {"unborn", "lost", "ns_dec"}
         /\ pc'[q] \in BeforeForked  => pc[q] \in BeforeForked
         /\ pc'[q] \in BeforeRestore => pc[q] \in BeforeRestore
         /\ pc'[q] \in BeforeSigchld => pc[q] \in BeforeSigchld
         /\ pc'[q] \in BeforeCreds   => pc[q] \in BeforeCreds
<1>0. TypeOK
  BY DEF RestoreInv, ProcInv
<1> USE <1>0 DEF TypeOK, BeforeForked, BeforeRestore, BeforeSigchld, BeforeCreds
<1>1. CASE CriuFinalize \/ CriuKill
  BY <1>1 DEF CriuFinalize, CriuKill, IsInit
<1>2. ASSUME NEW p \in Procs, NEW l, NEW m, Advance(p, l, m),
             pc'[q] # pc[q]
      PROVE  pc[q] = l /\ pc'[q] = m /\ (TaskTurn(p, l, m) \/ ThreadTurn(l, m))
  BY <1>2 DEF Advance, Go, At
<1>3. ASSUME NEW p \in Procs, NEW l, NEW m, Advance(p, l, m)
      PROVE  \/ pc'[q] = pc[q]
             \/ pc[q] = l /\ pc'[q] = m /\ (TaskTurn(p, l, m) \/ ThreadTurn(l, m))
  BY <1>2, <1>3
<1>4. ASSUME NEW t \in Tasks, NEW c \in Procs, NEW m, Spawn(t, c, m)
      PROVE  pc'[q] = pc[q] \/ (pc[q] = "unborn" /\ pc'[q] \in {"prepare", "t_new", "lost"}
                                 /\ (q \in Tasks => pc'[q] \in {"prepare", "lost"}))
  BY <1>4, RestoreAssumption DEF Spawn, Go
<1>5. ASSUME NEW p \in Procs, NEW l, NEW how \in EndStates \ {"dying"}, Death(p, l, how)
      PROVE  pc'[q] \in {pc[q], how, "killed"}
  BY <1>5, TaskOfType, DeathEffect DEF Death
<1>6. ASSUME NEW p \in Procs, PieSigchld(p) PROVE pc'[q] \in {pc[q], "stopped"}
  BY <1>6 DEF PieSigchld
<1>7. CASE \/ \E t \in Tasks \cup {Criu} : Ignore(t)
           \/ \E p \in Procs : PieZombies(p) \/ PieNrThreads(p) \/ PieUnlock(p)
  BY <1>7 DEF Ignore, PieZombies, PieNrThreads, PieUnlock, taskVars
<1>8. CASE \E p \in Procs, l \in Labels, m \in Labels : Advance(p, l, m)
  BY <1>3, <1>8 DEF TaskTurn, ThreadTurn
<1>9. CASE \E p \in Procs, l \in Labels, how \in EndStates \ {"dying"} : Death(p, l, how)
  BY <1>5, <1>9 DEF EndStates
<1>10. CASE \E t \in Tasks, c \in Procs, m \in Labels : Spawn(t, c, m)
  BY <1>4, <1>10
<1>11. CASE \E p \in Procs : PieSigchld(p)
  BY <1>6, <1>11
<1> QED BY <1>1, <1>7, <1>8, <1>9, <1>10, <1>11 DEF ProcMoves

\* Tasks, threads and handlers leave criu's variables alone, and only run when
\* criu has forked.
LEMMA ProcFrame ==
  ASSUME ~NewPid, RestoreInv, ProcMoves
  PROVE  UNCHANGED <<start, cpc, target>> /\ cpc # "fork"
<1>0. /\ TypeOK /\ SigInv /\ HandlerInv
      /\ cpc = "fork" => \A p \in Procs : pc[p] = "unborn"
  BY DEF RestoreInv, ProcInv, CountInv, CaughtUp
<1>1. ASSUME NEW p \in Procs, pc[p] # "unborn" PROVE cpc # "fork"
  BY <1>0, <1>1
<1>2. ASSUME NEW p \in Procs, NEW l, NEW m, Advance(p, l, m)
      PROVE  UNCHANGED <<start, cpc, target>> /\ cpc # "fork"
  BY <1>1, <1>2 DEF Advance, At, TaskTurn, ThreadTurn
<1>3. ASSUME NEW t \in Tasks, NEW c \in Procs, NEW m, Spawn(t, c, m)
      PROVE  UNCHANGED <<start, cpc, target>> /\ cpc # "fork"
  BY <1>1, <1>3 DEF Spawn, Procs
<1>4. ASSUME NEW p \in Procs, NEW l, NEW how \in EndStates \ {"dying"}, Death(p, l, how)
      PROVE  UNCHANGED <<start, cpc, target>> /\ cpc # "fork"
  BY <1>1, <1>4 DEF Death
<1>5. ASSUME NEW p \in Procs, PieSigchld(p)
      PROVE  UNCHANGED <<start, cpc, target>> /\ cpc # "fork"
  BY <1>1, <1>5 DEF PieSigchld, Running, Unborn, criuVars
<1>6. ASSUME NEW t \in Tasks \cup {Criu}, Ignore(t)
      PROVE  UNCHANGED <<start, cpc, target>> /\ cpc # "fork"
  <2>1. sigpend[t] \in Procs /\ Gone(sigpend[t])
    BY <1>0, <1>6 DEF Ignore, SigInv, TypeOK, Procs
  <2> QED BY <1>1, <1>6, <2>1 DEF Ignore, Gone, EndStates
<1>7. ASSUME NEW p \in Procs, PieZombies(p) \/ PieNrThreads(p) \/ PieUnlock(p)
      PROVE  UNCHANGED <<start, cpc, target>> /\ cpc # "fork"
  <2>1. pc[p] # "unborn"
    BY <1>0, <1>7 DEF PieZombies, PieNrThreads, PieUnlock, HandlerInv
  <2> QED BY <1>1, <1>7, <2>1 DEF PieZombies, PieNrThreads, PieUnlock, criuVars, sharedVars
<1> QED BY <1>2, <1>3, <1>4, <1>5, <1>6, <1>7 DEF ProcMoves

\* When everybody has finished a stage, nobody is behind the next one.
LEMMA FinishedCatchesUp ==
  ASSUME AllFinished, start \in 0 .. 4
  PROVE  /\ start = CR_STATE_RESTORE_NS => pc[Root] = "ns_wait"
         /\ start = CR_STATE_FORKING => \A t \in Tasks : pc[t] = "fork_wait"
         /\ start = CR_STATE_RESTORE =>
              \A p \in Counted : pc[p] \in {"z_wait", "r_wait"}
         /\ start = CR_STATE_RESTORE_SIGCHLD =>
              \A p \in Counted : pc[p] \in {"zombie", "s_wait"}
         /\ start = CR_STATE_RESTORE_CREDS =>
              \A p \in Counted : pc[p] \in {"zombie", "c_wait"}
<1> USE DEF CR_STATE_RESTORE_NS, CR_STATE_FORKING, CR_STATE_RESTORE,
        CR_STATE_RESTORE_SIGCHLD, CR_STATE_RESTORE_CREDS
<1>1. CASE start = CR_STATE_RESTORE_NS
  BY <1>1 DEF AllFinished, Participants, Finished_
<1>2. CASE start = CR_STATE_FORKING
  BY <1>2 DEF AllFinished, Participants, Finished_
<1>3. ASSUME start \in 2 .. 4, NEW p \in Counted
      PROVE  Finished_(start, p)
  BY <1>3 DEF AllFinished, Participants, Counted
<1>4. CASE start = CR_STATE_RESTORE
  BY <1>3, <1>4 DEF Finished_
<1>5. CASE start = CR_STATE_RESTORE_SIGCHLD
  BY <1>3, <1>5 DEF Finished_
<1>6. CASE start = CR_STATE_RESTORE_CREDS
  BY <1>3, <1>6 DEF Finished_
<1> QED BY <1>1, <1>2, <1>4, <1>5, <1>6

LEMMA CaughtUpStep ==
  ASSUME ~NewPid, RestoreInv, CriuStep \/ ProcMoves \/ UNCHANGED vars
  PROVE  CaughtUp'
<1>0. TypeOK /\ StageInv /\ TaskInv /\ CaughtUp /\ BarrierInv
  BY DEF RestoreInv, ProcInv, CountInv
<1> USE DEF CR_STATE_FAIL, CR_STATE_RESTORE_NS, CR_STATE_FORKING, CR_STATE_RESTORE,
        CR_STATE_RESTORE_SIGCHLD, CR_STATE_RESTORE_CREDS, CR_STATE_COMPLETE
<1>1. Root \in Procs /\ Tasks \subseteq Procs /\ Counted \subseteq Procs
  BY RestoreAssumption DEF Procs, Counted
<1>2. CASE ProcMoves
  BY <1>0, <1>1, <1>2, ProcFrame, NobodyFallsBack DEF CaughtUp
<1>3. CASE CriuForkRoot
  BY <1>0, <1>3, RestoreAssumption DEF CriuForkRoot, sharedVars, StageInv, CriuInStage,
     CaughtUp
<1>4. CASE CriuFinalize \/ CriuKill
  <2>1. start' = start /\ cpc' \notin {"fork", "kill"}
    BY <1>4 DEF CriuFinalize, CriuKill, sharedVars
  <2> QED BY <1>0, <1>1, <1>4, <2>1, NobodyFallsBack DEF CaughtUp
<1>5. CASE CriuWaitInProgress
  BY <1>0, <1>5 DEF CriuWaitInProgress, StageSucceeded, StageFailed, sharedVars,
     taskVars, StageInv, CriuInStage, CaughtUp
<1>6. CASE CriuSetStart \/ CriuComplete
  <2>1. AllFinished /\ start \in 0 .. 4 /\ start' = start + 1 /\ pc' = pc
          /\ cpc' \notin {"fork", "kill"}
    BY <1>0, <1>6 DEF CriuSetStart, CriuComplete, taskVars, BarrierInv, StageInv,
       CriuInStage, TypeOK
  <2>2. start' >= CR_STATE_FORKING => pc[Root] \notin {"unborn", "lost", "ns_dec"}
    BY <1>0, <2>1, FinishedCatchesUp DEF CaughtUp, TypeOK
  <2>3. start' >= CR_STATE_RESTORE => \A t \in Tasks : pc[t] \notin BeforeForked
    BY <1>0, <2>1, FinishedCatchesUp DEF CaughtUp, BeforeForked
  <2>4. start' >= CR_STATE_RESTORE_SIGCHLD =>
          \A p \in Counted : pc[p] \notin BeforeRestore
    BY <1>0, <2>1, FinishedCatchesUp DEF CaughtUp, BeforeForked, BeforeRestore
  <2>5. start' >= CR_STATE_RESTORE_CREDS =>
          \A p \in Counted : pc[p] \notin BeforeSigchld
    BY <1>0, <2>1, FinishedCatchesUp DEF CaughtUp, BeforeForked, BeforeRestore,
       BeforeSigchld
  <2>6. start' >= CR_STATE_COMPLETE => \A p \in Counted : pc[p] \notin BeforeCreds
    BY <1>0, <2>1, FinishedCatchesUp DEF CaughtUp, BeforeForked, BeforeRestore,
       BeforeSigchld, BeforeCreds
  <2> QED BY <2>1, <2>2, <2>3, <2>4, <2>5, <2>6 DEF CaughtUp
<1>7. CASE CriuUnlockNetwork
  BY <1>0, <1>7 DEF CriuUnlockNetwork, sharedVars, taskVars, StageInv, CriuInStage,
     CaughtUp
<1>8. CASE CriuRunScripts \/ CriuSetNr \/ CriuAttach \/ CriuStopOnSyscall \/ CriuFailNr
  BY <1>0, <1>8 DEF CriuRunScripts, CriuSetNr, CriuAttach, CriuStopOnSyscall,
     CriuFailNr, sharedVars, taskVars, CaughtUp
<1>9. CASE CriuFailStart
  BY <1>0, <1>9 DEF CriuFailStart, taskVars, CaughtUp
<1>10. CASE UNCHANGED vars
  BY <1>0, <1>10 DEF vars, criuVars, sharedVars, taskVars, CaughtUp
<1> QED
  BY <1>2, <1>3, <1>4, <1>5, <1>6, <1>7, <1>8, <1>9, <1>10 DEF CriuStep

LEMMA HandlerInvStep ==
  ASSUME ~NewPid, RestoreInv, CriuStep \/ ProcMoves \/ UNCHANGED vars
  PROVE  HandlerInv'
<1>0. /\ TypeOK /\ StageInv /\ TaskInv /\ ThreadInv /\ CaughtUp /\ HandlerInv
      /\ BarrierInv
  BY DEF RestoreInv, ProcInv, CountInv
<1> USE DEF CR_STATE_FAIL, CR_STATE_RESTORE_NS, CR_STATE_FORKING, CR_STATE_RESTORE,
        CR_STATE_RESTORE_SIGCHLD, CR_STATE_RESTORE_CREDS, CR_STATE_COMPLETE
\* It is kept by a step that starts no handler and moves nobody who runs one.
<1>1. ASSUME start' = start,
             \A q \in Procs : hpc'[q] # "idle" => hpc[q] # "idle" /\ pc'[q] = pc[q]
      PROVE  HandlerInv'
  BY <1>0, <1>1 DEF HandlerInv
\* A handler cannot be running when everybody has finished.
<1>2. ASSUME AllFinished, start \in 0 .. 4 PROVE \A q \in Procs : hpc[q] = "idle"
  <2>1. SUFFICES ASSUME NEW q \in Procs, hpc[q] # "idle" PROVE FALSE
    OBVIOUS
  <2>2. q \in Tasks /\ pc[q] \in {"r_wait", "collect"} /\ start = CR_STATE_RESTORE_SIGCHLD
    BY <1>0, <2>1 DEF HandlerInv
  <2>3. q \in Counted
    BY <1>0, <2>2 DEF TaskInv, InRestorer, Alive, Counted
  <2> QED BY <1>2, <2>2, <2>3, FinishedCatchesUp
<1>3. CASE CriuForkRoot
  BY <1>0, <1>3, RestoreAssumption DEF CriuForkRoot, Go, sharedVars, sigVars, TypeOK, CaughtUp,
     HandlerInv, Procs
<1>4. CASE CriuFinalize
  BY <1>0, <1>1, <1>4 DEF CriuFinalize, sharedVars, sigVars, TypeOK, HandlerInv
<1>5. CASE CriuKill
  BY <1>0, <1>1, <1>5 DEF CriuKill, sharedVars, TypeOK
<1>6. CASE CriuSetStart \/ CriuComplete
  <2>1. AllFinished /\ start \in 0 .. 4 /\ hpc' = hpc
    BY <1>0, <1>6 DEF CriuSetStart, CriuComplete, sigVars, BarrierInv, StageInv,
       CriuInStage, TypeOK
  <2> QED BY <1>2, <2>1 DEF HandlerInv
<1>7. CASE CriuFailStart
  <2>1. start <= CR_STATE_FORKING \/ NobodyLeft
    BY <1>0, <1>7 DEF CriuFailStart, StageInv, CriuInStage
  <2>2. \A q \in Procs : hpc[q] = "idle"
    BY <1>0, <2>1 DEF HandlerInv, NobodyLeft, Gone, Unborn, EndStates
  <2> QED BY <1>7, <2>2 DEF CriuFailStart, sigVars, HandlerInv
<1>8. CASE \/ CriuWaitInProgress \/ CriuRunScripts \/ CriuSetNr \/ CriuUnlockNetwork
           \/ CriuAttach \/ CriuStopOnSyscall \/ CriuFailNr
  BY <1>1, <1>8 DEF CriuWaitInProgress, CriuRunScripts, CriuSetNr, CriuUnlockNetwork,
     CriuAttach, CriuStopOnSyscall, CriuFailNr, sharedVars, sigVars, taskVars
<1>9. ASSUME NEW p \in Procs, NEW l, NEW m, Advance(p, l, m) PROVE HandlerInv'
  BY <1>0, <1>1, <1>9 DEF Advance, At, Go, TypeOK
<1>10. ASSUME NEW t \in Tasks, NEW c \in Procs, NEW m, Spawn(t, c, m)
       PROVE  HandlerInv'
  BY <1>0, <1>1, <1>10 DEF Spawn, Go, sigVars, TypeOK, HandlerInv
<1>11. ASSUME NEW p \in Procs, NEW l, NEW how \in EndStates \ {"dying"}, Death(p, l, how)
       PROVE  HandlerInv'
  <2>1. TaskOf(p) \in Tasks /\ start' = start
    BY <1>11, TaskOfType DEF Death
  <2>2. \A q \in Procs : hpc'[q] # "idle" => hpc[q] # "idle" /\ pc'[q] = pc[q]
    BY <1>11, <2>1, DeathEffect, RestoreAssumption DEF Death, ThreadsOf, TaskOf
  <2> QED BY <1>1, <2>1, <2>2
<1>12. ASSUME NEW t \in Tasks \cup {Criu}, Ignore(t) PROVE HandlerInv'
  BY <1>1, <1>12 DEF Ignore, taskVars
<1>13. ASSUME NEW p \in Procs, PieSigchld(p) PROVE HandlerInv'
  <2>1. CASE start = CR_STATE_RESTORE_SIGCHLD
    <3>1. p \in Tasks
      BY <1>0, <1>13, <2>1 DEF PieSigchld, CaughtUp, Counted, Procs, ThreadInv,
         Running, Gone, Unborn, BeforeRestore, EndStates
    <3>2. pc[p] \in InRestorer /\ p \in Counted
      BY <1>0, <1>13, <3>1, PieRuns DEF TaskOf, TaskInv, Alive, Counted
    <3>3. pc[p] \in {"r_wait", "collect"}
      BY <1>0, <2>1, <3>2 DEF CaughtUp, InRestorer, BeforeRestore
    <3> QED BY <1>0, <1>13, <2>1, <3>1, <3>3 DEF PieSigchld, TypeOK, HandlerInv
  <2>2. CASE start # CR_STATE_RESTORE_SIGCHLD
    BY <1>0, <1>13, <2>2 DEF PieSigchld, HandlerInv
  <2> QED BY <2>1, <2>2
<1>14. ASSUME NEW p \in Procs, PieZombies(p) \/ PieNrThreads(p) \/ PieUnlock(p)
       PROVE  HandlerInv'
  BY <1>0, <1>1, <1>14 DEF PieZombies, PieNrThreads, PieUnlock, sharedVars, taskVars,
     TypeOK
<1>15. CASE UNCHANGED vars
  BY <1>1, <1>15 DEF vars, sharedVars, sigVars, taskVars
<1> QED
  BY <1>3, <1>4, <1>5, <1>6, <1>7, <1>8, <1>9, <1>10, <1>11, <1>12, <1>13, <1>14,
     <1>15 DEF CriuStep, ProcMoves

-----------------------------------------------------------------------------
(* Counting *)

LEMMA CountSubset ==
  ASSUME NEW S, NEW T, IsFiniteSet(S), T \subseteq S
  PROVE  /\ IsFiniteSet(T) /\ Cardinality(S) \in Nat /\ Cardinality(T) \in Nat
         /\ Cardinality(T) <= Cardinality(S)
         /\ Cardinality(S) = 0 => S = {}
BY FS_Subset, FS_CardinalityType, FS_EmptySet

LEMMA CountRemoved ==
  ASSUME NEW S, NEW T, NEW x \in S, IsFiniteSet(S), T \subseteq S \ {x}
  PROVE  /\ Cardinality(S) \in Nat /\ Cardinality(T) \in Nat
         /\ Cardinality(T) <= Cardinality(S) - 1
         /\ T = S \ {x} => Cardinality(T) = Cardinality(S) - 1
<1>1. IsFiniteSet(S \ {x}) /\ Cardinality(S \ {x}) = Cardinality(S) - 1
  BY FS_RemoveElement
<1>2. Cardinality(S) \in Nat
  BY FS_CardinalityType
<1> QED BY <1>1, <1>2, CountSubset

LEMMA Finiteness ==
  /\ IsFiniteSet(Procs) /\ IsFiniteSet(Counted) /\ IsFiniteSet(Live)
  /\ \A s : IsFiniteSet(Participants(s)) /\ IsFiniteSet(Pending(s))
  /\ IsFiniteSet(Busy) /\ IsFiniteSet(Unfinished)
  /\ \A t : IsFiniteSet(ThreadsOf(t)) /\ IsFiniteSet(InPage(t))
<1>1. IsFiniteSet(Procs)
  BY RestoreAssumption, FS_Union DEF Procs
<1>2. /\ Counted \subseteq Procs /\ Live \subseteq Procs /\ Busy \subseteq Procs
      /\ Unfinished \subseteq Procs
      /\ \A s : Participants(s) \subseteq Procs
  BY RestoreAssumption DEF Procs, Counted, Live, Busy, Unfinished, Participants
<1>3. \A s : Pending(s) \subseteq Participants(s)
  BY DEF Pending
<1>4. \A t : ThreadsOf(t) \subseteq Procs /\ InPage(t) \subseteq Procs
  BY DEF ThreadsOf, InPage, Procs
<1> QED BY <1>1, <1>2, <1>3, <1>4, FS_Subset

-----------------------------------------------------------------------------
(* The barrier *)

\* A proc that waits at the barrier of the announced stage stays there.
LEMMA AdvanceKeeps ==
  ASSUME RestoreInv, NEW p \in Procs, NEW l, NEW m, Advance(p, l, m),
         start \in 0 .. 4, NEW q \in Participants(start), Finished_(start, q)
  PROVE  pc'[q] = pc[q]
<1>1. TypeOK /\ q \in Procs
  BY RestoreAssumption DEF RestoreInv, ProcInv, Participants, Procs
<1> USE DEF CR_STATE_RESTORE_NS, CR_STATE_FORKING, CR_STATE_RESTORE,
        CR_STATE_RESTORE_SIGCHLD, CR_STATE_RESTORE_CREDS
<1>2. CASE q # p
  BY <1>1, <1>2 DEF Advance, Go, TypeOK
<1>3. CASE q = p /\ p \in Tasks
  BY <1>3, RestoreAssumption DEF Advance, At, TaskTurn, Finished_
<1>4. CASE q = p /\ p \in Threads
  BY <1>4, RestoreAssumption DEF Advance, At, ThreadTurn, Finished_
<1> QED BY <1>2, <1>3, <1>4 DEF Procs

\* A proc that decrements the counter finishes the announced stage, and for the
\* first time.
LEMMA AdvanceFinishes ==
  ASSUME RestoreInv, NEW p \in Procs, NEW l, NEW m, Advance(p, l, m),
         start \in 0 .. 4, l \in Decrements
  PROVE  /\ p \in Participants(start) /\ ~Finished_(start, p)
         /\ Finished_(start, p)' /\ ~Gone(p)
         /\ start = CR_STATE_RESTORE_SIGCHLD => p \in Live /\ m = "s_wait" /\ l = "signals"
<1>1. /\ TypeOK /\ TaskInv /\ CaughtUp /\ start' = start
      /\ \A q \in Procs : InStage(pc[q])
      /\ pc[p] = l /\ pc'[p] = m /\ ~Gone(p)
  BY DEF RestoreInv, ProcInv, CountInv, StageInv, Advance, At, Go, TypeOK, Gone,
     EndStates, Decrements
<1> USE <1>1 DEF CR_STATE_FAIL, CR_STATE_RESTORE_NS, CR_STATE_FORKING, CR_STATE_RESTORE,
        CR_STATE_RESTORE_SIGCHLD, CR_STATE_RESTORE_CREDS, CR_STATE_COMPLETE
<1>2. CASE l = "ns_dec"
  <2>1. p = Root /\ m = "ns_wait"
    BY <1>2, RestoreAssumption DEF Advance, TaskTurn, ThreadTurn, TaskInv
  <2>2. start = CR_STATE_RESTORE_NS
    BY <1>2, <2>1 DEF CaughtUp
  <2> QED BY <1>2, <2>1, <2>2 DEF Participants, Finished_
<1>3. CASE l = "pgid"
  <2>1. p \in Tasks /\ m = "fork_wait"
    BY <1>3 DEF Advance, TaskTurn, ThreadTurn
  <2>2. start = CR_STATE_FORKING
    BY <1>3, <2>1 DEF CaughtUp, InStage, AfterNs, BeforeForked
  <2> QED BY <1>3, <2>1, <2>2 DEF Participants, Finished_
<1>4. CASE l = "z_dec"
  <2>1. p \in Tasks /\ m = "z_wait" /\ Kind[p] = "dead" /\ p \in Counted
    BY <1>4 DEF Advance, TaskTurn, ThreadTurn, TaskInv, Counted
  <2>2. start = CR_STATE_RESTORE
    BY <1>4, <2>1 DEF CaughtUp, InStage, AfterForking, BeforeForked, BeforeRestore
  <2> QED BY <1>4, <2>1, <2>2 DEF Participants, Finished_, Counted
<1>5. CASE l \in {"clone_threads", "t_new"}
  <2>1. p \in Live /\ m = "r_wait" /\ p \in Counted
    BY <1>5 DEF Advance, TaskTurn, ThreadTurn, TaskInv, Live, Counted, Alive,
       InRestorer
  <2>2. start = CR_STATE_RESTORE
    BY <1>5, <2>1 DEF CaughtUp, InStage, AfterForking, BeforeForked, BeforeRestore
  <2>3. ~(p \in Tasks /\ Kind[p] = "dead")
    BY <2>1, RestoreAssumption DEF Live, Alive
  <2> QED BY <1>5, <2>1, <2>2, <2>3 DEF Participants, Finished_, Counted
<1>6. CASE l \in {"signals", "c_dec"}
  <2>1. p \in Live /\ p \in Counted /\ m = IF l = "signals" THEN "s_wait" ELSE "c_wait"
    BY <1>6 DEF Advance, TaskTurn, ThreadTurn, TaskInv, Live, Counted, Alive,
       InBlocked
  <2>2. start = IF l = "signals" THEN CR_STATE_RESTORE_SIGCHLD
                                 ELSE CR_STATE_RESTORE_CREDS
    BY <1>6, <2>1 DEF CaughtUp, InStage, AfterRestore, AfterSigchld, BeforeForked,
       BeforeRestore, BeforeSigchld, BeforeCreds
  <2>3. ~(p \in Tasks /\ Kind[p] = "dead")
    BY <2>1, RestoreAssumption DEF Live, Alive
  <2> QED BY <1>6, <2>1, <2>2, <2>3 DEF Participants, Finished_, Counted
<1> QED BY <1>2, <1>3, <1>4, <1>5, <1>6 DEF Decrements

\* A death that does not abort takes nobody from the barrier.
LEMMA DeathKeeps ==
  ASSUME ~NewPid, RestoreInv, NEW p \in Procs, NEW l,
         NEW how \in EndStates \ {"dying"}, Death(p, l, how),
         start \in 0 .. 4, nr_in_progress' >= 0 \/ AllFinished,
         NEW q \in Participants(start), Finished_(start, q)
  PROVE  pc'[q] = pc[q] /\ q # TaskOf(p)
<1>1. /\ TypeOK /\ TaskInv /\ ThreadInv /\ CaughtUp /\ \A r \in Procs : InStage(pc[r])
      /\ pc[p] = l /\ q \in Procs /\ TaskOf(p) \in Tasks
  BY TaskOfType, RestoreAssumption
     DEF RestoreInv, ProcInv, CountInv, StageInv, Death, Participants, Procs
<1> USE DEF CR_STATE_FAIL, CR_STATE_RESTORE_NS, CR_STATE_FORKING, CR_STATE_RESTORE,
        CR_STATE_RESTORE_SIGCHLD, CR_STATE_RESTORE_CREDS, CR_STATE_COMPLETE
\* Somebody in the restorer has not finished the stage.
<1>2. CASE l \in {"restorer", "clone_threads", "signals", "t_new"} /\ AllFinished
  <2>1. p \in Counted
    BY <1>1, <1>2 DEF Counted, Procs, TaskInv, TaskPcs, EndStates, Alive, InRestorer,
       InBlocked
  <2>2. start >= CR_STATE_RESTORE
    BY <1>1, <1>2 DEF InStage, AfterForking, AfterRestore
  <2> QED BY <1>1, <1>2, <2>1, <2>2, FinishedCatchesUp
<1>3. CASE /\ p \in Tasks
           /\ \/ l \in {"prepare", "fork_children", "pgid", "resources"}
              \/ l = "fork_wait" /\ Kind[p] = "helper" /\ start # CR_STATE_FORKING
              \/ l = "z_wait" /\ start # CR_STATE_RESTORE
              \/ l = "c_wait" /\ start # CR_STATE_RESTORE_CREDS
  <2>1. TaskOf(p) = p /\ q # p
    BY <1>1, <1>3 DEF TaskOf, Finished_
  <2>2. q \notin ThreadsOf(p)
    <3>1. ASSUME q \in ThreadsOf(p) PROVE FALSE
      <4>1. q \in Threads /\ q \notin Tasks /\ Owner[q] = p /\ Alive(p)
        BY <3>1, RestoreAssumption DEF ThreadsOf, Alive
      <4>2. pc[q] \in {"ns_wait", "fork_wait", "r_wait", "s_wait", "c_wait"}
        BY <4>1 DEF Finished_
      <4>3. l = "c_wait"
        BY <1>1, <1>3, <4>1, <4>2 DEF ThreadInv, InProgram, TaskInv, Alive
      <4>4. start >= CR_STATE_RESTORE_CREDS
        BY <1>1, <4>3 DEF InStage, AfterSigchld
      <4> QED BY <1>3, <4>3, <4>4
    <3> QED BY <3>1
  <2> QED BY <1>1, <2>1, <2>2, DeathEffect DEF Death
<1> QED BY <1>1, <1>2, <1>3 DEF Death

\* The counter goes down by one or is aborted, and stays aborted.
LEMMA NextNr ==
  ASSUME ProcMoves
  PROVE  nr_in_progress' \in {nr_in_progress, nr_in_progress - 1, -1}
BY DEF ProcMoves, Advance, Spawn, Death, Ignore, PieSigchld, Abort, Dec, PieZombies,
   PieNrThreads, PieUnlock, sharedVars

\* While the counter is not aborted, every decrement is the share of one
\* participant, and no share comes back.
LEMMA SharesGoDown ==
  ASSUME ~NewPid, RestoreInv, ProcMoves, start \in 0 .. 4,
         cpc = "wait", nr_in_progress >= 0, nr_in_progress' >= 0
  PROVE  \/ nr_in_progress' = nr_in_progress /\ Pending(start)' \subseteq Pending(start)
         \/ /\ nr_in_progress' = nr_in_progress - 1
            /\ \E x \in Pending(start) : Pending(start)' \subseteq Pending(start) \ {x}
<1>0. TypeOK /\ TaskInv /\ ThreadInv /\ SigInv /\ CaughtUp /\ NobodyDied
  BY DEF RestoreInv, ProcInv, CountInv
<1>1. start' = start
  BY ProcFrame
<1>2. Participants(start)' = Participants(start) /\ Participants(start) \subseteq Procs
  BY <1>1, RestoreAssumption DEF Participants, Procs
<1> USE DEF CR_STATE_RESTORE_SIGCHLD
<1>3. ASSUME \A q \in Participants(start) : Deducted(start, q) => Deducted(start, q)'
      PROVE  Pending(start)' \subseteq Pending(start)
  BY <1>2, <1>3 DEF Pending
<1>4. ASSUME \A q \in Participants(start) : Deducted(start, q) => Deducted(start, q)',
             NEW x \in Participants(start), ~Deducted(start, x), Deducted(start, x)'
      PROVE  \E y \in Pending(start) : Pending(start)' \subseteq Pending(start) \ {y}
  BY <1>2, <1>3, <1>4 DEF Pending
<1>5. ASSUME NEW q, Finished_(start, q), pc'[q] = pc[q] PROVE Finished_(start, q)'
  BY <1>1, <1>5 DEF Finished_
<1>6. ASSUME NEW p \in Procs, NEW l, NEW m, Advance(p, l, m)
      PROVE  /\ \A q \in Participants(start) : Deducted(start, q) => Deducted(start, q)'
             /\ \/ nr_in_progress' = nr_in_progress
                \/ /\ nr_in_progress' = nr_in_progress - 1
                   /\ p \in Participants(start)
                   /\ ~Deducted(start, p) /\ Deducted(start, p)'
  <2>1. sigpend' = sigpend
    BY <1>6 DEF Advance
  <2>2. \A q \in Participants(start) : Deducted(start, q) => Deducted(start, q)'
    BY <1>1, <1>5, <1>6, <2>1, AdvanceKeeps DEF Deducted
  <2>3. CASE l \in Decrements
    <3>1. /\ p \in Participants(start) /\ ~Finished_(start, p)
          /\ Finished_(start, p)' /\ ~Gone(p)
      BY <1>6, <2>3, AdvanceFinishes
    <3>2. p \in Tasks => sigpend[ParentOf[p]] # p
      BY <1>0, <3>1, RestoreAssumption DEF SigInv
    <3> QED BY <1>1, <1>6, <2>1, <2>2, <2>3, <3>1, <3>2 DEF Deducted, Advance
  <2>4. CASE l \notin Decrements
    BY <1>6, <2>2, <2>4 DEF Advance
  <2> QED BY <2>3, <2>4
<1>7. ASSUME NEW t \in Tasks, NEW c \in Procs, NEW m, Spawn(t, c, m)
      PROVE  /\ \A q \in Participants(start) : Deducted(start, q) => Deducted(start, q)'
             /\ nr_in_progress' = nr_in_progress
  <2>1. \A q \in Participants(start) : Finished_(start, q) => pc'[q] = pc[q]
    BY <1>0, <1>2, <1>7 DEF Spawn, Go, TypeOK, Finished_
  <2> QED BY <1>1, <1>5, <1>7, <2>1 DEF Spawn, sigVars, Deducted
<1>8. ASSUME NEW p \in Procs, NEW l, NEW how \in EndStates \ {"dying"}, Death(p, l, how)
      PROVE  /\ \A q \in Participants(start) : Deducted(start, q) => Deducted(start, q)'
             /\ nr_in_progress' = nr_in_progress
  <2>1. nr_in_progress' = nr_in_progress
    BY <1>8 DEF Death
  <2>2. \A q \in Participants(start) :
          Finished_(start, q) => pc'[q] = pc[q] /\ q # TaskOf(p)
    BY <1>8, DeathKeeps
  <2>3. sigpend' = Raise(TaskOf(p))
    BY <1>8, TaskOfType, DeathEffect DEF Death
  <2>4. \A q \in Tasks : q # TaskOf(p) /\ sigpend[ParentOf[q]] # q => sigpend'[ParentOf[q]] # q
    BY <1>0, <2>3, RestoreAssumption DEF Raise, TypeOK
  <2> QED BY <1>1, <1>5, <2>1, <2>2, <2>4 DEF Deducted
<1>9. ASSUME NEW t \in Tasks \cup {Criu}, Ignore(t)
      PROVE  /\ \A q \in Participants(start) : Deducted(start, q) => Deducted(start, q)'
             /\ nr_in_progress' = nr_in_progress
  <2>1. pc' = pc /\ nr_in_progress' = nr_in_progress
    BY <1>9 DEF Ignore, taskVars
  <2>2. \A q \in Tasks : sigpend[ParentOf[q]] # q => sigpend'[ParentOf[q]] # q
    BY <1>0, <1>9, RestoreAssumption DEF Ignore, TypeOK
  <2> QED BY <1>1, <1>5, <2>1, <2>2 DEF Deducted
<1>10. ASSUME NEW p \in Procs, PieSigchld(p)
       PROVE  /\ \A q \in Participants(start) : Deducted(start, q) => Deducted(start, q)'
              /\ nr_in_progress' = nr_in_progress - 1
              /\ \E x \in Participants(start) : ~Deducted(start, x) /\ Deducted(start, x)'
  <2>1. start = CR_STATE_RESTORE_SIGCHLD /\ nr_in_progress' = nr_in_progress - 1 /\ pc' = pc
    BY <1>10 DEF PieSigchld, Abort, Dec
  <2> DEFINE t == TaskOf(p)
  <2>2. PICK c \in Tasks : t \in Tasks /\ c = sigpend[t] /\ act[t] = "pie"
    BY <1>0, <1>10, PieRuns DEF PieSigchld, TypeOK
  <2>3. sigpend' = [sigpend EXCEPT ![t] = NoSig]
    BY <1>10 DEF PieSigchld, TakeSig
  <2>4. Gone(c) /\ ParentOf[c] = t /\ Kind[c] # "helper"
    BY <1>0, <2>2, RestoreAssumption DEF SigInv
  <2>5. pc[c] = "zombie" /\ Kind[c] = "dead"
    BY <1>0, <2>1, <2>2, <2>4 DEF NobodyDied, Counted, TaskInv
  <2>6. c \in Participants(start) /\ Finished_(start, c)
    BY <2>1, <2>2, <2>4, <2>5
       DEF Participants, Finished_, CR_STATE_RESTORE_NS, CR_STATE_FORKING, CR_STATE_RESTORE
  <2>7. \A q \in Tasks : sigpend[ParentOf[q]] # q => sigpend'[ParentOf[q]] # q
    BY <1>0, <2>2, <2>3, RestoreAssumption DEF TypeOK
  <2>8. \A q \in Participants(start) : Deducted(start, q) => Deducted(start, q)'
    BY <1>1, <1>5, <2>1, <2>7 DEF Deducted
  <2>9. ~Deducted(start, c)
    BY <2>1, <2>2, <2>4 DEF Deducted
  <2>10. sigpend'[ParentOf[c]] # c
    BY <1>0, <2>2, <2>3, <2>4, RestoreAssumption DEF TypeOK
  <2>11. Deducted(start, c)'
    BY <1>1, <1>5, <2>1, <2>6, <2>10 DEF Deducted
  <2> QED BY <2>1, <2>6, <2>8, <2>9, <2>11
<1>11. ASSUME NEW p \in Procs, PieZombies(p) \/ PieNrThreads(p) \/ PieUnlock(p)
       PROVE  /\ \A q \in Participants(start) : Deducted(start, q) => Deducted(start, q)'
              /\ nr_in_progress' = nr_in_progress
  BY <1>11 DEF PieZombies, PieNrThreads, PieUnlock, sharedVars, taskVars, Deducted,
     Finished_
<1> QED
  BY <1>3, <1>4, <1>6, <1>7, <1>8, <1>9, <1>10, <1>11 DEF ProcMoves

\* Once everybody has finished nobody leaves the barrier, the counter is not
\* decremented and nr_threads does not change, until criu announces a stage.
LEMMA StaysFinished ==
  ASSUME ~NewPid, RestoreInv, ProcMoves, start \in 0 .. 4, AllFinished
  PROVE  AllFinished' /\ nr_in_progress' \in {nr_in_progress, -1} /\ nr_threads' = nr_threads
<1>0. /\ TypeOK /\ TaskInv /\ ThreadInv /\ SigInv /\ CaughtUp /\ HandlerInv
      /\ \A r \in Procs : InStage(pc[r])
  BY DEF RestoreInv, ProcInv, CountInv, StageInv
<1>1. start' = start
  BY ProcFrame
<1>2. Participants(start)' = Participants(start) /\ Participants(start) \subseteq Procs
  BY <1>1, RestoreAssumption DEF Participants, Procs
<1> USE DEF CR_STATE_RESTORE_NS, CR_STATE_FORKING, CR_STATE_RESTORE,
        CR_STATE_RESTORE_SIGCHLD, CR_STATE_RESTORE_CREDS
<1>3. ASSUME \A q \in Participants(start) : pc'[q] = pc[q] PROVE AllFinished'
  BY <1>1, <1>2, <1>3 DEF AllFinished, Finished_
<1>4. \A q \in Participants(start) : Finished_(start, q)
  BY DEF AllFinished
<1>5. ASSUME NEW p \in Procs, NEW l, NEW m, Advance(p, l, m)
      PROVE  AllFinished' /\ nr_in_progress' = nr_in_progress /\ nr_threads' = nr_threads
  <2>1. l \notin Decrements
    BY <1>4, <1>5, AdvanceFinishes
  <2> QED BY <1>3, <1>4, <1>5, <2>1, AdvanceKeeps DEF Advance
<1>6. ASSUME NEW t \in Tasks, NEW c \in Procs, NEW m, Spawn(t, c, m)
      PROVE  AllFinished' /\ nr_in_progress' = nr_in_progress /\ nr_threads' = nr_threads
  <2>1. \A q \in Participants(start) : pc'[q] = pc[q]
    BY <1>0, <1>2, <1>4, <1>6 DEF Spawn, Go, TypeOK, Finished_
  <2> QED BY <1>3, <1>6, <2>1 DEF Spawn
<1>7. ASSUME NEW p \in Procs, NEW l, NEW how \in EndStates \ {"dying"}, Death(p, l, how)
      PROVE  AllFinished' /\ nr_in_progress' \in {nr_in_progress, -1}
               /\ nr_threads' = nr_threads
  BY <1>3, <1>4, <1>7, DeathKeeps DEF Death
<1>8. ASSUME NEW t \in Tasks \cup {Criu}, Ignore(t)
      PROVE  AllFinished' /\ nr_in_progress' \in {nr_in_progress, -1}
               /\ nr_threads' = nr_threads
  BY <1>3, <1>8 DEF Ignore, taskVars
\* The restorer's handler has nothing to do.
<1>9. ASSUME NEW p \in Procs PROVE ~PieSigchld(p)
  <2>1. SUFFICES ASSUME PieSigchld(p) PROVE FALSE
    OBVIOUS
  <2>2. PICK t \in Tasks, c \in Tasks :
          /\ t = TaskOf(p) /\ c = sigpend[t] /\ act[t] = "pie" /\ pc[t] \in InRestorer
    BY <1>0, <2>1, PieRuns DEF PieSigchld, TypeOK
  <2>3. Gone(c) /\ c \in Counted
    BY <1>0, <2>2, RestoreAssumption DEF SigInv, Counted
  <2>4. t \in Counted
    BY <1>0, <2>2 DEF TaskInv, Alive, Counted
  <2>5. start >= CR_STATE_RESTORE
    BY <1>0, <2>2 DEF InStage, AfterForking, AfterRestore, InRestorer, Procs
  <2> QED
    BY <2>2, <2>3, <2>4, <2>5, FinishedCatchesUp DEF Gone, EndStates, InRestorer
<1>10. ASSUME NEW p \in Procs PROVE hpc[p] = "idle"
  <2>1. SUFFICES ASSUME hpc[p] # "idle" PROVE FALSE
    OBVIOUS
  <2>2. p \in Counted /\ pc[p] \in {"r_wait", "collect"} /\ start = CR_STATE_RESTORE_SIGCHLD
    BY <1>0, <2>1 DEF HandlerInv, TaskInv, InRestorer, Alive, Counted
  <2> QED BY <2>2, FinishedCatchesUp
<1> QED
  BY <1>5, <1>6, <1>7, <1>8, <1>9, <1>10 DEF ProcMoves, PieZombies, PieNrThreads, PieUnlock

\* The participants of the stage criu is about to announce are as many as the
\* counter says.
LEMMA StageIsSized ==
  ASSUME RestoreInv, CriuSetStart, nr_in_progress = stage_participants(target)
  PROVE  nr_in_progress >= Cardinality(Pending(start))'
<1>0. TypeOK /\ StageInv /\ TaskInv /\ BarrierInv /\ NrInv
  BY DEF RestoreInv, ProcInv, CountInv
<1> USE DEF CR_STATE_FAIL, CR_STATE_RESTORE_NS, CR_STATE_FORKING, CR_STATE_RESTORE,
        CR_STATE_RESTORE_SIGCHLD, CR_STATE_RESTORE_CREDS, CR_STATE_COMPLETE
<1>1. /\ cpc = "set_start" /\ target \in 1 .. 4 /\ start = target - 1 /\ AllFinished
      /\ start' = target /\ pc' = pc
  BY <1>0 DEF CriuSetStart, taskVars, StageInv, CriuInStage, BarrierInv, TypeOK
<1>2. ASSUME NEW S, IsFiniteSet(S), Pending(start)' \subseteq S,
             nr_in_progress = Cardinality(S)
      PROVE  nr_in_progress >= Cardinality(Pending(start))'
  BY <1>2, CountSubset
<1>3. CASE target = CR_STATE_FORKING
  <2>1. Pending(start)' \subseteq Tasks
    BY <1>1, <1>3 DEF Pending, Participants
  <2>2. nr_in_progress = Cardinality(Tasks)
    BY <1>3 DEF stage_participants
  <2> QED BY <1>2, <2>1, <2>2, RestoreAssumption
<1>4. CASE target \in {CR_STATE_RESTORE, CR_STATE_RESTORE_SIGCHLD}
  <2>1. Pending(start)' \subseteq Counted
    BY <1>1, <1>4 DEF Pending, Participants, Counted
  <2>2. nr_in_progress = Cardinality(Counted)
    BY <1>0, <1>1, <1>4 DEF stage_participants, NrInv
  <2> QED BY <1>2, <2>1, <2>2, Finiteness
<1>5. CASE target = CR_STATE_RESTORE_CREDS
  <2>1. \A p \in Counted : pc[p] \in {"zombie", "s_wait"}
    BY <1>1, <1>5, FinishedCatchesUp
  <2>2. \A p \in Counted \ Live : p \in Tasks /\ Kind[p] = "dead" /\ pc[p] = "zombie"
    BY <1>0, <2>1, RestoreAssumption DEF Counted, Live, Alive, TaskInv, InBlocked
  <2>3. \A p \in Counted \ Live : Finished_(start, p)'
    BY <1>1, <1>5, <2>2 DEF Finished_
  <2>4. Pending(start)' \subseteq Live
    BY <1>1, <1>5, <2>3 DEF Pending, Deducted, Participants, Counted
  <2>5. nr_in_progress = Cardinality(Live)
    BY <1>0, <1>1, <1>5 DEF stage_participants, NrInv
  <2> QED BY <1>2, <2>4, <2>5, Finiteness
<1> QED BY <1>1, <1>3, <1>4, <1>5

\* What criu concludes from a counter that is zero.
LEMMA ZeroMeansFinished ==
  ASSUME RestoreInv, cpc = "wait", nr_in_progress = 0
  PROVE  AllFinished
<1>1. Cardinality(Pending(start)) = 0
  BY Finiteness, FS_CardinalityType DEF RestoreInv, CountInv, BarrierInv
<1>2. Pending(start) = {}
  BY <1>1, Finiteness, FS_EmptySet
<1> QED BY <1>2 DEF Pending, Deducted, AllFinished

LEMMA BarrierInvStep ==
  ASSUME ~NewPid, RestoreInv, CriuStep \/ ProcMoves \/ UNCHANGED vars
  PROVE  BarrierInv'
<1>0. TypeOK /\ StageInv /\ CaughtUp /\ BarrierInv
  BY DEF RestoreInv, ProcInv, CountInv
<1> USE DEF CR_STATE_FAIL, CR_STATE_RESTORE_NS, CR_STATE_FORKING, CR_STATE_RESTORE,
        CR_STATE_RESTORE_SIGCHLD, CR_STATE_RESTORE_CREDS, CR_STATE_COMPLETE
<1>1. CASE ProcMoves
  <2>1. UNCHANGED <<start, cpc, target>> /\ cpc # "fork"
    BY <1>1, ProcFrame
  <2>2. CASE cpc = "wait"
    <3>1. start \in 0 .. 4
      BY <1>0, <2>2 DEF StageInv, CriuInStage, TypeOK
    <3>2. SUFFICES ASSUME nr_in_progress' >= 0
                   PROVE  nr_in_progress' >= Cardinality(Pending(start))'
      BY <1>0, <1>1, <2>1, <2>2, NextNr DEF BarrierInv, TypeOK
    <3>3. nr_in_progress >= 0
      BY <1>0, <1>1, <3>2, NextNr DEF TypeOK
    <3>4. nr_in_progress >= Cardinality(Pending(start))
      BY <1>0, <2>2, <3>3 DEF BarrierInv, TypeOK
    <3>5. CASE nr_in_progress' = nr_in_progress /\ Pending(start)' \subseteq Pending(start)
      BY <1>0, <3>4, <3>5, CountSubset, Finiteness DEF TypeOK
    <3>6. CASE /\ nr_in_progress' = nr_in_progress - 1
               /\ \E x \in Pending(start) : Pending(start)' \subseteq Pending(start) \ {x}
      <4>1. PICK x \in Pending(start) : Pending(start)' \subseteq Pending(start) \ {x}
        BY <3>6
      <4>2. /\ Cardinality(Pending(start)) \in Nat /\ Cardinality(Pending(start))' \in Nat
            /\ Cardinality(Pending(start))' <= Cardinality(Pending(start)) - 1
        BY <4>1, CountRemoved, Finiteness
      <4> QED BY <1>0, <3>4, <3>6, <4>2 DEF TypeOK
    <3> QED BY <1>1, <2>2, <3>1, <3>2, <3>3, <3>5, <3>6, SharesGoDown
  <2>3. CASE cpc \in {"scripts", "set_nr", "set_start", "sigaction", "attach", "complete"}
    <3>1. start \in 0 .. 4 /\ AllFinished
      BY <1>0, <2>3 DEF StageInv, CriuInStage, TypeOK, BarrierInv
    <3>2. AllFinished' /\ nr_in_progress' \in {nr_in_progress, -1} /\ nr_threads' = nr_threads
      BY <1>1, <3>1, StaysFinished
    <3> QED BY <1>0, <2>1, <2>3, <3>2 DEF BarrierInv, stage_participants
  <2> QED BY <2>1, <2>2, <2>3 DEF BarrierInv
<1>2. CASE CriuForkRoot
  <2>1. CASE cpc' = "wait"
    <3>1. start' = CR_STATE_RESTORE_NS /\ nr_in_progress' = 1
      BY <1>0, <1>2 DEF CriuForkRoot, sharedVars, StageInv, CriuInStage, BarrierInv
    <3>2. Pending(start)' \subseteq {Root}
      BY <3>1 DEF Pending, Participants
    <3>3. IsFiniteSet({Root}) /\ Cardinality({Root}) = 1
      BY FS_Singleton
    <3> QED BY <2>1, <3>1, <3>2, <3>3, CountSubset DEF BarrierInv
  <2> QED BY <1>2, <2>1 DEF CriuForkRoot, BarrierInv
<1>3. CASE CriuWaitInProgress
  <2>1. UNCHANGED <<start, nr_in_progress, pc>>
    BY <1>3 DEF CriuWaitInProgress, sharedVars, taskVars
  <2>2. CASE nr_in_progress = 0
    <3>3. AllFinished
      BY <1>3, <2>2, ZeroMeansFinished DEF CriuWaitInProgress
    <3>4. AllFinished'
      BY <2>1, <3>3 DEF AllFinished, Participants, Finished_
    <3> QED BY <1>3, <2>2, <3>4 DEF CriuWaitInProgress, StageSucceeded, BarrierInv
  <2>3. CASE nr_in_progress # 0
    BY <1>3, <2>3 DEF CriuWaitInProgress, StageFailed, BarrierInv
  <2> QED BY <2>2, <2>3
<1>4. CASE CriuRunScripts \/ CriuSetNr \/ CriuUnlockNetwork \/ CriuAttach
  <2>1. UNCHANGED <<start, pc, nr_threads>> /\ AllFinished
    BY <1>0, <1>4 DEF CriuRunScripts, CriuSetNr, CriuUnlockNetwork, CriuAttach,
       sharedVars, taskVars, BarrierInv
  <2>2. AllFinished'
    BY <2>1 DEF AllFinished, Participants, Finished_
  <2>3. cpc' \notin {"fork", "wait"}
    BY <1>4 DEF CriuRunScripts, CriuSetNr, CriuUnlockNetwork, CriuAttach
  <2>4. cpc' = "set_start" => nr_in_progress' = stage_participants(target)'
    BY <1>4, <2>1 DEF CriuRunScripts, CriuSetNr, CriuUnlockNetwork, CriuAttach,
       stage_participants
  <2> QED BY <2>2, <2>3, <2>4 DEF BarrierInv
<1>5. CASE CriuSetStart
  <2>1. cpc' = "wait" /\ nr_in_progress' = nr_in_progress
    BY <1>5 DEF CriuSetStart
  <2>2. nr_in_progress < 0 \/ nr_in_progress = stage_participants(target)
    BY <1>0, <1>5 DEF CriuSetStart, BarrierInv
  <2> QED BY <1>5, <2>1, <2>2, StageIsSized DEF BarrierInv
<1>6. CASE \/ CriuComplete \/ CriuStopOnSyscall \/ CriuFinalize \/ CriuKill
           \/ CriuFailNr \/ CriuFailStart
  BY <1>6 DEF CriuComplete, CriuStopOnSyscall, CriuFinalize, CriuKill, CriuFailNr,
     CriuFailStart, BarrierInv
<1>7. CASE UNCHANGED vars
  BY <1>0, <1>7 DEF vars, criuVars, sharedVars, sigVars, taskVars, BarrierInv, AllFinished,
     Participants, Finished_, Pending, Deducted, stage_participants
<1> QED BY <1>1, <1>2, <1>3, <1>4, <1>5, <1>6, <1>7 DEF CriuStep

\* In CR_STATE_RESTORE_SIGCHLD only helpers and zombies die without an abort.
LEMMA SigchldDeaths ==
  ASSUME RestoreInv, NEW p \in Procs, NEW l, NEW how \in EndStates \ {"dying"},
         Death(p, l, how), start = CR_STATE_RESTORE_SIGCHLD, nr_in_progress' >= 0
  PROVE  /\ p \in Tasks /\ TaskOf(p) = p /\ ~Alive(p) /\ ThreadsOf(p) = {}
         /\ Kind[p] = "helper" \/ (Kind[p] = "dead" /\ how = "zombie")
<1>0. /\ TypeOK /\ TaskInv /\ CaughtUp /\ \A r \in Procs : InStage(pc[r])
      /\ pc[p] = l /\ Tasks \subseteq Procs
  BY DEF RestoreInv, ProcInv, CountInv, StageInv, Death, Procs
<1> USE DEF CR_STATE_FAIL, CR_STATE_RESTORE_NS, CR_STATE_FORKING, CR_STATE_RESTORE,
        CR_STATE_RESTORE_SIGCHLD, CR_STATE_RESTORE_CREDS, CR_STATE_COMPLETE
<1>1. p \in Tasks /\ TaskOf(p) = p
  BY DEF Death, TaskOf
<1>2. l \notin {"prepare", "fork_children", "pgid", "resources", "c_wait"}
  <2>1. l \notin {"prepare", "fork_children", "pgid"}
    BY <1>0, <1>1 DEF CaughtUp, BeforeForked
  <2>2. l # "resources"
    BY <1>0, <1>1 DEF CaughtUp, BeforeRestore, TaskInv, Alive, Counted
  <2>3. l # "c_wait"
    BY <1>0, <1>1 DEF InStage, AfterSigchld
  <2> QED BY <2>1, <2>2, <2>3
<1>3. Kind[p] = "helper" \/ (Kind[p] = "dead" /\ how = "zombie")
  BY <1>0, <1>1, <1>2 DEF Death, TaskInv
<1>4. ~Alive(p) /\ ThreadsOf(p) = {}
  BY <1>3, RestoreAssumption DEF Alive, ThreadsOf
<1> QED BY <1>1, <1>3, <1>4

LEMMA NobodyDiedStep ==
  ASSUME ~NewPid, RestoreInv, CriuStep \/ ProcMoves \/ UNCHANGED vars
  PROVE  NobodyDied'
<1>0. TypeOK /\ StageInv /\ TaskInv /\ CaughtUp /\ BarrierInv /\ NobodyDied
  BY DEF RestoreInv, ProcInv, CountInv
<1> USE DEF CR_STATE_FAIL, CR_STATE_RESTORE_NS, CR_STATE_FORKING, CR_STATE_RESTORE,
        CR_STATE_RESTORE_SIGCHLD, CR_STATE_RESTORE_CREDS, CR_STATE_COMPLETE
<1>1. CASE ProcMoves
  <2>1. UNCHANGED <<start, cpc>>
    BY <1>1, ProcFrame
  <2>2. SUFFICES ASSUME cpc = "wait", start = CR_STATE_RESTORE_SIGCHLD,
                        nr_in_progress' >= 0,
                        NEW q \in Counted, Gone(q)' \/ pc'[q] = "stopped"
                 PROVE  pc'[q] = "zombie"
    BY <2>1 DEF NobodyDied
  <2>3. q \in Procs /\ nr_in_progress >= 0
    BY <1>0, <1>1, <2>2, NextNr DEF TypeOK, Counted, Procs
  <2>4. pc'[q] = pc[q] => pc'[q] = "zombie"
    BY <1>0, <2>2, <2>3 DEF NobodyDied, Gone
  <2>5. ASSUME NEW p \in Procs, NEW l, NEW m, Advance(p, l, m) PROVE pc'[q] = pc[q]
    BY <1>0, <2>2, <2>3, <2>5 DEF Advance, TaskTurn, ThreadTurn, Go, TypeOK, Gone, EndStates
  <2>6. ASSUME NEW t \in Tasks, NEW c \in Procs, NEW m, Spawn(t, c, m) PROVE pc'[q] = pc[q]
    BY <1>0, <2>2, <2>3, <2>6 DEF Spawn, Go, TypeOK, Gone, EndStates
  <2>7. ASSUME NEW p \in Procs, NEW l, NEW how \in EndStates \ {"dying"}, Death(p, l, how)
        PROVE  pc'[q] = pc[q] \/ pc'[q] = "zombie"
    <3>1. /\ p \in Tasks /\ TaskOf(p) = p /\ ThreadsOf(p) = {}
          /\ Kind[p] = "helper" \/ (Kind[p] = "dead" /\ how = "zombie")
      BY <2>2, <2>7, SigchldDeaths
    <3>2. q = p => how = "zombie"
      BY <2>2, <3>1, RestoreAssumption DEF Counted
    <3> QED BY <2>3, <2>7, <3>1, <3>2, DeathEffect DEF Death
  <2>8. ASSUME NEW p \in Procs, PieSigchld(p) PROVE pc'[q] = pc[q]
    BY <2>2, <2>8 DEF PieSigchld
  <2>9. CASE \/ \E t \in Tasks \cup {Criu} : Ignore(t)
             \/ \E p \in Procs : PieZombies(p) \/ PieNrThreads(p) \/ PieUnlock(p)
    BY <2>4, <2>9 DEF Ignore, PieZombies, PieNrThreads, PieUnlock, taskVars
  <2> QED BY <1>1, <2>4, <2>5, <2>6, <2>7, <2>8, <2>9 DEF ProcMoves
<1>2. CASE CriuSetStart
  <2>1. SUFFICES ASSUME start' = CR_STATE_RESTORE_SIGCHLD
                 PROVE  \A p \in Counted : ~Gone(p)' /\ pc'[p] # "stopped"
    BY DEF NobodyDied
  <2>2. start = CR_STATE_RESTORE /\ AllFinished /\ pc' = pc
    BY <1>0, <1>2, <2>1 DEF CriuSetStart, taskVars, StageInv, CriuInStage, BarrierInv,
       TypeOK
  <2> QED BY <2>2, FinishedCatchesUp DEF Gone, EndStates
<1>3. CASE CriuForkRoot
  BY <1>0, <1>3 DEF CriuForkRoot, sharedVars, StageInv, CriuInStage, NobodyDied
<1>4. CASE CriuStep /\ ~CriuSetStart /\ ~CriuForkRoot
  <2>1. cpc' # "wait"
    BY <1>4 DEF CriuStep, CriuWaitInProgress, StageSucceeded, StageFailed, CriuRunScripts,
       CriuSetNr, CriuUnlockNetwork, CriuAttach, CriuComplete, CriuStopOnSyscall,
       CriuFinalize, CriuKill, CriuFailNr, CriuFailStart
  <2> QED BY <2>1 DEF NobodyDied
<1>5. CASE UNCHANGED vars
  BY <1>0, <1>5 DEF vars, criuVars, sharedVars, taskVars, NobodyDied, Gone
<1> QED BY <1>1, <1>2, <1>3, <1>4, <1>5

\* The counter and nr_threads stay in step while zombies are collected.
LEMMA InStep ==
  ASSUME ~NewPid, RestoreInv, ProcMoves, cpc = "wait",
         start = CR_STATE_RESTORE_SIGCHLD, nr_in_progress' >= 0
  PROVE  nr_in_progress' - Cardinality(Unfinished)'
           = nr_threads' - Cardinality(Busy)' - Cardinality(Live)
<1>0. TypeOK /\ TaskInv /\ HandlerInv
  BY DEF RestoreInv, ProcInv, CountInv
<1>1. /\ nr_in_progress \in Int /\ nr_threads \in Int /\ Cardinality(Unfinished) \in Nat
      /\ Cardinality(Busy) \in Nat /\ Cardinality(Live) \in Nat
  BY <1>0, Finiteness, FS_CardinalityType DEF TypeOK
<1>2. nr_in_progress - Cardinality(Unfinished)
        = nr_threads - Cardinality(Busy) - Cardinality(Live)
  <2>1. nr_in_progress >= 0
    BY <1>0, NextNr DEF TypeOK
  <2> QED BY <2>1 DEF RestoreInv, CountInv, NrInv
<1>3. Live \subseteq Procs /\ CR_STATE_RESTORE_SIGCHLD \in 0 .. 4
  BY DEF Live, Procs, CR_STATE_RESTORE_SIGCHLD
<1>4. ASSUME NEW p \in Procs, NEW l, NEW m, Advance(p, l, m)
      PROVE  nr_in_progress' - Cardinality(Unfinished)'
               = nr_threads' - Cardinality(Busy)' - Cardinality(Live)
  <2>1. Busy' = Busy /\ nr_threads' = nr_threads
    BY <1>4 DEF Advance, Busy
  <2>2. CASE l \in Decrements
    <3>1. p \in Live /\ m = "s_wait" /\ l = "signals"
      BY <1>3, <1>4, <2>2, AdvanceFinishes
    <3>2. p \in Unfinished /\ Unfinished' = Unfinished \ {p}
      BY <1>0, <1>3, <1>4, <3>1 DEF Advance, At, Go, Unfinished, TypeOK
    <3>3. Cardinality(Unfinished)' = Cardinality(Unfinished) - 1
      BY <3>2, CountRemoved, Finiteness
    <3> QED BY <1>1, <1>2, <1>4, <2>1, <2>2, <3>3 DEF Advance
  <2>3. CASE l \notin Decrements
    <3>1. l # "s_wait" /\ m # "s_wait"
      BY <1>4, <2>3 DEF Advance, TaskTurn, ThreadTurn, Decrements
    <3>2. Unfinished' = Unfinished
      BY <1>0, <1>3, <1>4, <3>1 DEF Advance, At, Go, Unfinished, TypeOK
    <3> QED BY <1>2, <1>4, <2>1, <2>3, <3>2 DEF Advance
  <2> QED BY <2>2, <2>3
<1>5. ASSUME NEW t \in Tasks, NEW c \in Procs, NEW m, Spawn(t, c, m)
      PROVE  nr_in_progress' - Cardinality(Unfinished)'
               = nr_threads' - Cardinality(Busy)' - Cardinality(Live)
  <2>1. Unfinished' = Unfinished
    BY <1>0, <1>3, <1>5 DEF Spawn, Go, Unfinished, TypeOK
  <2> QED BY <1>2, <1>5, <2>1 DEF Spawn, sigVars, Busy
<1>6. ASSUME NEW p \in Procs, NEW l, NEW how \in EndStates \ {"dying"}, Death(p, l, how)
      PROVE  nr_in_progress' - Cardinality(Unfinished)'
               = nr_threads' - Cardinality(Busy)' - Cardinality(Live)
  <2>1. p \in Tasks /\ TaskOf(p) = p /\ ~Alive(p) /\ ThreadsOf(p) = {}
    BY <1>6, SigchldDeaths
  <2>2. /\ pc' = [pc EXCEPT ![p] = how] /\ hpc' = hpc
        /\ nr_in_progress' = nr_in_progress /\ nr_threads' = nr_threads
    <3>1. \A q \in Procs : TaskOf(q) = p => q = p
      BY <2>1 DEF TaskOf, ThreadsOf, Procs
    <3> QED BY <1>0, <1>6, <2>1, <3>1, DeathEffect DEF Death, TypeOK
  <2>3. Unfinished' = Unfinished
    BY <1>0, <1>3, <2>1, <2>2, RestoreAssumption DEF Unfinished, Live, TypeOK
  <2> QED BY <1>2, <2>2, <2>3 DEF Busy
<1>7. ASSUME NEW p \in Procs, PieSigchld(p)
      PROVE  nr_in_progress' - Cardinality(Unfinished)'
               = nr_threads' - Cardinality(Busy)' - Cardinality(Live)
  <2>1. /\ hpc[p] = "idle" /\ hpc' = [hpc EXCEPT ![p] = "zombies"] /\ pc' = pc
        /\ nr_in_progress' = nr_in_progress - 1 /\ nr_threads' = nr_threads
    BY <1>7 DEF PieSigchld, Dec
  <2>2. p \notin Busy /\ Busy' = Busy \cup {p} /\ Unfinished' = Unfinished
    BY <1>0, <2>1 DEF Busy, Unfinished, TypeOK
  <2>3. Cardinality(Busy)' = Cardinality(Busy) + 1
    BY <2>2, FS_AddElement, Finiteness
  <2> QED BY <1>1, <1>2, <2>1, <2>2, <2>3
<1>8. ASSUME NEW p \in Procs, PieNrThreads(p)
      PROVE  nr_in_progress' - Cardinality(Unfinished)'
               = nr_threads' - Cardinality(Busy)' - Cardinality(Live)
  <2>1. /\ hpc[p] = "nr_threads" /\ hpc' = [hpc EXCEPT ![p] = "unlock"] /\ pc' = pc
        /\ nr_in_progress' = nr_in_progress /\ nr_threads' = nr_threads - 1
    BY <1>8 DEF PieNrThreads, taskVars
  <2>2. p \in Busy /\ Busy' = Busy \ {p} /\ Unfinished' = Unfinished
    BY <1>0, <2>1 DEF Busy, Unfinished, TypeOK
  <2>3. Cardinality(Busy)' = Cardinality(Busy) - 1
    BY <2>2, CountRemoved, Finiteness
  <2> QED BY <1>1, <1>2, <2>1, <2>2, <2>3
<1>9. ASSUME NEW p \in Procs, PieZombies(p) \/ PieUnlock(p)
      PROVE  nr_in_progress' - Cardinality(Unfinished)'
               = nr_threads' - Cardinality(Busy)' - Cardinality(Live)
  <2>1. Busy' = Busy /\ Unfinished' = Unfinished
    BY <1>0, <1>9 DEF PieZombies, PieUnlock, taskVars, Busy, Unfinished, TypeOK
  <2> QED BY <1>2, <1>9, <2>1 DEF PieZombies, PieUnlock, sharedVars
<1>10. ASSUME NEW t \in Tasks \cup {Criu}, Ignore(t)
       PROVE  nr_in_progress' - Cardinality(Unfinished)'
                = nr_threads' - Cardinality(Busy)' - Cardinality(Live)
  <2>1. Busy' = Busy /\ Unfinished' = Unfinished /\ nr_in_progress' = nr_in_progress
          /\ nr_threads' = nr_threads
    BY <1>10 DEF Ignore, taskVars, Busy, Unfinished
  <2> QED BY <1>2, <2>1
<1> QED BY <1>4, <1>5, <1>6, <1>7, <1>8, <1>9, <1>10 DEF ProcMoves

\* When everybody has finished CR_STATE_RESTORE_SIGCHLD nothing is left to count.
LEMMA NothingLeftToCount ==
  ASSUME RestoreInv, AllFinished, start = CR_STATE_RESTORE_SIGCHLD
  PROVE  Unfinished = {} /\ Busy = {}
<1>1. TaskInv /\ ThreadInv /\ HandlerInv
  BY DEF RestoreInv, ProcInv, CountInv
<1>2. \A p \in Counted : pc[p] \in {"zombie", "s_wait"}
  BY FinishedCatchesUp DEF CR_STATE_RESTORE_SIGCHLD
<1>3. Unfinished = {}
  BY <1>1, <1>2, RestoreAssumption DEF Unfinished, Live, Alive, Counted, TaskInv, ThreadInv, ThreadPcs
<1>4. Busy = {}
  BY <1>1, <1>2 DEF Busy, HandlerInv, TaskInv, InRestorer, Alive, Counted
<1> QED BY <1>3, <1>4

LEMMA NrInvStep ==
  ASSUME ~NewPid, RestoreInv, CriuStep \/ ProcMoves \/ UNCHANGED vars
  PROVE  NrInv'
<1>0. /\ TypeOK /\ StageInv /\ TaskInv /\ ThreadInv /\ CaughtUp /\ HandlerInv
      /\ BarrierInv /\ NrInv
  BY DEF RestoreInv, ProcInv, CountInv
<1> USE DEF CR_STATE_FAIL, CR_STATE_RESTORE_NS, CR_STATE_FORKING, CR_STATE_RESTORE,
        CR_STATE_RESTORE_SIGCHLD, CR_STATE_RESTORE_CREDS, CR_STATE_COMPLETE
\* It is kept by a step that changes neither number and is not criu starting or
\* ending the collection of zombies.
<1>1. ASSUME UNCHANGED <<start, nr_threads>>,
             start = CR_STATE_RESTORE_SIGCHLD =>
               /\ cpc' # "wait"
               /\ cpc' \in {"sigaction", "set_nr", "set_start"} =>
                    cpc \in {"sigaction", "set_nr", "set_start"}
      PROVE  NrInv'
  BY <1>0, <1>1 DEF NrInv
<1>2. CASE ProcMoves
  <2>1. UNCHANGED <<start, cpc, target>>
    BY <1>2, ProcFrame
  <2>2. start # CR_STATE_RESTORE_SIGCHLD => nr_threads' = nr_threads
    BY <1>0, <1>2 DEF ProcMoves, Advance, Spawn, Death, Ignore, PieSigchld, PieZombies,
       PieNrThreads, PieUnlock, sharedVars, HandlerInv
  <2>3. cpc \in {"sigaction", "set_nr", "set_start"} /\ start = CR_STATE_RESTORE_SIGCHLD
          => nr_threads' = nr_threads
    BY <1>0, <1>2, StaysFinished DEF BarrierInv
  <2>4. cpc = "wait" /\ start = CR_STATE_RESTORE_SIGCHLD /\ nr_in_progress' >= 0 =>
          nr_in_progress' - Cardinality(Unfinished)'
            = nr_threads' - Cardinality(Busy)' - Cardinality(Live)
    BY <1>2, InStep
  <2> QED BY <1>0, <2>1, <2>2, <2>3, <2>4 DEF NrInv
<1>3. CASE CriuSetStart
  <2>1. /\ cpc = "set_start" /\ target \in 1 .. 4 /\ start = target - 1 /\ AllFinished
        /\ start' = target /\ UNCHANGED <<pc, hpc, nr_threads, nr_in_progress>>
    BY <1>0, <1>3 DEF CriuSetStart, sigVars, taskVars, StageInv, CriuInStage, BarrierInv,
       TypeOK
  <2>2. CASE target # CR_STATE_RESTORE_SIGCHLD
    BY <1>0, <2>1, <2>2 DEF NrInv
  <2>3. CASE target = CR_STATE_RESTORE_SIGCHLD
    <3>1. Unfinished' = Live
      BY <2>1, <2>3, FinishedCatchesUp DEF Unfinished, Live, Alive, Counted
    <3>2. Busy' = {}
      BY <1>0, <2>1, <2>3 DEF Busy, HandlerInv
    <3>3. Cardinality(Live) \in Nat /\ Cardinality({}) = 0
      BY Finiteness, FS_CardinalityType, FS_EmptySet
    <3>4. nr_in_progress' < 0 \/ nr_in_progress' = nr_threads'
      BY <1>0, <2>1, <2>3 DEF BarrierInv, stage_participants
    <3>5. cpc' = "wait"
      BY <1>3 DEF CriuSetStart
    <3> QED BY <1>0, <2>1, <2>3, <3>1, <3>2, <3>3, <3>4, <3>5 DEF NrInv, TypeOK
  <2> QED BY <2>2, <2>3
<1>4. CASE CriuWaitInProgress
  <2>1. UNCHANGED <<start, nr_threads, pc, hpc>> /\ cpc = "wait" /\ cpc' # "wait"
    BY <1>4 DEF CriuWaitInProgress, StageSucceeded, StageFailed, sharedVars, sigVars, taskVars
  <2>2. ASSUME start = CR_STATE_RESTORE_SIGCHLD, cpc' \in {"sigaction", "set_nr", "set_start"}
        PROVE  nr_threads = Cardinality(Live)
    <3>1. nr_in_progress = 0
      BY <1>4, <2>2 DEF CriuWaitInProgress, StageFailed
    <3>2. Cardinality(Unfinished) = 0 /\ Cardinality(Busy) = 0
      BY <2>1, <2>2, <3>1, ZeroMeansFinished, NothingLeftToCount, FS_EmptySet
    <3>3. Cardinality(Live) \in Nat
      BY Finiteness, FS_CardinalityType
    <3> QED BY <1>0, <2>1, <2>2, <3>1, <3>2, <3>3 DEF NrInv, TypeOK
  <2> QED BY <1>0, <2>1, <2>2 DEF NrInv
<1>5. CASE CriuForkRoot
  <2>1. UNCHANGED <<start, nr_threads>> /\ start = CR_STATE_RESTORE_NS
    BY <1>0, <1>5 DEF CriuForkRoot, sharedVars, StageInv, CriuInStage
  <2> QED BY <1>1, <2>1
<1>6. CASE CriuRunScripts
  <2>1. UNCHANGED <<start, nr_threads>> /\ start = CR_STATE_RESTORE_NS
    BY <1>0, <1>6 DEF CriuRunScripts, sharedVars, StageInv, CriuInStage
  <2> QED BY <1>1, <2>1
<1>7. CASE \/ CriuSetNr \/ CriuUnlockNetwork \/ CriuAttach
           \/ CriuStopOnSyscall \/ CriuFinalize \/ CriuKill \/ CriuFailNr
  BY <1>1, <1>7 DEF CriuSetNr, CriuUnlockNetwork, CriuAttach,
     CriuStopOnSyscall, CriuFinalize, CriuKill, CriuFailNr, sharedVars
<1>8. CASE CriuComplete \/ CriuFailStart
  BY <1>8 DEF CriuComplete, CriuFailStart, NrInv
<1>9. CASE UNCHANGED vars
  BY <1>0, <1>9 DEF vars, criuVars, sharedVars, sigVars, taskVars, NrInv, Busy, Unfinished
<1> QED BY <1>2, <1>3, <1>4, <1>5, <1>6, <1>7, <1>8, <1>9 DEF CriuStep

-----------------------------------------------------------------------------
(* The shared page and the credentials *)

\* thread_inprogress is set before the last barrier, and a thread that takes
\* itself off has left the page.
LEMMA PageInvStep ==
  ASSUME ~NewPid, RestoreInv, CriuStep \/ ProcMoves \/ UNCHANGED vars
  PROVE  PageInv'
<1>0. /\ TypeOK /\ TaskInv /\ ThreadInv /\ PageInv
      /\ cpc = "fork" => \A p \in Procs : pc[p] = "unborn"
  BY DEF RestoreInv, ProcInv, CountInv, CaughtUp
<1> SUFFICES ASSUME NEW t \in Tasks PROVE PageSafe(t)'
  BY DEF PageInv
<1> USE RestoreAssumption DEF Procs, Left, EndStates
<1>1. PageSafe(t) /\ thread_inprogress[t] \in Int /\ Cardinality(InPage(t)) \in Nat
  BY <1>0, Finiteness, FS_CardinalityType DEF PageInv, TypeOK
\* A step that lets no thread into the page and leaves the counter alone keeps it.
<1>2. ASSUME \A th \in ThreadsOf(t) : pc[th] \in Left => pc'[th] \in Left,
             thread_inprogress'[t] = thread_inprogress[t], mapped' = mapped,
             pc'[t] \in {"c_dec", "c_wait", "t_wait"} =>
               pc[t] \in {"c_dec", "c_wait", "t_wait"},
             pc[t] \in Left => pc'[t] \in Left,
             act[t] = "orig" => act'[t] = "orig"
      PROVE  PageSafe(t)'
  <2>1. PICK S : S = InPage(t)'
    OBVIOUS
  <2>2. S \subseteq InPage(t)
    BY <1>2, <2>1 DEF InPage, ThreadsOf
  <2>3. Cardinality(S) \in Nat /\ Cardinality(S) <= Cardinality(InPage(t))
    BY <2>2, Finiteness, CountSubset
  <2> QED BY <1>1, <1>2, <2>1, <2>2, <2>3 DEF PageSafe
<1>3. CASE CriuForkRoot
  BY <1>0, <1>2, <1>3 DEF CriuForkRoot, Go, sigVars, TypeOK, ThreadsOf
<1>4. CASE CriuFinalize
  BY <1>0, <1>2, <1>4 DEF CriuFinalize, sigVars, TypeOK, ThreadsOf
<1>5. CASE CriuKill
  BY <1>0, <1>2, <1>5 DEF CriuKill, IsInit, TypeOK, ThreadsOf
<1>6. CASE UNCHANGED <<sigVars, taskVars>> \/ UNCHANGED vars
  BY <1>2, <1>6 DEF vars, sigVars, taskVars
<1>7. ASSUME NEW p \in Procs, NEW l, NEW m, Advance(p, l, m) PROVE PageSafe(t)'
  <2>1. pc[p] = l /\ pc' = [pc EXCEPT ![p] = m] /\ (l \in Left => m \in Left)
    BY <1>7 DEF Advance, At, Go, TaskTurn, ThreadTurn
  <2>2. act[t] = "orig" => act'[t] = "orig"
    BY <1>0, <1>7 DEF Advance, TypeOK, TaskInv, TaskTurn, ThreadTurn, At, InProgram
  <2>3. CASE p = t /\ l = "s_wait"
    <3>1. PICK S : S = InPage(t)'
      OBVIOUS
    <3>2. S \subseteq ThreadsOf(t)
      BY <3>1 DEF InPage
    <3>3. Cardinality(S) \in Nat /\ Cardinality(ThreadsOf(t)) \in Nat
            /\ Cardinality(S) <= Cardinality(ThreadsOf(t))
      BY <3>2, Finiteness, CountSubset
    <3>4. thread_inprogress'[t] = Cardinality(ThreadsOf(t)) + 1 /\ mapped' = mapped
      BY <1>0, <1>7, <2>3 DEF Advance, TypeOK
    <3>5. t \in mapped
      BY <1>1, <2>1, <2>3 DEF PageSafe
    <3> QED BY <3>1, <3>3, <3>4, <3>5 DEF PageSafe
  <2>4. CASE p = t /\ l = "t_wait"
    <3>1. thread_inprogress[t] <= 1 /\ m = "sigreturn" /\ mapped' = mapped \ {t}
      BY <1>7, <2>4 DEF Advance, TaskTurn, ThreadTurn
    <3>2. Cardinality(InPage(t)) = 0
      BY <1>1, <2>1, <2>4, <3>1 DEF PageSafe
    <3>3. InPage(t) = {}
      BY <3>2, Finiteness, CountSubset
    <3>4. InPage(t)' = {}
      BY <1>0, <2>1, <2>4, <3>3 DEF InPage, ThreadsOf, TypeOK
    <3>5. act'[t] = "orig" /\ pc'[t] = "sigreturn"
      BY <1>0, <1>7, <2>1, <2>2, <2>4, <3>1 DEF TaskInv, InBlocked, TypeOK
    <3> QED BY <3>4, <3>5 DEF PageSafe
  <2>5. CASE p \in ThreadsOf(t) /\ l = "c_wait"
    <3>1. m = "sigreturn" /\ thread_inprogress'[t] = thread_inprogress[t] - 1
            /\ mapped' = mapped /\ act' = act
      BY <1>0, <1>7, <2>5 DEF Advance, ThreadTurn, ThreadsOf, TypeOK
    <3>2. PICK S : S = InPage(t)'
      OBVIOUS
    <3>3. p \in InPage(t) /\ S \subseteq InPage(t) \ {p}
      BY <1>0, <2>1, <2>5, <3>1, <3>2 DEF InPage, ThreadsOf, TypeOK
    <3>4. Cardinality(S) \in Nat /\ Cardinality(S) <= Cardinality(InPage(t)) - 1
      BY <3>3, Finiteness, CountRemoved
    <3>5. pc'[t] = pc[t]
      BY <1>0, <2>1, <2>5 DEF ThreadsOf, TypeOK
    <3> QED BY <1>1, <3>1, <3>2, <3>3, <3>4, <3>5 DEF PageSafe
  <2>6. CASE /\ ~(p = t /\ l \in {"s_wait", "t_wait"})
             /\ ~(p \in ThreadsOf(t) /\ l = "c_wait")
    <3>1. thread_inprogress'[t] = thread_inprogress[t]
      BY <1>0, <1>7, <2>6 DEF Advance, TypeOK, ThreadsOf
    <3>2. pc'[t] \in {"c_dec", "c_wait", "t_wait"} => pc[t] \in {"c_dec", "c_wait", "t_wait"}
      BY <1>0, <1>7, <2>1, <2>6 DEF Advance, TaskTurn, TypeOK
    <3>3. CASE mapped' = mapped
      BY <1>0, <1>2, <2>1, <2>2, <3>1, <3>2, <3>3 DEF TypeOK, ThreadsOf
    <3>4. CASE mapped' # mapped
      <4>1. p \in Tasks /\ p # t /\ l = "t_wait" /\ mapped' = mapped \ {p}
        BY <1>7, <2>6, <3>4 DEF Advance, ThreadTurn
      <4>2. pc'[t] = pc[t] /\ InPage(t)' = InPage(t)
        BY <1>0, <2>1, <4>1 DEF InPage, ThreadsOf, TypeOK
      <4> QED BY <1>1, <2>2, <3>1, <4>1, <4>2 DEF PageSafe
    <3> QED BY <3>3, <3>4
  <2> QED BY <2>3, <2>4, <2>5, <2>6
<1>8. ASSUME NEW u \in Tasks, NEW c \in Procs, NEW m, Spawn(u, c, m)
      PROVE  PageSafe(t)'
  BY <1>0, <1>2, <1>8 DEF Spawn, Go, sigVars, TypeOK, ThreadsOf
<1>9. ASSUME NEW p \in Procs, NEW l, NEW how \in EndStates \ {"dying"}, Death(p, l, how)
      PROVE  PageSafe(t)'
  <2>1. TaskOf(p) \in Tasks
    BY TaskOfType
  <2>2. /\ \A u \in Tasks : pc'[u] = IF u = TaskOf(p) THEN how ELSE pc[u]
        /\ \A th \in Threads :
             pc'[th] = IF Owner[th] = TaskOf(p) THEN "killed" ELSE pc[th]
    BY <1>9, <2>1, DeathEffect DEF Death, ThreadsOf
  <2> QED BY <1>0, <1>2, <1>9, <2>2 DEF Death, ThreadsOf
<1>10. ASSUME NEW u \in Tasks \cup {Criu}, Ignore(u) PROVE PageSafe(t)'
  BY <1>2, <1>10 DEF Ignore, taskVars
<1>11. ASSUME NEW p \in Procs, PieSigchld(p) PROVE PageSafe(t)'
  <2>1. CASE pc' = pc
    BY <1>2, <1>11, <2>1 DEF PieSigchld
  <2>2. CASE TaskOf(p) # t
    BY <1>0, <1>2, <1>11, <2>2 DEF PieSigchld, TaskOf, ThreadsOf
  <2>3. CASE TaskOf(p) = t /\ pc' # pc
    <3>1. t \in mapped /\ mapped' = mapped
      BY <1>0, <1>1, <1>11, <2>3, PieRuns DEF PageSafe, InRestorer, PieSigchld
    <3>2. pc'[t] = "stopped"
      <4>1. pc[t] \in InRestorer /\ TaskOf(t) = t
        BY <1>0, <1>11, <2>3, PieRuns DEF TaskOf
      <4>2. pc' = [q \in Procs |-> IF TaskOf(q) = t /\ ~Gone(q) /\ ~Unborn(q)
                                  THEN "stopped" ELSE pc[q]]
        BY <1>11, <2>3 DEF PieSigchld
      <4> QED BY <4>1, <4>2 DEF InRestorer, Gone, Unborn
    <3> QED BY <3>1, <3>2 DEF PageSafe
  <2> QED BY <2>1, <2>2, <2>3
<1>12. ASSUME NEW p \in Procs, PieZombies(p) \/ PieNrThreads(p) \/ PieUnlock(p)
       PROVE  PageSafe(t)'
  BY <1>2, <1>12 DEF PieZombies, PieNrThreads, PieUnlock, taskVars
<1> QED
  BY <1>3, <1>4, <1>5, <1>6, <1>7, <1>8, <1>9, <1>10, <1>11, <1>12, CriuShape
     DEF ProcMoves

\* When everybody has finished CR_STATE_RESTORE_CREDS the live procs wait there.
LEMMA CredsInvStep ==
  ASSUME ~NewPid, RestoreInv, CriuStep \/ ProcMoves \/ UNCHANGED vars
  PROVE  CredsInv'
<1>0. /\ TypeOK /\ StageInv /\ TaskInv /\ ThreadInv /\ CaughtUp /\ BarrierInv
      /\ CredsInv
  BY DEF RestoreInv, ProcInv, CountInv
<1> USE DEF CR_STATE_FAIL, CR_STATE_RESTORE_NS, CR_STATE_FORKING, CR_STATE_RESTORE,
        CR_STATE_RESTORE_SIGCHLD, CR_STATE_RESTORE_CREDS, CR_STATE_COMPLETE
<1> USE RestoreAssumption
<1>1. \A q \in RunningItems : q \in Live /\ q \in Counted /\ q \in Procs
  BY DEF RunningItems, Live, Counted, Procs, TaskOf, Alive
\* A step that lets nobody run who did not, and keeps procs at the barrier.
<1>2. ASSUME start' = start, creds \subseteq creds',
             \A q \in Procs : Running(q)' => Running(q) /\ (pc[q] = "c_wait" => pc'[q] = "c_wait")
      PROVE  CredsInv'
  BY <1>0, <1>2 DEF CredsInv, RunningItems
<1>3. CASE CriuComplete
  <2>1. AllFinished /\ start = CR_STATE_RESTORE_CREDS /\ pc' = pc
    BY <1>0, <1>3 DEF CriuComplete, taskVars, BarrierInv, StageInv, CriuInStage
  <2>2. \A q \in RunningItems : pc[q] = "c_wait"
    BY <1>1, <2>1, FinishedCatchesUp DEF RunningItems, Running, Gone, EndStates
  <2>3. RunningItems' = RunningItems
    BY <2>1 DEF RunningItems, Running, Gone, Unborn
  <2> QED BY <2>1, <2>2, <2>3 DEF CredsInv
<1>4. CASE CriuSetStart \/ CriuFailStart
  BY <1>0, <1>4 DEF CriuSetStart, CriuFailStart, CredsInv, TypeOK
<1>5. CASE CriuForkRoot
  BY <1>0, <1>5 DEF CriuForkRoot, sharedVars, StageInv, CriuInStage, CredsInv
<1>6. CASE CriuFinalize \/ CriuKill
  BY <1>0, <1>2, <1>6 DEF CriuFinalize, CriuKill, IsInit, sharedVars, TypeOK, Running, Gone,
     Unborn, EndStates
<1>7. CASE \/ CriuWaitInProgress \/ CriuRunScripts \/ CriuSetNr \/ CriuUnlockNetwork
           \/ CriuAttach \/ CriuStopOnSyscall \/ CriuFailNr \/ UNCHANGED vars
  <2>1. UNCHANGED <<start, creds, pc>>
    BY <1>7 DEF CriuWaitInProgress, CriuRunScripts, CriuSetNr, CriuUnlockNetwork,
     CriuAttach, CriuStopOnSyscall, CriuFailNr, vars, sharedVars, taskVars
  <2> QED BY <1>2, <2>1 DEF Running, Gone, Unborn
<1>8. ASSUME NEW p \in Procs, NEW l, NEW m, Advance(p, l, m) PROVE CredsInv'
  <2>1. /\ start' = start /\ creds \subseteq creds' /\ pc[p] = l
        /\ pc' = [pc EXCEPT ![p] = m] /\ Running(p)
    BY <1>8 DEF Advance, At, Go, TaskTurn, ThreadTurn, Running, Gone, Unborn, EndStates
  <2>2. CASE l # "c_wait"
    BY <1>0, <1>2, <2>1, <2>2 DEF TypeOK, Running, Gone, Unborn
  <2>3. CASE l = "c_wait"
    <3>1. p \in creds
      BY <1>0, <1>8, <2>1, <2>3 DEF Advance, TaskTurn, ThreadTurn, ThreadInv
    <3> QED BY <1>0, <2>1, <3>1 DEF CredsInv, RunningItems, TypeOK, Running, Gone, Unborn
  <2> QED BY <2>2, <2>3
<1>9. ASSUME NEW t \in Tasks, NEW c \in Procs, NEW m, Spawn(t, c, m) PROVE CredsInv'
  <2>1. start' = start /\ creds' = creds /\ pc[c] = "unborn" /\ pc' = [pc EXCEPT ![c] = m]
    BY <1>9 DEF Spawn, Go
  <2>2. start = CR_STATE_COMPLETE => c \notin Counted
    BY <1>0, <2>1 DEF CaughtUp, BeforeCreds, BeforeSigchld, BeforeRestore, BeforeForked
  <2> QED BY <1>0, <1>1, <2>1, <2>2 DEF CredsInv, RunningItems, TypeOK, Running, Gone, Unborn, Counted, TaskOf, Alive, Procs
<1>10. ASSUME NEW p \in Procs, NEW l, NEW how \in EndStates \ {"dying"}, Death(p, l, how)
       PROVE  CredsInv'
  <2>1. TaskOf(p) \in Tasks
    BY TaskOfType
  <2>2. pc' = [q \in Procs |-> IF q = TaskOf(p) THEN how
                 ELSE IF q \in ThreadsOf(TaskOf(p)) THEN "killed" ELSE pc[q]]
    BY <1>10, <2>1, DeathEffect DEF Death
  <2> QED BY <1>0, <1>2, <1>10, <2>1, <2>2 DEF Death, Running, Gone, Unborn, EndStates
<1>11. ASSUME NEW t \in Tasks \cup {Criu}, Ignore(t) PROVE CredsInv'
  BY <1>2, <1>11 DEF Ignore, taskVars, Running, Gone, Unborn
<1>12. ASSUME NEW p \in Procs, PieSigchld(p) PROVE CredsInv'
  BY <1>0, <1>2, <1>12 DEF PieSigchld, TypeOK, Running, Gone, Unborn, EndStates
<1>13. ASSUME NEW p \in Procs, PieZombies(p) \/ PieNrThreads(p) \/ PieUnlock(p)
       PROVE  CredsInv'
  BY <1>2, <1>13 DEF PieZombies, PieNrThreads, PieUnlock, sharedVars, taskVars, Running,
     Gone, Unborn
<1> QED
  BY <1>3, <1>4, <1>5, <1>6, <1>7, <1>8, <1>9, <1>10, <1>11, <1>12, <1>13
     DEF CriuStep, ProcMoves

-----------------------------------------------------------------------------
(* The theorems *)

LEMMA InitRestoreInv == ASSUME ~NewPid, Init PROVE RestoreInv
<1> USE RestoreAssumption
<1> USE DEF CR_STATE_FAIL, CR_STATE_RESTORE_NS, CR_STATE_FORKING, CR_STATE_RESTORE,
        CR_STATE_RESTORE_SIGCHLD, CR_STATE_RESTORE_CREDS, CR_STATE_COMPLETE
<1>1. TypeOK /\ StageInv
  BY InitTypeOK, InitStageInv
<1>2. \A p \in Procs : pc[p] = "unborn" /\ hpc[p] = "idle"
  BY DEF Init
<1>3. TaskInv /\ ThreadInv
  BY <1>2 DEF Init, TaskInv, ThreadInv, Procs, TaskPcs, ThreadPcs, InProgram, InRestorer,
     InBlocked, EndStates, Gone, Unborn
<1>4. SigInv
  BY <1>2 DEF Init, SigInv, Children, Procs
<1>5. CaughtUp /\ HandlerInv
  BY <1>2 DEF Init, CaughtUp, HandlerInv
<1>6. BarrierInv /\ NobodyDied
  BY DEF Init, BarrierInv, NobodyDied
<1>7. NrInv
  <2>1. PICK H : H = {t \in Tasks : Kind[t] # "helper"}
    OBVIOUS
  <2>2. IsFiniteSet(H) /\ H \cap Threads = {} /\ Counted = Threads \cup H
    BY <2>1, FS_Subset DEF Counted
  <2>3. Cardinality(Counted) = Cardinality(H) + Cardinality(Threads)
    <3>1. Cardinality(Threads \cup H)
            = Cardinality(Threads) + Cardinality(H) - Cardinality(Threads \cap H)
      BY <2>2, FS_Union
    <3>2. Cardinality(Threads \cap H) = 0
      <4>1. Threads \cap H = {}
        BY <2>2
      <4> QED BY <4>1, FS_EmptySet
    <3>3. Cardinality(Threads) \in Nat /\ Cardinality(H) \in Nat
      BY <2>2, FS_CardinalityType
    <3>4. Cardinality(Counted) = Cardinality(Threads \cup H)
      BY <2>2
    <3> QED BY <3>1, <3>2, <3>3, <3>4
  <2>4. start = CR_STATE_RESTORE_NS /\ nr_threads = Cardinality(Counted)
    BY <2>1, <2>3 DEF Init
  <2> QED BY <2>4 DEF NrInv
<1>8. PageInv
  BY <1>2 DEF Init, PageInv, PageSafe, Procs
<1>9. CredsInv
  BY DEF Init, CredsInv
<1> QED BY <1>1, <1>3, <1>4, <1>5, <1>6, <1>7, <1>8, <1>9 DEF RestoreInv, ProcInv, CountInv

\* The invariant of the stage barrier holds for every process tree restored
\* without a new pid namespace: whoever fails, dies or is signalled in between,
\* nr_in_progress is aborted or covers everybody who has not reached the barrier,
\* and nr_threads, the restorer's handlers and the shared page agree with it.
THEOREM BarrierHolds ==
  ASSUME ~NewPid
  PROVE  Spec => []RestoreInv
<1>1. Init => RestoreInv
  BY InitRestoreInv
<1>2. TypeOK' /\ StageInv' /\ RestoreInv /\ [Next]_vars => RestoreInv'
  <2> SUFFICES ASSUME TypeOK', StageInv', RestoreInv, [Next]_vars PROVE RestoreInv'
    OBVIOUS
  <2>1. CriuStep \/ ProcMoves \/ UNCHANGED vars
    BY StepShape DEF RestoreInv
  <2>2. TaskInv' /\ ThreadInv' /\ SigInv'
    BY <2>1, TaskInvStep, ThreadInvStep, SigInvStep
  <2>3. CaughtUp' /\ HandlerInv' /\ BarrierInv' /\ NobodyDied' /\ NrInv'
    BY <2>1, CaughtUpStep, HandlerInvStep, BarrierInvStep, NobodyDiedStep, NrInvStep
  <2>4. PageInv' /\ CredsInv'
    BY <2>1, PageInvStep, CredsInvStep
  <2> QED BY <2>2, <2>3, <2>4 DEF RestoreInv, ProcInv, CountInv
<1> QED BY <1>1, <1>2, Typing, StagesInOrder, PTL DEF Spec

\* The participants of CR_STATE_RESTORE_SIGCHLD and _CREDS that wait at the
\* barrier are the procs left.
LEMMA LiveAreRunning ==
  ASSUME RestoreInv, AllFinished,
         start \in {CR_STATE_RESTORE_SIGCHLD, CR_STATE_RESTORE_CREDS}
  PROVE  RunningItems = Live
<1>1. TaskInv /\ ThreadInv
  BY DEF RestoreInv, ProcInv
<1>2. \A p \in Counted : pc[p] \in {"zombie", "s_wait", "c_wait"}
  BY FinishedCatchesUp DEF CR_STATE_RESTORE_SIGCHLD, CR_STATE_RESTORE_CREDS
<1>3. \A p \in Live : p \in Procs /\ Alive(TaskOf(p)) /\ pc[p] \in {"s_wait", "c_wait"}
  BY <1>1, <1>2, RestoreAssumption DEF Live, Counted, Procs, TaskOf, Alive, TaskInv,
     ThreadInv, ThreadPcs
<1>4. Live \subseteq RunningItems
  BY <1>3 DEF RunningItems, Running, Gone, Unborn, EndStates
<1>5. RunningItems \subseteq Live
  BY DEF RunningItems, Live, Procs, TaskOf
<1> QED BY <1>4, <1>5

\* restore_switch_stage() never moves on while a task or thread that counts for
\* the stage has not reached its barrier, however deaths, aborts and the
\* handlers' decrements on behalf of zombies interleave.
THEOREM StagesTogether ==
  ASSUME ~NewPid
  PROVE  Spec => StageAdvancesTogether
<1>1. RestoreInv /\ [Next]_vars =>
        [start' \notin {start, CR_STATE_FAIL} =>
           \A p \in Participants(start) : Finished_(start, p)]_vars
  <2> SUFFICES ASSUME RestoreInv, [Next]_vars, start' \notin {start, CR_STATE_FAIL}
               PROVE  \A p \in Participants(start) : Finished_(start, p)
    OBVIOUS
  <2>1. CriuStep \/ ProcMoves \/ UNCHANGED vars
    BY StepShape DEF RestoreInv
  <2>2. ~ProcMoves
    BY ProcFrame
  <2>3. cpc \in {"set_start", "complete"}
    BY <2>1, <2>2 DEF CriuStep, CriuForkRoot, CriuWaitInProgress, CriuRunScripts,
       CriuSetNr, CriuSetStart, CriuUnlockNetwork, CriuAttach, CriuComplete,
       CriuStopOnSyscall, CriuFinalize, CriuKill, CriuFailNr, CriuFailStart, vars,
       sharedVars
  <2> QED BY <2>3 DEF RestoreInv, CountInv, BarrierInv, AllFinished
<1> QED BY <1>1, BarrierHolds, PTL DEF Spec, StageAdvancesTogether

\* When criu sizes CR_STATE_RESTORE_CREDS and attaches to the tasks, the zombies
\* are taken off nr_threads exactly once each and nobody else is missing, although
\* the restorer's handler decrements nr_threads two steps after nr_in_progress.
THEOREM NrThreadsCurrent ==
  ASSUME ~NewPid
  PROVE  Spec => []NrThreadsIsCurrent
<1>1. RestoreInv => NrThreadsIsCurrent
  <2> SUFFICES ASSUME RestoreInv,
                 \/ cpc \in {"set_nr", "set_start"} /\ target = CR_STATE_RESTORE_CREDS
                 \/ cpc \in {"attach", "complete"}
               PROVE  nr_threads = Cardinality(RunningItems)
    BY DEF NrThreadsIsCurrent
  <2>1. TypeOK /\ StageInv /\ BarrierInv /\ NrInv
    BY DEF RestoreInv, ProcInv, CountInv
  <2>2. AllFinished
    BY <2>1 DEF BarrierInv
  <2>3. \/ start = CR_STATE_RESTORE_CREDS
        \/ start = CR_STATE_RESTORE_SIGCHLD /\ cpc \in {"set_nr", "set_start"}
    BY <2>1 DEF StageInv, CriuInStage, TypeOK, CR_STATE_RESTORE_CREDS,
       CR_STATE_RESTORE_SIGCHLD, CR_STATE_FAIL, CR_STATE_COMPLETE
  <2>4. nr_threads = Cardinality(Live)
    BY <2>1, <2>3 DEF NrInv
  <2> QED BY <2>2, <2>3, <2>4, LiveAreRunning
<1> QED BY <1>1, BarrierHolds, PTL

\* The leader unmaps the page with task_entries only when thread_inprogress says
\* that no other thread is in the blob: no thread and no handler of the task can
\* touch it afterwards.
THEOREM UnmapIsSafe ==
  ASSUME ~NewPid
  PROVE  Spec => []NoUseAfterUnmap
<1>1. RestoreInv => NoUseAfterUnmap
  <2> SUFFICES ASSUME RestoreInv, NEW p \in Procs, TaskOf(p) \notin mapped
               PROVE  pc[p] \in Left /\ hpc[p] = "idle" /\ act[TaskOf(p)] = "orig"
    BY DEF NoUseAfterUnmap, Left
  <2>1. TaskOf(p) \in Tasks /\ PageSafe(TaskOf(p)) /\ HandlerInv
    BY TaskOfType DEF RestoreInv, CountInv, PageInv
  <2>2. pc[TaskOf(p)] \in Left /\ act[TaskOf(p)] = "orig" /\ InPage(TaskOf(p)) = {}
    BY <2>1 DEF PageSafe
  <2>3. pc[p] \in Left
    BY <2>2, RestoreAssumption DEF TaskOf, InPage, ThreadsOf, Procs
  <2> QED BY <2>1, <2>2, <2>3 DEF HandlerInv, Left, EndStates
<1> QED BY <1>1, BarrierHolds, PTL

\* "processes can be resumed only when all credentials are restored": when
\* anybody is resumed, every live task and thread has its credentials or is
\* about to die in BUG() because restore_creds() failed.
THEOREM CredsBeforeResume ==
  ASSUME ~NewPid
  PROVE  Spec => []ResumedOnlyWithCreds
<1>1. RestoreInv => ResumedOnlyWithCreds
  <2> SUFFICES ASSUME RestoreInv, NEW p \in Procs, pc[p] \in {"trapped", "run", "tstop"}
               PROVE  \A q \in RunningItems :
                        q \in creds \/ (pc[q] = "c_wait" /\ start = CR_STATE_COMPLETE)
    BY DEF ResumedOnlyWithCreds
  <2>1. TypeOK /\ StageInv /\ CredsInv
    BY DEF RestoreInv, ProcInv
  <2>2. start = CR_STATE_COMPLETE
    BY <2>1 DEF StageInv, InStage, AfterCreds, TypeOK, CR_STATE_COMPLETE, CR_STATE_FAIL
  <2> QED BY <2>1, <2>2 DEF CredsInv
<1> QED BY <1>1, BarrierHolds, PTL

=============================================================================
