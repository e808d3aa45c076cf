---------------------------- MODULE RestoreStages ----------------------------
(***************************************************************************)
(* The stage barrier of "criu restore": restore_root_task() in             *)
(* cr-restore.c drives every restored task and thread through the stages   *)
(* of include/restorer.h with two futexes in shared memory, start and      *)
(* nr_in_progress.  Tasks may fail, helpers and zombies die on purpose,    *)
(* SIGCHLD handlers run in between, and the thread group leader unmaps the *)
(* shared page before it returns to the application.                       *)
(*                                                                         *)
(* A "proc" is one thread of control: a task (its leader thread) or one of *)
(* the further threads that the restorer blob clones.                      *)
(***************************************************************************)
EXTENDS Integers, FiniteSets

CONSTANTS
  Tasks,      \* the items of the process tree (pstree_item), helpers included
  Threads,    \* the threads that are not group leaders
  Root,       \* root_item
  Criu,       \* the criu process itself, parent of Root
  Outside,    \* the reaper of the outer pid namespace
  NoSig,      \* no SIGCHLD is pending
  Free,       \* the zombie_lock is not taken
  ParentOf,   \* the tree: item->parent
  Kind,       \* item->state: "alive", "stopped", "dead" or "helper"
  Owner,      \* the task a thread belongs to
  Leader,     \* item->rst->pgrp_leader; Outside when restore_pgid() joins nothing
  NewPid      \* TRUE: restored in a new pid namespace (CLONE_NEWPID)

ASSUME RestoreAssumption ==
  /\ IsFiniteSet(Tasks) /\ IsFiniteSet(Threads)
  /\ Tasks \cap Threads = {}
  /\ Root \in Tasks
  /\ {Criu, Outside, NoSig, Free} \cap (Tasks \cup Threads) = {}
  /\ Criu # Outside
  /\ ParentOf \in [Tasks -> Tasks \cup {Criu}]
  /\ \A t \in Tasks : ParentOf[t] = Criu <=> t = Root
  /\ Kind \in [Tasks -> {"alive", "stopped", "dead", "helper"}]
  /\ Owner \in [Threads -> {t \in Tasks : Kind[t] \in {"alive", "stopped"}}]
  /\ Leader \in [Tasks -> Tasks \cup {Outside}]
  /\ NewPid \in BOOLEAN

Procs == Tasks \cup Threads

\* The enum of include/restorer.h.
CR_STATE_FAIL            == -1
CR_STATE_RESTORE_NS      == 0
CR_STATE_FORKING         == 1
CR_STATE_RESTORE         == 2
CR_STATE_RESTORE_SIGCHLD == 3
CR_STATE_RESTORE_CREDS   == 4
CR_STATE_COMPLETE        == 5

VARIABLES
  mayfail,            \* whether the operations that can fail may fail
  start,              \* task_entries->start
  nr_in_progress,     \* task_entries->nr_in_progress; negative = FUTEX_ABORT_FLAG
  nr_threads,         \* task_entries->nr_threads
  zombie_lock,        \* task_entries->zombie_lock: Free or the zombie holding it
  cpc,                \* where criu is in restore_root_task()
  target,             \* the stage criu is switching to or waiting for
  criu_act,           \* criu's own SIGCHLD handler is installed
  network,            \* "locked" or "unlocked" (network_unlock)
  pc,                 \* where each proc is
  ppid,               \* the real parent of a task
  act,                \* a task's SIGCHLD disposition: "restore", "pie" or "orig"
  blocked,            \* procs that block SIGCHLD
  sigpend,            \* the child whose SIGCHLD is pending, one per process
  hpc,                \* progress of the restorer's SIGCHLD handler on a proc
  nr_zombies,         \* item->rst->nr_zombies
  zombies_inprogress, \* the restorer's counter of children still to die
  thread_inprogress,  \* the restorer's counter of threads in the blob
  creds,              \* procs whose credentials are restored
  repair,             \* tasks whose TCP sockets are in repair mode
  mapped,             \* tasks that still map task_entries
  pgrp_set,           \* the group leaders whose rst->pgrp_set is 1
  attached            \* procs criu traces

criuVars == <<cpc, target, criu_act, network, attached>>
sharedVars == <<start, nr_in_progress, nr_threads, zombie_lock>>
sigVars == <<act, blocked, sigpend, hpc>>
taskVars == <<pc, ppid, nr_zombies, zombies_inprogress, thread_inprogress,
              creds, repair, mapped, pgrp_set>>
vars == <<mayfail, criuVars, sharedVars, sigVars, taskVars>>

-----------------------------------------------------------------------------
(* Helpers *)

Alive(t)   == Kind[t] \in {"alive", "stopped"}
TaskOf(p)  == IF p \in Tasks THEN p ELSE Owner[p]
ThreadsOf(t) == {th \in Threads : Owner[th] = t}
Children(t)  == {c \in Tasks : ParentOf[c] = t}

EndStates  == {"exit0", "exit1", "zombie", "killed", "dying"}
Gone(p)    == pc[p] \in EndStates
Unborn(p)  == pc[p] \in {"unborn", "lost"}
Running(p) == ~Gone(p) /\ ~Unborn(p) /\ pc[p] # "stopped"

\* The procs of the items that are neither dead nor helpers.
RunningItems == {p \in Procs : Alive(TaskOf(p)) /\ Running(p)}

\* A proc executes its main line only when no SIGCHLD handler runs on it, and
\* the kernel delivers a pending SIGCHLD before it returns to the main line.
At(p, l) ==
  /\ pc[p] = l /\ hpc[p] = "idle"
  /\ p \in Tasks /\ p \notin blocked => sigpend[p] = NoSig
Go(p, l) == pc' = [pc EXCEPT ![p] = l]

\* Mutants: the helpers are forgotten; one participant too few.
stage_participants_NoHelpers(stage) ==
  CASE stage = CR_STATE_FAIL       -> 0
    [] stage = CR_STATE_RESTORE_NS -> 1
    [] stage = CR_STATE_FORKING    ->
         Cardinality({t \in Tasks : Kind[t] # "helper"})
    [] OTHER                       -> nr_threads

stage_participants_OffByOne(stage) ==
  CASE stage = CR_STATE_FAIL       -> 0
    [] stage = CR_STATE_RESTORE_NS -> 1
    [] stage = CR_STATE_FORKING    -> Cardinality(Tasks)
    [] OTHER                       -> nr_threads - 1

\* stage_participants()
stage_participants(stage) ==
  CASE stage = CR_STATE_FAIL       -> 0
    [] stage = CR_STATE_RESTORE_NS -> 1
    [] stage = CR_STATE_FORKING    -> Cardinality(Tasks)
    [] OTHER                       -> nr_threads

\* Mutant: waiters are woken but the counter does not say "aborted".
Abort_WakeOnly == UNCHANGED nr_in_progress

\* futex_abort_and_wake() and futex_dec_and_wake() on nr_in_progress: an
\* aborted counter keeps its sign through the decrements that follow.
Abort == nr_in_progress' = -1
Dec   == nr_in_progress' = nr_in_progress - 1

\* The kernel's part of a task's death: its threads die with it, its children
\* get a new parent, and SIGCHLD is raised unless one is already pending.  The
\* init of a pid namespace first waits for the namespace to die (PidNsZap).
Raise(c) ==
  IF ppid[c] \in DOMAIN sigpend /\ sigpend[ppid[c]] = NoSig
  THEN [sigpend EXCEPT ![ppid[c]] = c] ELSE sigpend

Reaper(t) == IF NewPid /\ t # Root THEN Root ELSE Outside
IsInit(t) == NewPid /\ t = Root

Die(t, how) ==
  /\ pc' = [p \in Procs |->
       IF p = t THEN (IF IsInit(t) THEN "dying" ELSE how)
       ELSE IF p \in ThreadsOf(t) THEN "killed" ELSE pc[p]]
  /\ hpc' = [p \in Procs |-> IF TaskOf(p) = t THEN "idle" ELSE hpc[p]]
  /\ ppid' = [c \in Tasks |-> IF ppid[c] = t THEN Reaper(t) ELSE ppid[c]]
  /\ sigpend' = IF IsInit(t) THEN sigpend ELSE Raise(t)

Init ==
  /\ mayfail \in BOOLEAN
  /\ start = CR_STATE_RESTORE_NS
  /\ nr_in_progress = 1
  /\ nr_threads = Cardinality({t \in Tasks : Kind[t] # "helper"})
                    + Cardinality(Threads)
  /\ zombie_lock = Free
  /\ cpc = "fork" /\ target = CR_STATE_RESTORE_NS
  /\ criu_act = TRUE
  /\ network = "locked"
  /\ pc = [p \in Procs |-> "unborn"]
  /\ ppid = ParentOf
  /\ act = [t \in Tasks |-> "restore"]
  /\ blocked = {}
  /\ sigpend = [t \in Tasks \cup {Criu} |-> NoSig]
  /\ hpc = [p \in Procs |-> "idle"]
  /\ nr_zombies = [t \in Tasks |-> 0]
  /\ zombies_inprogress = [t \in Tasks |-> 0]
  /\ thread_inprogress = [t \in Tasks |-> 0]
  /\ creds = {}
  /\ repair = {t \in Tasks : Alive(t)}
  /\ mapped = Tasks
  /\ pgrp_set = {}
  /\ attached = {}

-----------------------------------------------------------------------------
(* criu: restore_root_task() *)

\* fork_with_pid(init) forks, returns an error, or returns the 1 that
\* pb_read_one() left when it fails before clone(): then criu goes on and the
\* task is "lost".
CriuForkRoot ==
  /\ cpc = "fork"
  /\ \/ cpc' = "wait" /\ Go(Root, "ns_dec")
     \/ mayfail /\ cpc' = "wait" /\ Go(Root, "lost")
     \/ mayfail /\ cpc' = "error" /\ UNCHANGED pc
  /\ UNCHANGED <<target, criu_act, network, attached, sharedVars, sigVars,
                 ppid, nr_zombies, zombies_inprogress, thread_inprogress,
                 creds, repair, mapped, pgrp_set>>

\* What restore_root_task() does with the value of restore_switch_stage().
StageSucceeded ==
  CASE target = CR_STATE_RESTORE_NS      -> "scripts"
    [] target = CR_STATE_RESTORE_SIGCHLD -> "sigaction"
    [] target = CR_STATE_RESTORE_CREDS   -> "attach"
    [] OTHER                             -> "set_nr"

\* Mutant: the sign of the counter is not looked at.
StageFailed_Unsigned == StageSucceeded

StageFailed ==
  CASE target \in {CR_STATE_RESTORE, CR_STATE_RESTORE_SIGCHLD} -> "kill"
    [] target = CR_STATE_RESTORE_CREDS                         -> "bug"
    [] OTHER                                                   -> "fail_nr"

\* restore_wait_inprogress_tasks()
CriuWaitInProgress ==
  /\ cpc = "wait" /\ nr_in_progress <= 0
  /\ cpc' = IF nr_in_progress = 0 THEN StageSucceeded ELSE StageFailed
  /\ target' = IF cpc' = "set_nr" THEN target + 1 ELSE target
  /\ UNCHANGED <<criu_act, network, attached, sharedVars, sigVars, taskVars>>

\* run_scripts("setup-namespaces")
CriuRunScripts ==
  /\ cpc = "scripts"
  /\ \/ cpc' = "set_nr" /\ target' = CR_STATE_FORKING
     \/ mayfail /\ cpc' = "fail_nr" /\ UNCHANGED target
  /\ UNCHANGED <<criu_act, network, attached, sharedVars, sigVars, taskVars>>

\* __restore_switch_stage(): first the counter, then the stage.
CriuSetNr ==
  /\ cpc = "set_nr"
  /\ nr_in_progress' = stage_participants(target)
  /\ cpc' = "set_start"
  /\ UNCHANGED <<target, criu_act, network, attached, start, nr_threads,
                 zombie_lock, sigVars, taskVars>>

CriuSetStart ==
  /\ cpc = "set_start"
  /\ start' = target
  /\ cpc' = "wait"
  /\ UNCHANGED <<target, criu_act, network, attached, nr_in_progress,
                 nr_threads, zombie_lock, sigVars, taskVars>>

\* The SIGCHLD disposition is put back, then the network is unlocked.
CriuUnlockNetwork ==
  /\ cpc = "sigaction"
  /\ \/ /\ criu_act' = FALSE /\ network' = "unlocked"
        /\ target' = CR_STATE_RESTORE_CREDS /\ cpc' = "set_nr"
     \/ /\ mayfail /\ cpc' = "kill" /\ UNCHANGED <<criu_act, network, target>>
  /\ UNCHANGED <<attached, sharedVars, sigVars, taskVars>>

\* attach_to_tasks(): ptrace every thread; it stops at the first failure.
CriuAttach ==
  /\ cpc = "attach"
  /\ \E s \in SUBSET RunningItems : (s = RunningItems \/ mayfail) /\ attached' = s
  /\ cpc' = "complete"
  /\ UNCHANGED <<target, criu_act, network, sharedVars, sigVars, taskVars>>

CriuComplete ==
  /\ cpc = "complete"
  /\ start' = CR_STATE_COMPLETE
  /\ cpc' = IF attached = RunningItems THEN "stop" ELSE "detach"
  /\ UNCHANGED <<target, criu_act, network, attached, nr_in_progress,
                 nr_threads, zombie_lock, sigVars, taskVars>>

\* parasite_stop_on_syscall(nr_threads, rt_sigreturn): -1 when a traced task
\* is found dead instead of trapped.
CriuStopOnSyscall ==
  /\ cpc = "stop"
  /\ \/ /\ Cardinality({p \in attached : pc[p] = "trapped"}) = nr_threads
        /\ cpc' = "finalize"
     \/ /\ \E p \in attached : Gone(p)
        /\ cpc' = "detach"
  /\ UNCHANGED <<target, criu_act, network, attached, sharedVars, sigVars,
                 taskVars>>

\* finalize_restore(): unmap the restorer blob, stop the tasks that were
\* stopped, detach; after an error only detach.
CriuFinalize ==
  /\ cpc \in {"finalize", "detach"}
  /\ \E ctl \in SUBSET {t \in Tasks : Alive(t)} :
       /\ ctl = {t \in Tasks : Alive(t)} \/ mayfail
       /\ pc' = [p \in Procs |->
            IF pc[p] # "trapped" THEN pc[p]
            ELSE IF cpc = "finalize" /\ TaskOf(p) \in ctl
                      /\ Kind[TaskOf(p)] = "stopped"
                 THEN "tstop" ELSE "run"]
  /\ attached' = {}
  /\ cpc' = "done"
  /\ UNCHANGED <<target, criu_act, network, sharedVars, sigVars, ppid,
                 nr_zombies, zombies_inprogress, thread_inprogress, creds,
                 repair, mapped, pgrp_set>>

\* Mutants: only init is killed, or nobody is.
OutKill_OnlyInit(p) == TaskOf(p) = Root
OutKill_Nobody(p)   == FALSE

\* Whom out_kill sends SIGKILL.
OutKill(p) == NewPid => TaskOf(p) = Root

\* out_kill: every task, or only init when it owns the pid namespace; the
\* kernel then kills the rest (PidNsZap).
CriuKill ==
  /\ cpc = "kill"
  /\ pc' = [p \in Procs |->
       IF OutKill(p) /\ ~Gone(p) /\ ~Unborn(p)
       THEN (IF IsInit(p) THEN "dying" ELSE "killed") ELSE pc[p]]
  /\ hpc' = [p \in Procs |-> IF pc'[p] # pc[p] THEN "idle" ELSE hpc[p]]
  /\ sigpend' = IF NewPid THEN sigpend ELSE Raise(Root)
  /\ cpc' = "fail_nr"
  /\ UNCHANGED <<target, criu_act, network, attached, sharedVars, act, blocked,
                 ppid, nr_zombies, zombies_inprogress, thread_inprogress,
                 creds, repair, mapped, pgrp_set>>

\* __restore_switch_stage(CR_STATE_FAIL)
CriuFailNr ==
  /\ cpc = "fail_nr"
  /\ nr_in_progress' = stage_participants(CR_STATE_FAIL)
  /\ cpc' = "fail_start"
  /\ UNCHANGED <<target, criu_act, network, attached, start, nr_threads,
                 zombie_lock, sigVars, taskVars>>

CriuFailStart ==
  /\ cpc = "fail_start"
  /\ start' = CR_STATE_FAIL
  /\ cpc' = "failed"
  /\ UNCHANGED <<target, criu_act, network, attached, nr_in_progress,
                 nr_threads, zombie_lock, sigVars, taskVars>>

CriuStep ==
  \/ CriuForkRoot \/ CriuWaitInProgress \/ CriuRunScripts
  \/ CriuSetNr \/ CriuSetStart \/ CriuUnlockNetwork \/ CriuAttach
  \/ CriuComplete \/ CriuStopOnSyscall \/ CriuFinalize \/ CriuKill
  \/ CriuFailNr \/ CriuFailStart

-----------------------------------------------------------------------------
(* Tasks up to the forking stage: restore_task_with_children() *)

\* What a step of a task that only moves on leaves alone.
Others == <<criuVars, nr_threads, zombie_lock, sigVars, ppid, nr_zombies,
            zombies_inprogress, thread_inprogress, creds, repair, mapped, pgrp_set>>

\* A task that gives up before the restorer just exits; its parent finds out.
TaskExit(t, how) ==
  /\ Die(t, how)
  /\ UNCHANGED <<criuVars, sharedVars, act, blocked, nr_zombies,
                 zombies_inprogress, thread_inprogress, creds, repair, mapped, pgrp_set>>

\* The two halves of restore_finish_stage(): decrement, then wait until start
\* leaves the stage.
FinishStage(p, from, to) == At(p, from) /\ Dec /\ Go(p, to)

StageOver(stage) == start # stage

\* Root alone finishes CR_STATE_RESTORE_NS.
RootFinishNs ==
  /\ FinishStage(Root, "ns_dec", "ns_wait")
  /\ UNCHANGED <<start, Others>>

RootLeaveNs ==
  /\ At(Root, "ns_wait") /\ StageOver(CR_STATE_RESTORE_NS)
  /\ IF start = CR_STATE_FAIL
     THEN TaskExit(Root, "exit1")
     ELSE Go(Root, "prepare") /\ UNCHANGED <<sharedVars, Others>>

\* collect_mount_info() .. close_old_fds(); root also prepares the namespaces
\* and the shared resources.
TaskPrepare(t) ==
  /\ At(t, "prepare")
  /\ \/ Go(t, "fork_children") /\ UNCHANGED <<sharedVars, Others>>
     \/ mayfail /\ TaskExit(t, "exit1")

\* Mutants: the zombie is not counted; counted down.
CountZombie_Not(c)  == 0
CountZombie_Down(c) == IF Kind[c] = "dead" THEN -1 ELSE 0

\* fork_with_pid(): item->parent->rst->nr_zombies++ for a dead child.
CountZombie(c) == IF Kind[c] = "dead" THEN 1 ELSE 0

\* create_children_and_session(): fork_with_pid() per child.  A failure with
\* LAST_PID_PATH returns 1 for a child that has a core image, which counts as
\* success: that child is "lost".
TaskForkChild(t, c) ==
  /\ At(t, "fork_children") /\ ParentOf[c] = t /\ pc[c] = "unborn"
  /\ nr_zombies' = [nr_zombies EXCEPT ![t] = @ + CountZombie(c)]
  /\ \/ Go(c, "prepare")
     \/ mayfail /\ Kind[c] # "helper" /\ Go(c, "lost")
  /\ UNCHANGED <<sharedVars, criuVars, sigVars, ppid, zombies_inprogress,
                 thread_inprogress, creds, repair, mapped, pgrp_set>>

\* The image is missing or bad, clone() or restore_sid() fails; for a helper
\* also LAST_PID_PATH.
TaskForkFails(t) ==
  /\ At(t, "fork_children") /\ mayfail
  /\ \E c \in Children(t) : pc[c] = "unborn"
  /\ TaskExit(t, "exit1")

\* Every child is forked: unmap_guard_pages().
TaskUnmapGuards(t) ==
  /\ At(t, "fork_children") /\ \A c \in Children(t) : pc[c] # "unborn"
  /\ \/ Go(t, "pgid") /\ UNCHANGED <<sharedVars, Others>>
     \/ mayfail /\ TaskExit(t, "exit1")

\* futex_wait_until(&leader->rst->pgrp_set, 1), which nothing interrupts.
LeaderReady(t) == Leader[t] \in {t, Outside} \cup pgrp_set

\* restore_pgid(), whose ids are PstreeIds, then CR_STATE_FORKING.
TaskFinishForking(t) ==
  /\ At(t, "pgid") /\ LeaderReady(t)
  /\ \/ /\ FinishStage(t, "pgid", "fork_wait")
        /\ pgrp_set' = pgrp_set \cup ({t} \cap {Leader[t]})
        /\ UNCHANGED <<start, criuVars, nr_threads, zombie_lock, sigVars, ppid,
                       nr_zombies, zombies_inprogress, thread_inprogress,
                       creds, repair, mapped>>
     \/ mayfail /\ TaskExit(t, "exit1")

\* The dead go on to die, the others to restore themselves.
restore_one_task(t) == IF Kind[t] = "dead" THEN "z_dec" ELSE "wait_helpers"

\* A helper returns 0, everybody else goes to restore_one_task().
TaskLeaveForking(t) ==
  /\ At(t, "fork_wait") /\ StageOver(CR_STATE_FORKING)
  /\ IF start = CR_STATE_FAIL THEN TaskExit(t, "exit1")
     ELSE IF Kind[t] = "helper" THEN TaskExit(t, "exit0")
     ELSE /\ Go(t, restore_one_task(t))
          /\ UNCHANGED <<sharedVars, Others>>

-----------------------------------------------------------------------------
(* Zombies: restore_one_zombie() *)

ZombieFinishRestore(t) ==
  /\ FinishStage(t, "z_dec", "z_wait")
  /\ UNCHANGED <<start, Others>>

\* Mutant: zombies do not wait for each other.
TakeZombieLock_Not(t) == zombie_lock' = t

\* mutex_lock(&task_entries->zombie_lock)
TakeZombieLock(t) == zombie_lock = Free /\ zombie_lock' = t

\* The stage's value is not looked at: a zombie dies after a failure too.  It
\* takes zombie_lock first, and the parent's handler releases it.
ZombieDie(t) ==
  /\ At(t, "z_wait") /\ StageOver(CR_STATE_RESTORE)
  /\ TakeZombieLock(t)
  /\ Die(t, "zombie")
  /\ UNCHANGED <<criuVars, start, nr_in_progress, nr_threads, act, blocked,
                 nr_zombies, zombies_inprogress, thread_inprogress, creds,
                 repair, mapped, pgrp_set>>

-----------------------------------------------------------------------------
(* Live tasks: restore_one_alive_task() and __export_restore_task() *)

\* pstree_wait_helpers()
TaskWaitHelpers(t) ==
  /\ At(t, "wait_helpers")
  /\ \A c \in Children(t) : Kind[c] = "helper" => Gone(c)
  /\ Go(t, "resources") /\ UNCHANGED <<sharedVars, Others>>

\* prepare_fds() .. sigreturn_restore(), then the jump into the blob, whose
\* first act is to install its own SIGCHLD handler.
TaskResources(t) ==
  /\ At(t, "resources")
  /\ \/ /\ Go(t, "restorer")
        /\ act' = [act EXCEPT ![t] = "pie"]
        /\ UNCHANGED <<sharedVars, criuVars, blocked, sigpend, hpc, ppid,
                       nr_zombies, zombies_inprogress, thread_inprogress,
                       creds, repair, mapped, pgrp_set>>
     \/ mayfail /\ TaskExit(t, "exit1")

\* core_restore_end: abort the barrier, then exit_group(1).
RestorerFail(p) ==
  /\ mayfail
  /\ Abort
  /\ Die(TaskOf(p), "exit1")
  /\ UNCHANGED <<criuVars, start, nr_threads, zombie_lock, act, blocked,
                 nr_zombies, zombies_inprogress, thread_inprogress, creds,
                 repair, mapped, pgrp_set>>

\* The mappings, prctl()s and the exe link.
TaskRestoreMm(t) ==
  /\ At(t, "restorer")
  /\ \/ Go(t, "clone_threads") /\ UNCHANGED <<sharedVars, Others>>
     \/ RestorerFail(t)

\* The value of clone() is not looked at: a thread that is not created is
\* simply "lost".
TaskCloneThread(t, th) ==
  /\ At(t, "clone_threads") /\ th \in ThreadsOf(t) /\ pc[th] = "unborn"
  /\ \/ Go(th, "t_new")
     \/ mayfail /\ Go(th, "lost")
  /\ UNCHANGED <<sharedVars, Others>>

\* rlimits and posix timers, zombies_inprogress, then CR_STATE_RESTORE.
TaskFinishRestore(t) ==
  /\ \A th \in ThreadsOf(t) : pc[th] # "unborn"
  /\ \/ /\ FinishStage(t, "clone_threads", "r_wait")
        /\ zombies_inprogress' = [zombies_inprogress EXCEPT ![t] = nr_zombies[t]]
        /\ UNCHANGED <<start, nr_threads, zombie_lock, criuVars, sigVars, ppid,
                       nr_zombies, thread_inprogress, creds, repair, mapped, pgrp_set>>
     \/ At(t, "clone_threads") /\ RestorerFail(t)

TaskLeaveRestore(t) ==
  /\ At(t, "r_wait") /\ StageOver(CR_STATE_RESTORE)
  /\ Go(t, "collect") /\ UNCHANGED <<sharedVars, Others>>

\* Mutant: the signals stay open.
BlockSignals_Not(p) == UNCHANGED blocked

\* sigprocmask(SIG_BLOCK, all)
BlockSignals(p) == blocked' = blocked \cup {p}

\* Wait for the zombies, then block signals and restore SIGCHLD's action.
TaskCollected(t) ==
  /\ At(t, "collect") /\ zombies_inprogress[t] <= 0
  /\ BlockSignals(t)
  /\ act' = [act EXCEPT ![t] = "orig"]
  /\ Go(t, "signals")
  /\ UNCHANGED <<criuVars, sharedVars, sigpend, hpc, ppid, nr_zombies,
                 zombies_inprogress, thread_inprogress, creds, repair, mapped, pgrp_set>>

\* restore_signals(), then CR_STATE_RESTORE_SIGCHLD; leaders and threads.
FinishSigchld(p) ==
  \/ FinishStage(p, "signals", "s_wait") /\ UNCHANGED <<start, Others>>
  \/ At(p, "signals") /\ RestorerFail(p)

\* Mutant: a failure of restore_creds() takes the error path at once.
TaskCreds_FailsAtOnce(t) ==
  /\ At(t, "s_wait") /\ StageOver(CR_STATE_RESTORE_SIGCHLD)
  /\ \/ /\ repair' = repair \ {t}
        /\ creds' = creds \cup {t}
        /\ thread_inprogress' =
             [thread_inprogress EXCEPT ![t] = Cardinality(ThreadsOf(t)) + 1]
        /\ Go(t, "c_dec")
        /\ UNCHANGED <<criuVars, sharedVars, sigVars, ppid, nr_zombies,
                       zombies_inprogress, mapped, pgrp_set>>
     \/ RestorerFail(t)

\* Who has its own credentials afterwards: each of its calls may fail.
restore_creds(t) == {creds \cup {t}} \cup (IF mayfail THEN {creds} ELSE {})

\* Repair mode off, credentials, thread_inprogress.  A failure of
\* restore_creds() is kept until after the next stage.
TaskCreds(t) ==
  /\ At(t, "s_wait") /\ StageOver(CR_STATE_RESTORE_SIGCHLD)
  /\ repair' = repair \ {t}
  /\ creds' \in restore_creds(t)
  /\ thread_inprogress' =
       [thread_inprogress EXCEPT ![t] = Cardinality(ThreadsOf(t)) + 1]
  /\ Go(t, "c_dec")
  /\ UNCHANGED <<criuVars, sharedVars, sigVars, ppid, nr_zombies,
                 zombies_inprogress, mapped, pgrp_set>>

FinishCreds(p) ==
  FinishStage(p, "c_dec", "c_wait") /\ UNCHANGED <<start, Others>>

\* BUG() when the credentials could not be restored.
TaskLeaveCreds(t) ==
  /\ At(t, "c_wait") /\ StageOver(CR_STATE_RESTORE_CREDS)
  /\ IF t \in creds
     THEN Go(t, "t_wait") /\ UNCHANGED <<sharedVars, Others>>
     ELSE TaskExit(t, "exit1")

\* Mutant: off by one.
ThreadsDone_OffByOne(t) == thread_inprogress[t] <= 2

\* Only the leader is left in the blob.
ThreadsDone(t) == thread_inprogress[t] <= 1

\* Wait until the threads stop using task_entries, unmap it.
TaskUnmap(t) ==
  /\ At(t, "t_wait") /\ ThreadsDone(t)
  /\ mapped' = mapped \ {t}
  /\ Go(t, "sigreturn")
  /\ UNCHANGED <<criuVars, sharedVars, sigVars, ppid, nr_zombies,
                 zombies_inprogress, thread_inprogress, creds, repair, pgrp_set>>

\* rt_sigreturn: a traced proc stops on the exit from it, another one runs.
Sigreturn(p) ==
  /\ At(p, "sigreturn")
  /\ Go(p, IF p \in attached THEN "trapped" ELSE "run")
  /\ UNCHANGED <<sharedVars, Others>>

-----------------------------------------------------------------------------
(* Threads: __export_restore_thread() *)

\* "All signals must be handled by thread leader", then the thread's own
\* credentials, then CR_STATE_RESTORE.
ThreadStart(th) ==
  \/ /\ FinishStage(th, "t_new", "r_wait")
     /\ BlockSignals(th)
     /\ creds' = creds \cup {th}
     /\ UNCHANGED <<criuVars, start, nr_threads, zombie_lock, act, sigpend, hpc,
                    ppid, nr_zombies, zombies_inprogress, thread_inprogress,
                    repair, mapped, pgrp_set>>
  \/ At(th, "t_new") /\ RestorerFail(th)

ThreadLeaveRestore(th) ==
  /\ At(th, "r_wait") /\ StageOver(CR_STATE_RESTORE)
  /\ Go(th, "signals") /\ UNCHANGED <<sharedVars, Others>>

ThreadLeaveSigchld(th) ==
  /\ At(th, "s_wait") /\ StageOver(CR_STATE_RESTORE_SIGCHLD)
  /\ Go(th, "c_dec") /\ UNCHANGED <<sharedVars, Others>>

\* The thread leaves task_entries alone from here on.
ThreadLeaveCreds(th) ==
  /\ At(th, "c_wait") /\ StageOver(CR_STATE_RESTORE_CREDS)
  /\ thread_inprogress' = [thread_inprogress EXCEPT ![Owner[th]] = @ - 1]
  /\ Go(th, "sigreturn")
  /\ UNCHANGED <<criuVars, sharedVars, sigVars, ppid, nr_zombies,
                 zombies_inprogress, creds, repair, mapped, pgrp_set>>

TaskStep(t) ==
  \/ t = Root /\ (RootFinishNs \/ RootLeaveNs)
  \/ TaskPrepare(t) \/ TaskForkFails(t)
  \/ TaskUnmapGuards(t) \/ TaskFinishForking(t)
  \/ \E c \in Tasks : TaskForkChild(t, c)
  \/ TaskLeaveForking(t) \/ ZombieFinishRestore(t) \/ ZombieDie(t)
  \/ TaskWaitHelpers(t) \/ TaskResources(t) \/ TaskRestoreMm(t)
  \/ \E th \in Threads : TaskCloneThread(t, th)
  \/ TaskFinishRestore(t) \/ TaskLeaveRestore(t) \/ TaskCollected(t)
  \/ FinishSigchld(t) \/ TaskCreds(t) \/ FinishCreds(t)
  \/ TaskLeaveCreds(t) \/ TaskUnmap(t) \/ Sigreturn(t)

ThreadStep(th) ==
  \/ ThreadStart(th) \/ ThreadLeaveRestore(th) \/ FinishSigchld(th)
  \/ ThreadLeaveSigchld(th) \/ FinishCreds(th) \/ ThreadLeaveCreds(th)
  \/ Sigreturn(th)

-----------------------------------------------------------------------------
(* SIGCHLD handlers *)

TakeSig(t) == sigpend' = [sigpend EXCEPT ![t] = NoSig]

\* cr-restore.c's handler in criu: any death of the root task is an error.
CriuSigchld ==
  /\ sigpend[Criu] # NoSig
  /\ TakeSig(Criu)
  /\ IF criu_act THEN Abort ELSE UNCHANGED nr_in_progress
  /\ UNCHANGED <<criuVars, start, nr_threads, zombie_lock, act, blocked, hpc,
                 taskVars>>

\* cr-restore.c's handler in a task: it reaps every dead child, and only
\* helpers that returned 0 are fine.  Its BUG_ON wants the child in the item's
\* list: pstree.c makes no helper the child of a helper, so no helper is adopted.
TaskSigchld(t) ==
  /\ sigpend[t] # NoSig /\ act[t] = "restore" /\ Running(t)
  /\ TakeSig(t)
  /\ IF /\ Kind[sigpend[t]] = "helper"
        /\ \A c \in Tasks : ppid[c] = t /\ Gone(c) => pc[c] = "exit0"
     THEN UNCHANGED nr_in_progress ELSE Abort
  /\ UNCHANGED <<criuVars, start, nr_threads, zombie_lock, act, blocked, hpc,
                 taskVars>>

\* restorer.c's handler starts on a thread of the task that does not block
\* SIGCHLD.  In CR_STATE_RESTORE_SIGCHLD a zombie is collected, in every other
\* stage the barrier is aborted and the task stops itself.
PieSigchld(p) ==
  LET t == TaskOf(p) IN
  /\ sigpend[t] # NoSig /\ act[t] = "pie"
  /\ Running(p) /\ pc[t] # "stopped" /\ p \notin blocked /\ hpc[p] = "idle"
  /\ TakeSig(t)
  /\ IF start = CR_STATE_RESTORE_SIGCHLD
     THEN /\ Dec
          /\ hpc' = [hpc EXCEPT ![p] = "zombies"]
          /\ UNCHANGED pc
     ELSE /\ Abort
          /\ pc' = [q \in Procs |-> IF TaskOf(q) = t /\ ~Gone(q) /\ ~Unborn(q)
                                    THEN "stopped" ELSE pc[q]]
          /\ hpc' = [q \in Procs |-> IF TaskOf(q) = t THEN "idle" ELSE hpc[q]]
  /\ UNCHANGED <<criuVars, start, nr_threads, zombie_lock, act, blocked, ppid,
                 nr_zombies, zombies_inprogress, thread_inprogress, creds,
                 repair, mapped, pgrp_set>>

\* The rest of the collecting branch, in the order of the code.
PieZombies(p) ==
  /\ hpc[p] = "zombies"
  /\ zombies_inprogress' = [zombies_inprogress EXCEPT ![TaskOf(p)] = @ - 1]
  /\ hpc' = [hpc EXCEPT ![p] = "nr_threads"]
  /\ UNCHANGED <<criuVars, sharedVars, act, blocked, sigpend, pc, ppid,
                 nr_zombies, thread_inprogress, creds, repair, mapped, pgrp_set>>

PieNrThreads(p) ==
  /\ hpc[p] = "nr_threads"
  /\ nr_threads' = nr_threads - 1
  /\ hpc' = [hpc EXCEPT ![p] = "unlock"]
  /\ UNCHANGED <<criuVars, start, nr_in_progress, zombie_lock, act, blocked,
                 sigpend, taskVars>>

PieUnlock(p) ==
  /\ hpc[p] = "unlock"
  /\ zombie_lock' = Free
  /\ hpc' = [hpc EXCEPT ![p] = "idle"]
  /\ UNCHANGED <<criuVars, start, nr_in_progress, nr_threads, act, blocked,
                 sigpend, taskVars>>

HandlerStep(p) ==
  \/ p \in Tasks /\ TaskSigchld(p)
  \/ PieSigchld(p) \/ PieZombies(p) \/ PieNrThreads(p) \/ PieUnlock(p)

\* The kernel kills a pid namespace whose init dies, then notifies criu.
PidNsZap ==
  /\ pc[Root] = "dying"
  /\ pc' = [p \in Procs |->
       IF p = Root \/ (~Gone(p) /\ ~Unborn(p)) THEN "killed" ELSE pc[p]]
  /\ hpc' = [p \in Procs |-> "idle"]
  /\ sigpend' = Raise(Root)
  /\ UNCHANGED <<criuVars, sharedVars, act, blocked, ppid, nr_zombies,
                 zombies_inprogress, thread_inprogress, creds, repair, mapped, pgrp_set>>

-----------------------------------------------------------------------------
(* Nothing is left to do: criu has returned and every proc is at rest. *)
Finished ==
  /\ cpc \in {"done", "failed", "error"}
  /\ \A p \in Procs : pc[p] # "dying" /\
       (Gone(p) \/ Unborn(p) \/ pc[p] \in {"run", "tstop"})
  /\ UNCHANGED vars

Next ==
  /\ UNCHANGED mayfail
  /\ \/ CriuStep \/ CriuSigchld \/ PidNsZap \/ Finished
     \/ \E t \in Tasks : TaskStep(t)
     \/ \E th \in Threads : ThreadStep(th)
     \/ \E p \in Procs : HandlerStep(p)

\* Every process is scheduled: criu, each thread, each pending handler, the
\* kernel.  Which way a failing operation goes is not constrained.
Fairness ==
  /\ WF_vars(UNCHANGED mayfail /\ CriuStep)
  /\ WF_vars(UNCHANGED mayfail /\ CriuSigchld)
  /\ WF_vars(UNCHANGED mayfail /\ PidNsZap)
  /\ \A t \in Tasks : WF_vars(UNCHANGED mayfail /\ TaskStep(t))
  /\ \A th \in Threads : WF_vars(UNCHANGED mayfail /\ ThreadStep(th))
  /\ \A p \in Procs : WF_vars(UNCHANGED mayfail /\ HandlerStep(p))

Spec == Init /\ [][Next]_vars
FairSpec == Spec /\ Fairness

-----------------------------------------------------------------------------
(* Properties *)

TaskPcs == {"unborn", "lost", "ns_dec", "ns_wait", "prepare",
  "fork_children", "pgid", "fork_wait", "z_dec", "z_wait", "wait_helpers", "resources", "restorer",
  "clone_threads", "r_wait", "collect", "signals", "s_wait", "c_dec", "c_wait",
  "t_wait", "sigreturn", "trapped", "run", "tstop", "stopped"} \cup EndStates
ThreadPcs == {"unborn", "lost", "t_new", "r_wait", "signals", "s_wait", "c_dec",
  "c_wait", "sigreturn", "trapped", "run", "tstop", "stopped", "killed"}
CriuPcs == {"fork", "wait", "scripts", "set_nr", "set_start", "sigaction",
  "attach", "complete", "stop", "finalize", "detach", "kill", "fail_nr",
  "fail_start", "failed", "error", "done", "bug"}

\* Type invariant of the shared page, criu, the tasks and their signal state.
TypeOK ==
  /\ mayfail \in BOOLEAN
  /\ start \in CR_STATE_FAIL .. CR_STATE_COMPLETE
  /\ nr_in_progress \in Int /\ nr_threads \in Int
  /\ zombie_lock \in Tasks \cup {Free}
  /\ cpc \in CriuPcs /\ target \in CR_STATE_RESTORE_NS .. CR_STATE_RESTORE_CREDS
  /\ criu_act \in BOOLEAN /\ network \in {"locked", "unlocked"}
  /\ attached \subseteq Procs
  /\ pc \in [Procs -> TaskPcs \cup ThreadPcs]
  /\ ppid \in [Tasks -> Tasks \cup {Criu, Outside}]
  /\ act \in [Tasks -> {"restore", "pie", "orig"}]
  /\ blocked \subseteq Procs
  /\ sigpend \in [Tasks \cup {Criu} -> Tasks \cup {NoSig}]
  /\ hpc \in [Procs -> {"idle", "zombies", "nr_threads", "unlock"}]
  /\ nr_zombies \in [Tasks -> Nat]
  /\ zombies_inprogress \in [Tasks -> Int]
  /\ thread_inprogress \in [Tasks -> Int]
  /\ creds \subseteq Procs /\ repair \subseteq Tasks /\ mapped \subseteq Tasks
  /\ pgrp_set \subseteq Tasks

\* Who takes part in a stage, and where a participant that has finished it is.
Participants(stage) ==
  CASE stage = CR_STATE_RESTORE_NS -> {Root}
    [] stage = CR_STATE_FORKING    -> Tasks
    [] OTHER -> Threads \cup {t \in Tasks : Kind[t] # "helper"}

Finished_(stage, p) ==
  LET dead == p \in Tasks /\ Kind[p] = "dead" IN
  pc[p] = CASE stage = CR_STATE_RESTORE_NS      -> "ns_wait"
            [] stage = CR_STATE_FORKING         -> "fork_wait"
            [] stage = CR_STATE_RESTORE         -> IF dead THEN "z_wait" ELSE "r_wait"
            [] stage = CR_STATE_RESTORE_SIGCHLD -> IF dead THEN "zombie" ELSE "s_wait"
            [] OTHER                            -> IF dead THEN "zombie" ELSE "c_wait"

\* criu moves everybody to the next stage only when every task and thread that
\* counts for the current one waits at its barrier (zombies: are dead).  The
\* counter is decremented by the tasks themselves, by handlers on behalf of
\* zombies, and set by criu from a number the handlers change.
StageAdvancesTogether ==
  [][start' \notin {start, CR_STATE_FAIL} =>
       \A p \in Participants(start) : Finished_(start, p)]_vars

\* When criu sizes a stage after the zombies are collected, and when it waits
\* for the tasks to trap, nr_threads counts exactly the procs that are left.
NrThreadsIsCurrent ==
  (cpc \in {"set_nr", "set_start"} /\ target = CR_STATE_RESTORE_CREDS)
    \/ cpc \in {"attach", "complete"} =>
  nr_threads = Cardinality(RunningItems)

\* Once the leader has unmapped task_entries no thread of the task and no
\* SIGCHLD handler can touch that page again.
NoUseAfterUnmap ==
  \A p \in Procs : TaskOf(p) \notin mapped =>
    /\ pc[p] \in {"sigreturn", "trapped", "run", "tstop"} \cup EndStates
    /\ hpc[p] = "idle" /\ act[TaskOf(p)] = "orig"

\* include/restorer.h: "processes can be resumed only when all credentials are
\* restored".  A leader that failed to restore them dies in BUG().
ResumedOnlyWithCreds ==
  (\E p \in Procs : pc[p] \in {"trapped", "run", "tstop"}) =>
    \A q \in RunningItems :
      q \in creds \/ (pc[q] = "c_wait" /\ start = CR_STATE_COMPLETE)

\* "Unlock network before disabling repair mode on sockets".
RepairOffAfterUnlock ==
  \A t \in Tasks : Alive(t) /\ t \notin repair => network = "unlocked"

\* Without failures the restore completes: criu returns success, live tasks
\* run, stopped ones are stopped, zombies are zombies, helpers are gone.
RestoreCompletes ==
  ~mayfail =>
    <>[](/\ cpc = "done"
         /\ \A t \in Tasks :
              pc[t] = CASE Kind[t] = "alive"   -> "run"
                        [] Kind[t] = "stopped" -> "tstop"
                        [] Kind[t] = "dead"    -> "zombie"
                        [] OTHER               -> "exit0"
         /\ \A th \in Threads :
              pc[th] = IF Kind[Owner[th]] = "stopped" THEN "tstop" ELSE "run")

\* A proc that criu counts on and that was never created, without an error.
Lost == \E p \in Procs : pc[p] = "lost"

\* A member asleep in restore_pgid() whose leader died before it set pgrp_set, or
\* never came.
Forlorn(t) ==
  pc[t] = "pgid" /\ ~LeaderReady(t) /\ (Gone(Leader[t]) \/ Unborn(Leader[t]))

\* Whatever fails, criu returns, however deaths, aborts and SIGCHLDs interleave;
\* only a task or a thread that was not created without an error being seen
\* (fork_with_pid() returning 1, the unchecked clone()) leaves it waiting.
CriuReturns == <>(cpc \in {"done", "failed", "error"} \/ Lost)

\* A restore that failed leaves no process behind; without a pid namespace to
\* zap, only a member of a process group whose leader failed sleeps on.
FailureLeavesNothing ==
  (cpc = "failed") ~>
    (\A t \in Tasks : Gone(t) \/ Unborn(t) \/ (~NewPid /\ Forlorn(t)))

=============================================================================
