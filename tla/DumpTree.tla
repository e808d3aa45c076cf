------------------------------ MODULE DumpTree ------------------------------
(***************************************************************************)
(* The dump and the pre-dump of a process tree: cr_dump_tasks() and        *)
(* cr_pre_dump_tasks() of cr-dump.c.  The tree is frozen (Freeze), every   *)
(* task is infected, made to dump itself and cured (Parasite), then what   *)
(* the tasks share is dumped, and the tree is let go, stopped or killed.   *)
(*                                                                         *)
(* A step of the dump is a record: its name, who carries it out, and where *)
(* dump_one_task() goes when it fails.  Init picks the step that fails, if *)
(* any does, and on whose side.                                            *)
(***************************************************************************)
EXTENDS Parasite, SequencesExt

CONSTANTS
  Commands,     \* what criu is asked for: "dump", "pre-dump"
  FinalStates,  \* what is to become of the tasks: "alive", "stopped", "dead"
  SharedFiles,  \* tasks that share the file table of another one
  FileLocks,    \* opts.handle_file_locks
  Faults        \* the failures of a run: records [step, item, side]

ASSUME DumpTreeAssumption ==
  /\ Commands \subseteq {"dump", "pre-dump"}
  /\ FinalStates \subseteq {"alive", "stopped", "dead"}
  /\ SharedFiles \subseteq Pids /\ FileLocks \in BOOLEAN
  /\ \A f \in Faults : f.side \in {"criu", "daemon", "none"} /\ f.item \in Nat

VARIABLES
  command, final, fault,  \* what the run is about
  phase,      \* where criu is
  at,         \* the item that is being dumped
  step,       \* the step of the plan of the phase it is at
  call,       \* and how far it has got with it
  ret,        \* the return value of the functions of cr-dump.c, as a BOOLEAN: ok
  inventory,  \* whether the inventory image is there
  net,        \* whether the network is locked
  remaps,     \* whether link remaps were made for the unlinked files
  dumped,     \* tasks whose images are complete
  pipes,      \* pre-dump: tasks whose pages are in a pipe to be written
  result      \* the exit status, "none" while criu runs

dumpVars == <<command, final, fault, phase, at, step, call, ret, inventory, net, remaps,
              dumped, pipes, result>>
vars == <<kernelVars, freezeVars, parasiteVars, dumpVars>>

-----------------------------------------------------------------------------
(* The steps *)

Local(n) == [name |-> n, by |-> "criu", err |-> "leave"]
Cured(n) == [name |-> n, by |-> "criu", err |-> "cure"]
Daemon(n) == [name |-> n, by |-> "daemon", err |-> "cure"]

parse_pid_stat == Local("stat")
parse_pid_status == Local("status")
collect_mappings == Local("smaps")
collect_fds == Local("fds")
parse_posix_timers == Local("timers_proc")
parasite_infect_seized == [name |-> "infect", by |-> "infect", err |-> "leave"]
parasite_get_proc_fd_seized == Daemon("get_proc_fd")
parasite_fixup_vdso == Daemon("vdso")
parasite_dump_misc_seized == Daemon("misc")
cr_task_fdset_open == Cured("fdset")
dump_task_ids == Cured("ids")
dump_task_files_seized == Daemon("files")
dump_task_file_locks == Daemon("locks")
mprotect_vmas == Daemon("protect")
dump_pages == [name |-> "pages", by |-> "daemon", err |-> "unprotect"]
unprotect_vmas == Daemon("unprotect")
parasite_dump_sigacts_seized == Daemon("sigacts")
parasite_dump_itimers_seized == Daemon("itimers")
parasite_dump_posix_timers_seized == Daemon("timers")
dump_task_mm == Cured("mm")
dump_task_core_all == Cured("core")
parasite_dump_thread_seized == [name |-> "thread", by |-> "thread", err |-> "cure"]
dump_task_creds == [name |-> "creds", by |-> "daemon", err |-> "leave"]
parasite_cure_seized == [name |-> "cure", by |-> "cure", err |-> "leave"]
dump_task_mappings == Local("mappings")
dump_task_fs == Local("fs")
dump_task_rlims == Local("rlims")
dump_task_signals == Local("signals")

When(c, s) == IF c THEN s ELSE <<>>

parasite_dump_pages_seized == <<mprotect_vmas, dump_pages, unprotect_vmas>>

dump_one_task(i) ==
  LET it == items[i]
  IN  <<parse_pid_stat, parse_pid_status, collect_mappings, collect_fds,
        parse_posix_timers, parasite_infect_seized>>
      \o When(NewPidNs /\ i = 1, <<parasite_get_proc_fd_seized>>)
      \o <<parasite_fixup_vdso, parasite_dump_misc_seized, cr_task_fdset_open, dump_task_ids>>
      \o When(it.pid \notin SharedFiles, <<dump_task_files_seized>>)
      \o When(FileLocks, <<dump_task_file_locks>>)
      \o parasite_dump_pages_seized
      \o <<parasite_dump_sigacts_seized, parasite_dump_itimers_seized,
           parasite_dump_posix_timers_seized, dump_task_mm, dump_task_core_all>>
      \o [t \in 1..(Cardinality(it.threads) - 1) |-> parasite_dump_thread_seized]
      \o <<dump_task_creds, parasite_cure_seized, dump_task_mappings, dump_task_fs,
           dump_task_rlims, dump_task_signals>>

pre_dump_one_task(i) ==
  <<collect_mappings, parasite_infect_seized, parasite_dump_misc_seized>>
  \o parasite_dump_pages_seized \o <<parasite_cure_seized>>

\* Tasks the loops over the items pass over.
Skipped(i) == items[i].state = "zombie" \/ (command = "pre-dump" /\ items[i].state = "stop")

\* What comes before and after the freeze and after the tasks.
write_img_inventory == Local("inventory")
connect_to_page_server == Local("page_server")
collect_pstree_ids == Local("task_ids")
network_lock == Local("network_lock")
collect_file_locks == Local("file_locks")
collect_mount_info == Local("mounts")
collect_sockets == Local("sockets")
cr_glob_fdset_open == Local("glob_fdset")
dump_verify_tty_sids == Local("tty_sids")
dump_zombies == Local("zombies")
dump_pstree == Local("pstree")
dump_namespaces == Local("namespaces")
cr_dump_shmem == Local("shmem")
fix_external_unix_sockets == Local("external_sockets")
tty_verify_active_pairs == Local("tty_pairs")
page_xfer_dump_pages == Local("write_pages")

Plan ==
  CASE phase = "init" -> When(command = "dump", <<write_img_inventory>>) \o <<connect_to_page_server>>
    [] phase = "prepare" ->
         <<collect_pstree_ids, network_lock, collect_file_locks, collect_mount_info,
           collect_sockets, cr_glob_fdset_open>>
    [] phase = "task" -> IF command = "dump" THEN dump_one_task(at) ELSE pre_dump_one_task(at)
    [] phase = "shared" ->
         <<dump_verify_tty_sids, dump_zombies, dump_pstree>>
         \o When(NewPidNs, <<dump_namespaces>>)
         \o <<cr_dump_shmem, fix_external_unix_sockets, tty_verify_active_pairs>>
    [] phase = "write" -> <<page_xfer_dump_pages>>
    [] OTHER -> <<>>

At == Plan[step]
Faulty(s, side) == fault.step = s /\ fault.side = side
                   /\ (phase = "task" => fault.item = at)

-----------------------------------------------------------------------------
(* The control of cr-dump.c *)

Task == items[at].pid
NextTask(i) == IF \E j \in DOMAIN items : j > i /\ ~ Skipped(j)
                 THEN Min({j \in DOMAIN items : j > i /\ ~ Skipped(j)}) ELSE 0

\* The next step of the plan, or the next task, or the next phase.
Goto(ph, i) == phase' = ph /\ at' = i /\ step' = 1 /\ call' = "begin"
AfterTask(i) ==
  IF NextTask(i) # 0 THEN Goto("task", NextTask(i))
  ELSE Goto(IF command = "dump" THEN "shared" ELSE "unfreeze", 0)
Advance ==
  IF step < Len(Plan)
    THEN step' = step + 1 /\ call' = "begin" /\ UNCHANGED <<phase, at>>
    ELSE CASE phase = "init" -> Goto("freeze", 0)
           [] phase = "prepare" -> AfterTask(0)
           [] phase = "task" -> AfterTask(at)
           [] phase = "shared" -> Goto("post", 0)
           [] phase = "write" -> UNCHANGED <<phase, at, step, call>>

\* The goto err of cr_dump_tasks() and cr_pre_dump_tasks().
GiveUp == ret' = FALSE /\ Goto(IF command = "dump" THEN "post" ELSE "unfreeze", 0)

IndexOf(n) == SelectInSeq(Plan, LAMBDA s : s.name = n)
\* The error paths of dump_one_task(), pre_dump_one_task() and
\* parasite_dump_pages_seized(), which reprotects the memory in any case.
OnError(s) ==
  CASE s.err = "cure" -> ret' = FALSE /\ step' = IndexOf("cure") /\ call' = "begin" /\ UNCHANGED <<phase, at>>
    [] s.err = "unprotect" -> ret' = FALSE /\ step' = IndexOf("unprotect") /\ call' = "begin"
                              /\ UNCHANGED <<phase, at>>
    [] OTHER -> GiveUp

\* dump_zombies() writes the images of the dead ones.
Zombies == {items[i].pid : i \in {j \in DOMAIN items : items[j].state = "zombie"}}

Done(n) ==
  /\ inventory' = (inventory \/ n = "inventory")
  /\ net' = (net \/ n = "network_lock" \/ n = "files")
  /\ remaps' = (remaps \/ n = "files")
  /\ dumped' = IF n = "signals" THEN dumped \cup {Task}
               ELSE IF n = "zombies"
                 THEN dumped \cup Zombies
               ELSE dumped
  /\ pipes' = pipes
NotDone == UNCHANGED <<inventory, net, remaps, dumped, pipes>>

Criu == result = "none"
runVars == <<command, final, fault>>

LocalStep ==
  /\ Criu /\ Plan # <<>> /\ phase # "write" /\ At.by = "criu" /\ call = "begin"
  /\ IF Faulty(At.name, "criu")
       THEN OnError(At) /\ NotDone
       ELSE Advance /\ Done(At.name) /\ UNCHANGED ret
  /\ UNCHANGED <<kernelVars, freezeVars, parasiteVars, runVars, result>>

\* A command for the daemon: sent, and acknowledged.  criu may still fail
\* after the ack, on the images.
DaemonSend ==
  /\ Criu /\ phase = "task" /\ At.by = "daemon" /\ call = "begin"
  /\ parasite_send_cmd(At.name)
  /\ call' = "ack"
  /\ UNCHANGED <<kernelVars, freezeVars, runVars, phase, at, step, ret, result>> /\ NotDone

DaemonAck ==
  /\ Criu /\ phase = "task" /\ At.by = "daemon" /\ call = "ack" /\ AckArrived
  /\ TakeAck
  /\ IF AckIsError(At.name) \/ Faulty(At.name, "criu")
       THEN OnError(At) /\ NotDone
       ELSE IF At.name = "unprotect" /\ ~ ret  \* the pages could not be dumped
         THEN OnError(At) /\ NotDone
         ELSE Advance /\ Done(At.name) /\ UNCHANGED ret
  /\ UNCHANGED <<kernelVars, freezeVars, code, mem, masked, ctl, runVars, result>>

\* criu is gone: the kernel detaches it from everybody and closes its socket.
CriuGone ==
  /\ result' = "died" /\ traced' = {} /\ trapped' = {}
  /\ froze' = "over"
  /\ sock' = [p \in Pids |-> [sock[p] EXCEPT !.closed = TRUE]]
  /\ UNCHANGED <<proc, events, items, stack, seizing, code, mem, masked, ctl, runVars,
                 phase, at, step, call, ret>> /\ NotDone

\* A dead task cannot be infected.  The failures on the side of criu come
\* before the daemon runs; they are undone by unmapping the blob.
Infect ==
  /\ Criu /\ phase = "task" /\ At.by = "infect" /\ call = "begin"
  /\ IF Died(Task) \/ Faulty("infect", "criu")
       THEN OnError(At) /\ UNCHANGED <<parasiteVars, trapped>>
       ELSE parasite_map_exchange(Task) /\ call' = "run" /\ UNCHANGED <<phase, at, step, ret>>
  /\ UNCHANGED <<proc, traced, events, freezeVars, runVars, result>> /\ NotDone

\* When criu cannot map what the task has mapped, it dies on the command it
\* writes there to have the blob unmapped.
InfectRun ==
  /\ Criu /\ phase = "task" /\ At.by = "infect" /\ call = "run"
  /\ \/ Faulty("map_files", "criu") /\ CriuGone
     \/ /\ ~ Faulty("map_files", "criu")
        /\ IF Faulty("start_daemon", "criu")
             THEN parasite_unmap(Task) /\ OnError(At)
             ELSE parasite_run(Task) /\ call' = "accept" /\ UNCHANGED <<phase, at, step, ret>>
        /\ UNCHANGED <<proc, traced, events, freezeVars, runVars, result>> /\ NotDone

InfectAccept ==
  /\ Criu /\ phase = "task" /\ At.by = "infect" /\ call = "accept"
  /\ accept_tsock
  /\ call' = "log"
  /\ UNCHANGED <<kernelVars, freezeVars, runVars, phase, at, step, ret, result>> /\ NotDone

InfectAck ==
  /\ Criu /\ phase = "task" /\ At.by = "infect" /\ call = "log"
  /\ Daemonized
  /\ Advance /\ NotDone
  /\ UNCHANGED <<kernelVars, freezeVars, runVars, ret, result>>

\* Tasks that died after they were frozen: they are there for wait4() to find.
Corpses == {p \in traced : proc[p].st = "zombie" /\ IsLeader(p)}

\* dump_task_thread(): the thread runs the blob up to an int3.  Its trap is a
\* SIGCHLD for criu, whose handler exits when wait() shows it a child; without
\* __WALL it sees leaders only.
SigchldSees == Corpses
\* parasite_execute_trap_by_pid() gets its trap.
Trapped == SigchldSees = {}
ThreadStep ==
  /\ Criu /\ phase = "task" /\ At.by = "thread" /\ call = "begin"
  /\ IF Trapped
       THEN /\ IF Faulty("thread", "criu") THEN OnError(At) ELSE Advance /\ UNCHANGED ret
            /\ UNCHANGED <<kernelVars, freezeVars, parasiteVars, runVars, result>> /\ NotDone
       ELSE CriuGone

\* parasite_cure_remote(): fini, unmap.
CureBegin ==
  /\ Criu /\ phase = "task" /\ At.by = "cure" /\ call = "begin"
  /\ parasite_fini_seized
  /\ call' = "sigreturn"
  /\ UNCHANGED <<kernelVars, freezeVars, runVars, phase, at, step, ret, result>> /\ NotDone

AfterCure(ok) ==
  IF ret /\ (ok \/ command = "pre-dump")
    THEN Advance /\ UNCHANGED <<ret, inventory, net, remaps, dumped>>
         /\ pipes' = IF command = "pre-dump" THEN pipes \cup {Task} ELSE pipes
    ELSE GiveUp /\ NotDone

CureEnd ==
  /\ Criu /\ phase = "task" /\ At.by = "cure" /\ call = "sigreturn"
  /\ Task \in trapped
  /\ parasite_unmap(Task)
  /\ AfterCure(TRUE)
  /\ UNCHANGED <<proc, traced, events, freezeVars, runVars, result>>

\* parasite_stop_on_syscall() waits for anybody.
CureMeetsCorpse ==
  /\ Criu /\ phase = "task" /\ At.by = "cure" /\ call = "sigreturn"
  /\ Corpses # {}
  /\ ctl' = NoCtl
  /\ AfterCure(FALSE)
  /\ UNCHANGED <<kernelVars, freezeVars, code, mem, masked, sock, runVars, result>>

Freezing ==
  /\ Criu /\ phase = "freeze" /\ froze = "no"
  /\ collect_pstree
  /\ UNCHANGED <<parasiteVars, dumpVars>>

FreezeReturns ==
  /\ Criu /\ phase = "freeze" /\ froze # "no"
  /\ IF froze = "error" THEN GiveUp
     ELSE /\ IF command = "dump" THEN Goto("prepare", 0) ELSE AfterTask(0)
          /\ UNCHANGED ret
  /\ UNCHANGED <<kernelVars, freezeVars, parasiteVars, runVars, result>> /\ NotDone

-----------------------------------------------------------------------------
(* The end of cr_dump_tasks() and of cr_pre_dump_tasks() *)

Rollback_ignoring_script(ok, script) == ~ ok \/ final = "alive"
Rollback(ok, script) == ~ ok \/ ~ script \/ final = "alive"
EndState(ok, script) == IF ~ ok \/ ~ script THEN "alive" ELSE final
Unfreeze(st) ==
  /\ pstree_switch_state(st)
  /\ froze' = "over"
  /\ UNCHANGED <<items, stack, seizing>>

\* disconnect_from_page_server(), run_scripts("post-dump"), network_unlock(),
\* delete_link_remaps(), pstree_switch_state() and kill_inventory().  Only the
\* exit status of the script is looked at: one that is killed has succeeded.
cr_dump_tasks ==
  /\ Criu /\ phase = "post"
  /\ LET ok == ret /\ ~ Faulty("disconnect", "criu")
         script == ~ ok \/ ~ Faulty("post-dump", "criu")
     IN  /\ net' = (net /\ ~ Rollback(ok, script))
         /\ remaps' = (remaps /\ ~ Rollback(ok, script))
         /\ Unfreeze(EndState(ok, script))
         /\ inventory' = (inventory /\ ok)
         /\ result' = IF ok /\ script THEN "ok" ELSE "failed"
         /\ ret' = ok
  /\ UNCHANGED <<parasiteVars, runVars, phase, at, step, call, dumped, pipes>>

\* The tasks are let go first, their pages are written from the pipes then.
PreDumpUnfreeze ==
  /\ Criu /\ phase = "unfreeze"
  /\ Unfreeze(IF ret THEN final ELSE "alive")
  /\ Goto("write", 0)
  /\ UNCHANGED <<parasiteVars, runVars, ret, result>> /\ NotDone

\* The last page_xfer_dump_pages() gives ret its value.
cr_pre_dump_tasks ==
  /\ Criu /\ phase = "write"
  /\ LET ok == IF pipes = {} THEN ret ELSE ~ Faulty("write_pages", "criu")
     IN  /\ result' = IF ok THEN "ok" ELSE "failed"
         /\ dumped' = IF Faulty("write_pages", "criu") THEN dumped ELSE pipes
  /\ UNCHANGED <<kernelVars, freezeVars, parasiteVars, runVars, phase, at, step, call, ret,
                 inventory, net, remaps, pipes>>

\* criu is killed.  (Not while it makes a task execute a system call: a trap
\* nobody catches is the end of that task.)
CriuKilled ==
  /\ Criu /\ fault.step = "killed" /\ phase # "init"
  /\ CriuGone

-----------------------------------------------------------------------------
Init ==
  /\ FreezeInit /\ ParasiteInit
  /\ command \in Commands /\ final \in FinalStates /\ fault \in Faults
  /\ ~ (command = "pre-dump" /\ final = "dead")  \* main() makes it "alive"
  /\ phase = "init" /\ at = 0 /\ step = 1 /\ call = "begin" /\ ret = TRUE
  /\ inventory = FALSE /\ net = FALSE /\ remaps = FALSE /\ dumped = {} /\ pipes = {}
  /\ result = "none"

CriuStep ==
  \/ LocalStep \/ DaemonSend \/ DaemonAck
  \/ Infect \/ InfectRun \/ InfectAccept \/ InfectAck \/ ThreadStep
  \/ CureBegin \/ CureEnd \/ CureMeetsCorpse
  \/ Freezing \/ FreezeReturns
  \/ cr_dump_tasks \/ PreDumpUnfreeze \/ cr_pre_dump_tasks

DaemonFails(p) ==
  p = Task /\ sock[p].down # <<>> /\ Faulty(Head(sock[p].down), "daemon")
DaemonStep ==
  \E p \in Pids :
    /\ DaemonConnect(p) \/ DaemonStart(p) \/ DaemonFini(p)
       \/ DaemonCmd(p, phase = "task" /\ DaemonFails(p))
    /\ UNCHANGED <<freezeVars, dumpVars>>

Next ==
  \/ CriuStep
  \/ DaemonStep
  \/ CriuKilled
  \/ phase = "freeze" /\ TaskStep /\ UNCHANGED <<parasiteVars, dumpVars>>

Spec == Init /\ [][Next]_vars

\* criu runs on, and so do the tasks that execute the parasite.
FairSpec == Spec /\ WF_vars(CriuStep) /\ WF_vars(DaemonStep)

-----------------------------------------------------------------------------
(* Properties *)

ItemPids == {items[i].pid : i \in DOMAIN items}

\* From the success of collect_pstree() to the unfreezing nobody of the tree
\* runs code of its own, and the items are the tasks of the tree with all
\* their threads: no task that was forked, cloned or reparented while the
\* lists were read escapes the freeze.
NobodyEscapes ==
  froze = "yes" =>
    /\ \A p \in Tree : p \in trapped \/ Died(p) \/ code[p] # "own"
    /\ {l \in Tree : IsLeader(l)} = ItemPids
    /\ \A i \in DOMAIN items : Group(items[i].pid) \subseteq items[i].threads

DiedFrozen == \E i \in DOMAIN items : items[i].state # "zombie" /\ Died(items[i].pid)

\* Whatever fails, and even when criu is killed, criu ends and every task that
\* is left alive gets back to its own code, protections and signal mask, and
\* is not left trapped.  The blob is out of its memory too, unless criu was
\* killed or a frozen task died and confused the cure of another one.
LeftAsItWas ==
  <>[](/\ result # "none"
       /\ \A p \in Pids : Alive(p) =>
            /\ code[p] = "own" /\ "prot" \notin mem[p] /\ p \notin masked
            /\ p \notin trapped
            /\ "blob" \in mem[p] => result = "died" \/ DiedFrozen)

\* Tasks are stopped or killed, and the network is left locked, only when the
\* images of every task of the tree are complete and there is an inventory; a
\* dump that failed leaves no inventory, no lock and no link remap behind.
\* (When criu is killed nobody takes them back.)
NothingLostOnFailure ==
  [][froze = "yes" /\ froze' = "over" /\ command = "dump" /\ result' # "died" =>
       /\ net' \/ result' = "ok" \/ (\E p \in trapped : proc'[p].st # proc[p].st)
            => inventory' /\ ItemPids \subseteq dumped /\ result' = "ok"
       /\ ~ ret' => ~ (inventory' \/ net' \/ remaps')]_vars

\* A pre-dump that is reported as done has the pages of every task it does
\* not pass over.  In no run, see the README: cr_pre_dump_tasks() keeps the
\* result of the last task only (PreDumpFault of MCDumpTree).
PreDumpIsComplete ==
  result = "ok" /\ command = "pre-dump" =>
    {items[i].pid : i \in {j \in DOMAIN items : ~ Skipped(j)}} \subseteq dumped
=============================================================================
