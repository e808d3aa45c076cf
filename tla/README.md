# A TLA+ development for crtools (criu)

criu dumps a tree of running processes into image files and restores it later,
possibly elsewhere. This directory holds TLA+ models of the parts of it where
several processes act at once, where something may fail half way, or where a long
history of commands has to add up; the TLC runs that check them; and proofs checked
by TLAPS. Module, line and function references are to the repository this directory
stands beside; a path without a directory is in its root. `PROJECT.json` maps every
definition to the lines it stands for.

    tlc -workers 2 -config Restore.cfg MCRestoreStages     one run
    tlapm RestoreStagesProofs.tla                          one proof module

## 1. Inventory

### How criu works, and who runs concurrently

*Dump.* `criu dump` freezes the tree (ptrace), injects a parasite into each task
to make it hand over what only it can see, writes images, and kills the tasks or
lets them go. criu is one process; it races with the tasks while it freezes
them and, in a pre-dump, while it writes pages of tasks that run again, and with
the network until the connections are locked. It may fail, or be killed, at any
step, and the tasks must come out unharmed.

*Restore.* `criu restore` forks the root task, which forks its children, and so
on, each with its old pid. From then on every task restores itself, concurrently
with all others. They share one page of futexes (`task_entries`), meet at stage
barriers that criu drives, and wait for each other at many more places: for the
leader of a process group, for an open file that another task creates, for a
socket to get its name, for the users of a port, for a shared mapping, for zombies
to die. At the end each task jumps into the restorer blob (pie/restorer.c), a piece of
code that replaces the whole address space, creates the threads and returns to the
application.

*Service.* `criu service` takes requests over a socket and has a worker do each.
A client may ask for its own dump, and then finds the answer twice: when it goes on and
when it is restored.

### Components

| component | state | operations | talks to | what is hard | what makes it correct | module |
|---|---|---|---|---|---|---|
| restore stages (cr-restore.c, pie/restorer.c) | start, nr_in_progress, nr_threads, zombie_lock | fork, finish stage, switch stage, SIGCHLD handlers, out_kill, attach, finalize | every task, by futex and signal | deaths at any step, handlers between two instructions, signals that merge, a page that is unmapped while in use | nobody gets ahead of a stage; failures are noticed and leave nothing behind; without failures it completes | RestoreStages |
| process tree ids (pstree.c, cr-restore.c) | pstree_items with sid, pgid, born_sid, helpers | prepare_pstree_ids, restore_sid, restore_pgid | the forking stage | sessions cannot be joined, only inherited | every accepted tree gets the dumped ids | PstreeIds |
| locks (include/lock.h) | one word | lock, unlock | zombies, ttys, ghost files | stale comparisons, one wakeup | mutual exclusion, no lost wakeup | FutexMutex |
| file transport (files.c) | fdinfo lists, real_pid, descriptor tables, fdt_lock | the four states of prepare_fds | pipes, sk-unix, tty, eventpoll through hooks | circular waits, shared tables, order of hooks | everybody gets its files, nobody waits for ever | FdRestore |
| memory snapshots (mem.c, page-pipe.c) | soft-dirty bits, page pipes | pre-dump, dump, reset tracking | page images, the parasite | pages change while they are written, bits and images must agree over several commands | a dump gives back the frozen memory | MemSnapshots |
| page images, page server, dedup (page-xfer.c, page-read.c, cr-dedup.c) | pagemaps, page files, chains of parent directories, a socket | write, read, serve, punch | memory snapshots, restore | readers that only go forward, partial failures, holes in parents | what was reported as done is complete and restorable | PageImages |
| dump of a tree (cr-dump.c, ptrace.c) | the frozen tree | seize, dump, switch state | parasite, network lock | tasks fork while they are frozen, roll back | nothing escapes the freeze; after an error everything runs again | Freeze, DumpTree |
| parasite (parasite-syscall.c, pie/parasite.c) | daemon socket, saved registers | infect, execute, cure | dump | errors on either side, dying tasks, a dying criu | the task is left as it was | Parasite |
| shared memory and address spaces (shmem.c, cr-restore.c, pie/restorer.c) | shmem_info with a futex, premapped areas, the restorer's place | premap, create, wait and open, move | restore stages | waits inside a stage, moves over what is still needed | the same address space; the restorer survives; nobody waits for ever | RestoreMemory |
| inet and tcp sockets (sk-inet.c, sk-tcp.c, netfilter.c) | repair mode, queues, port user counts | lock, dump, roll back, restore, unlock | the peer, restore stages | segments at every moment, port reuse | the stream is intact and goes on | InetSockets |
| mounts (mount.c) | the mount tree, peers and slaves | collect, validate, order, mount | restore of the root task | order and propagation | the same tree | Mounts |
| regular and ghost files, locks, watches (files-reg.c, file-lock.c, fsnotify.c) | names, ghosts with user counts, link remaps | dump, link back, open, remove, lock | file transport | last user removes, names come and go | the same files, the directory as before | DiskFiles |
| RPC service (cr-service.c, lib/criu.c) | connections, workers | accept, fork, reap, answer | clients, dump, restore | merged SIGCHLDs, a dump of the caller, crashes | one right answer per request | Service |
| ids (file-ids.c, kcmp-ids.c, rbtree.c) | two-level trees | generate, look up | dump of files | partial orders from kcmp | equal objects, equal ids | none yet |
| restorer memory (rst-malloc.c) | bump allocators, remapped arenas | alloc, remap | restorer | pointers that move | nothing overlaps | none yet |

The full list, with the parts that only convert data (images, /proc parsers,
sequential save and restore of single objects, architecture code), is in
`PROJECT.json`; the hazards found in the code are listed there too, each at its
line with the properties that watch it and what they leave out.

## 2. Plan

Done, most important first:

1. `RestoreStages`: the barrier everything else hangs on, with `FutexMutex` for the
   lock it uses (proved to implement `AbstractMutex`, which is what
   `RestoreStages` takes `zombie_lock` for).
2. `PstreeIds`: what happens inside the forking stage.
3. `FdRestore`: what happens between the forking stage and the restorer.
4. `PageImages` and `MemSnapshots`: chains of incremental dumps.
5. `Freeze`, `Parasite` and their composition `DumpTree`: the whole dump with its
   error paths.
6. `RestoreMemory`, `DiskFiles`, `InetSockets`: what tasks do, and wait for, inside the
   restore stage, with the dump that precedes it.
7. `Mounts`: order and propagation against what the kernel does.
8. `Service`: clients, server and workers around dump and restore.

Left, in this order:

9. Proofs. Done: the barrier of `RestoreStages`, `Service`, the ports and the stream of
   `InetSockets`, `RestoreMemory`, the descriptors of `FdRestore` (section 5). Left:
   `CleanPagesAreUnchanged` on a version of `PageImages` without recursion.
10. Abstract specifications: a barrier ("all arrive before any leaves") that `RestoreStages`
    implements, and a snapshot store (a dump is a function from pages to contents) that
    `MemSnapshots` implements.
11. `KcmpIds` and `RstMalloc` as pure algorithms against references.

Several questions are asked in one run by letting Init choose the configuration
(`mayfail`, `sys`, `groups`, `script`, `fault`, `tree`, `table`, `prog`), which keeps the
number of runs small.

## 3. The modules

### RestoreStages

One action per step of `restore_root_task()` (the `Criu...` actions), of a task from
its birth to rt_sigreturn (`Task...`), of a thread (`Thread...`), of the two SIGCHLD
handlers (`CriuSigchld`, `TaskSigchld`; `PieSigchld` and the three steps after it)
and of the kernel (`PidNsZap`). The shared page is `start`, `nr_in_progress`, `nr_threads`
and `zombie_lock`; a negative `nr_in_progress` stands for FUTEX_ABORT_FLAG. `pc` is the
position in the code between two accesses to shared state; what a task restores
for itself in between is one step that succeeds, or fails when `mayfail` is TRUE. The
SIGCHLD of a process is one pending bit (`sigpend`, with the child that raised
it), and a handler runs on a thread that does not block the signal before that
thread goes on. `Leader` gives the process group of each task, and a task whose leader has not made it
yet (`pgrp_set`) waits for it after its last fork, as nothing interrupts `restore_pgid()`. A child
that `fork_with_pid()` did not create although it returned no error is `lost`: criu and
its parent go on as if it were there. Not in the model: criu waiting for the tree without `--restore-detached`,
the `nr_tasks` counter, signals other than SIGCHLD and SIGKILL, children of
a helper that an outside reaper adopts when the restore has no pid namespace, processes
outside criu that take a pid between the write of last_pid and the fork.

### PstreeIds

The first part is the life of a pid namespace before the dump (`Fork`, `Setsid`,
`Setpgid`, `Exit`), so the trees are exactly the ones a kernel can produce. `Prepare` is
`prepare_pstree_ids()`, written as functions from tree to tree in the order of its
loops; the order among siblings is left open where the code's depends on the order
in the image. `CreateChildren` and `RestorePgid` are what each restored task does.
Zombies count as live tasks here; ids of a shell job and pgid 0 are left out.

### FutexMutex, AbstractMutex

`mutex_lock()` and `mutex_unlock()`, one action per atomic access or system call;
FUTEX_WAIT may be interrupted and restarted. The word does not wrap (it would after 2^32
failed attempts under one owner).

### FdRestore

Init chooses a system (tasks, files, who shares a table, who leads the session) and
every way its files can lie in the tasks' descriptors. `root_prepare_shared` builds
what criu builds before the fork: who is master of a file, who creates pipes, pairs
and ptys, and for each task its `plan`, the callbacks of the four `states` over its three
lists. Then each task follows its plan; the `open` hook of each kind of file is an
action of its own (`open_pipe`, `pty_open_ptmx`, `bind_unix_sk`, ... for who makes it,
`recv_pipe_fd`, `receive_tty`, ... for who gets it), `send_fd_to_peer` blocks until the
transport is up, and the receivers until something is there.
Pairs are stream sockets; a descriptor's entries are in ascending order in the image; the
data in pipes and sockets, external peers and `USK_CALLBACK` are left out.

### PageImages, MemSnapshots

`PageImages` has the pure part: iovecs, the merge of pages and holes, the reader of a chain of
directories with its position in each file, and deduplication. It is recursive and
used by TLC only. `MemSnapshots` has a task that writes, reads, discards and remaps pages,
with the kernel's soft-dirty bits, and the commands of a script, one after the
other. A page's contents is the number of the interval between commands in which it
was written. A pre-dump lets the task go once its pages are in the pipes, which share
them with the task: until they are written they may be read as they were or as they
are. The page server takes commands off a socket and may fail at each one. One
task is followed; the rest of the tree is `RestOfDump` and the constant `Others`. In the run the
highest page is always there (`Volatile`, see section 6); pages are anonymous, and there is one page pipe.

### Freeze, Parasite, DumpTree

`Freeze` has the tasks of a system, which fork, clone, exit, reap and are reparented
as long as they run, and `collect_pstree()`: `stack` is the recursion of `collect_task()`, each
frame with the list it has read from /proc and has yet to go through, and `seizing` the
`seize_task()` under way, one action per ptrace call, wait and read of /proc.
`Parasite` has what criu does to a trapped task and what the blob does in it, joined by
a socket that keeps messages in order; `DaemonFini` is the blob's answer to a closed
socket. `DumpTree` composes them: `dump_one_task`, `pre_dump_one_task` and `Plan` are the
steps of the code in their order, each with who carries it out and where it goes when it
fails; Init picks the step that fails and its side, and `CriuKilled` may come at
any moment. What a step puts into its image is not followed: a task is `dumped`
when all its steps are done. The definitions under "The steps" only name a step and its error path and
are mapped to the call, or to the function where that is short; what the parasite does for a step is in `Parasite`.

### RestoreMemory

Addresses are page numbers, an address space is a function from pages to what is there.
`prepare_mappings` chooses any free place for the premapped areas, `restorer_get_vma_hint` is the
code's search for a hole, a `Round` for each pass of its loop, and the restorer's loops are actions, one area at a time. The
shared segments are made by the task with the least pid; `shmem_wait_and_open` blocks
on its lock. The areas in the image are what `parse_smaps()` makes of the task's: stacks
with their guard page, split or not.

### DiskFiles

Two tasks open, link, unlink, share, map, watch, lock and close files of one directory, then
`Dump` writes the files with their ghosts and link remaps, or fails at any of them. At the
restore each task opens its files in any order; `LinkBack`, `OpenLinked` and `Unlinked`
are the three steps of `open_path()` under the mutex. A struct file remembers the name it was
opened by and whether that name was unlinked since, which is what /proc shows.

### InetSockets

A connection is two sockets with queues and sequence numbers modulo 2^`SeqBits`; the kernels
send, send again and answer. The dump locks (the two rules of a connection are one step; a failure takes both
away), switches to repair mode and reads; the
restore puts the sequence numbers and queues back, the unsent part with repair mode
off, and unlocks at the end. Beside it sockets of two tasks come back to a port they share,
`port->users` counted down, with the kernel's rules for bind() and listen().

### Mounts

A namespace is a set of mounts with parent, directory, file system, peer group and master.
`KMount`, `KBind`, ... are the kernel's operations, with propagation; they serve both the
tasks that make the namespace and the restore. `dump_mnt_ns` reads, checks and orders, the walk
`mnt_tree_for_each` takes one mount at a time (`do_mount_one`) and keeps what it postponed.
`umount_from_slaves` goes through the slaves in the order of the list and, as the code does, gives up at
the first umount() that fails, which nobody is told of.

### Service

One action per step of a client in the library, of the server, of its SIGCHLD handler, and
of a worker. A dump or a restore is a few steps of a worker on a tree of one task (how it is done
is in the other modules), which may fail. Descriptors of a connection are counted, as the end of
file comes only with the last one. The next server may start at any time after one has exited, or never; a start
that fails is one that has not happened. A worker may have done its work and not be able to write the answer. What the image has of the task's own connection to the
service is modelled with the dump and restore of such sockets in sk-unix.c.

## 4. The runs

All twelve end without an error.

| run | bounds | properties | what it shows |
|---|---|---|---|
| restore | root with a thread, a stopped child with a thread and a helper, two zombies, the child and a zombie in the helper's group; with and without failures | TypeOK, NrThreadsIsCurrent, NoUseAfterUnmap, ResumedOnlyWithCreds, RepairOffAfterUnlock, StageAdvancesTogether, RestoreCompletes, CriuReturns, FailureLeavesNothing | the barrier holds; without failures the restore completes; a failure anywhere is noticed and leaves nothing, but for the two cases of section 6 that the properties name |
| restore_pidns | root, a helper whose child it leaves to init, a zombie, a thread; new pid namespace | RestoreCompletes, FailureLeavesNothing | the same where only init is killed |
| futex_mutex | 3 processes, counts up to 6 | MutualExclusion, NoLostWakeup, ImplementsMutex, SomebodyGetsIn | exclusion, no lost wakeup, refinement, progress |
| pstree_ids | 5 pids; 4 where processes change groups | AllGetForked | every accepted tree is forked with the dumped sessions and groups |
| fd_restore | 2 or 3 tasks, 2 descriptors, eight families of files | NobodyFails, FilesInPlace, EverybodyRestored | everybody gets its files and late steps find what they need |
| mem_snapshots | 3 pages, one of which comes and goes; five scripts of two or three commands | DumpIsRestorable, CleanPagesAreUnchanged, ReportedImagesAreComplete | chains can be restored, no deadlock |
| dump | three trees of up to four tasks and threads, two events while they are frozen, 31 faults, dump and pre-dump | NobodyEscapes, LeftAsItWas, NothingLostOnFailure | the freeze is complete; whatever fails the tasks run on as they were |
| mounts | five starts with up to five mounts, three operations, up to seven mounts on five directories | RestoredAsDumped, DumpedIsRestorable | the same tree and propagation, outside the named limits |
| disk_files | two tasks, two names, two open files, five operations | FilesRestored, DirectoryAsBefore, LocksKept | the same files, watches and locks, the directory as it was |
| sockets | a connection with 2 bytes one way and 1 and a FIN the other, numbers of 2 bits that wrap; seven tables of sockets on one port | StreamIntact, Delivered, PortsRestored | no byte is lost or repeated, the peer hears nothing, ports come back |
| memory | 96 pairs of address spaces of 14 pages; any place for the premapped areas | AsDumped, RestorerIntact, AllRestored | every layout comes back, nobody waits for ever |
| service | a program and a manager, six pairs of programs, three connections, one exit of the server | AnswersAreRight, EveryCallEnds, WorkersReaped | one right answer or error per call, and no call that waits for ever |

*Why the bounds are enough.* `restore` has one of each kind of participant, two zombies
because the zombie lock is about two, a thread in the parent of the zombies, on which their
SIGCHLD must not be handled, and one in the child. Three lock users are an owner, a sleeper and
one who barges in. The smallest tree with a born_sid has three processes and one with a helper
four, so five leave room for a combination. In `fd_restore` two tasks with two
descriptors each can already wait crosswise, and the third is for a file that goes to two
others. With three pages an entry can have a neighbour on both sides; chains of three
directories have a parent that is itself a child, and `CleanPagesAreUnchanged` is what the
next link needs from the one before it. In `dump` a task may fork, and the child be
reparented, between any two reads of /proc; faults of the first and of a later task
differ in what has to be taken back. A start with a mount and three operations make the chains a mount can depend on
(peer, slave, child of either, bind); two slaves, one of which shows a directory only, are what the order of
umounts depends on. Two names and two tasks let a name be taken by another file
before the restore, and a ghost have two users. Two bytes are one that was sent and
one that was not; with 2 bits and a first number of 3 every count wraps. Two areas that go left
and right over each other, a stack and two segments wanted in opposite orders are all there is in
the loops of the restorer. In `service` a third connection is one while two workers die
together.

*Deadlock* is not checked where the tasks or processes may rightly stop; completion is then a
liveness property (`Mounts` has the end of the walk as `DumpedIsRestorable`). `FutexMutex`,
`MemSnapshots` and `DiskFiles` are checked for deadlock: with `Stopped` or `Over` as the
only step of a finished one, a client that waits for an answer, or a task for the ghost
mutex, would be one.

*Fairness.* Every restored task, every thread, criu, each pending signal handler and
the kernel's kill of a namespace are weakly fair: they are separate threads that the
kernel schedules, and no step can be enabled and disabled again for ever. In
`FdRestore`, `EnterFds` is strongly fair because a sharer opens and closes descriptors of its
own only finitely often before it enters. In `PstreeIds` only the restore is fair, in
`FutexMutex` only the calls of lock and unlock that have begun. In `DumpTree` criu and the
tasks that run the blob are weakly fair, the dumped tasks not at all. In
`InetSockets` sending and sending again are strongly fair, as TCP's timers go off again and
again although a netfilter rule or another segment gets in between; when to dump
is left open. In `RestoreMemory` weak fairness of the whole is enough, nothing
being repeated. In `Service` the server, the workers and a client that is inside a call
run; nothing makes a client call, a server exit or start again, or a frozen client run.

*Assumptions of the runs*, each a constant or a definition that can be changed:

- `mem_snapshots`: writes fail in pre-dumps but not in dumps (`WriteFails`); the task is alone
  (`Others`); after a failed command the user starts over without a parent (`RetryOld`);
  no page is read after MADV_DONTNEED (`Rereads`).
- `dump`: pids are not reused within a freeze (`PidReuse`); one step fails; the tasks are
  dumped with a pid namespace of their own; the failures listed in section 6 as leaving a
  parasite are not among `MCFaults`, so "whatever fails" is one of the 31 faults there.
- `disk_files`: one file system; mappings are shared ones.
- `sockets`: the host's network namespace; the task does not close its own end (such a socket is
  refused), the peer may at any moment.
- `service`: image directories are not used by two commands at the same time; the backlog of
  listen() is long enough.

## 5. What is proved

`FutexMutexProofs`, for any set of processes: `MutexExcludes`, `WakeupsAreKept` and
`MutexRefines` (every step is a step of `AbstractMutex` or a stutter). The invariant
`MutexInv` says that the word is 0 exactly when nobody is in the critical section, that there
is at most one owner, and that while somebody sleeps somebody else is awake who will look
at the word. Mutual exclusion alone is not inductive: it needs the word to tell that
there is an owner.

`RestoreStagesProofs`, for every finite process tree, any kinds of tasks and threads, and
whatever fails:

- `Typing`: `TypeOK` is invariant. One step per action; counting lemmas from
  FiniteSetTheorems for the numbers of participants.
- `StagesInOrder`: without a new pid namespace, the inductive invariant `StageInv`: criu's
  position agrees with the stage it has announced (from CREDS on, the network is unlocked), and
  no task's position is beyond the stage in `start`. A task leaves a barrier when `start` is no
  longer its stage, so the second part needs the first: `start` only moves forward
  or to CR_STATE_FAIL, and criu stores CR_STATE_FAIL only when no stage beyond
  FORKING has been announced or no task is left.
- `RepairOff`: repair mode is switched off only with the network unlocked; from `StageInv`. With
  a pid namespace it is not a theorem, as tasks take CR_STATE_FAIL for the next stage
  (section 6).

`RestoreBarrierProofs`, on top of `StageInv`, for every tree restored without a new pid namespace
(`~NewPid`): the inductive invariant `RestoreInv` (`BarrierHolds`), and from it `StagesTogether`,
`NrThreadsCurrent`, `UnmapIsSafe` and `CredsBeforeResume`. None of the four properties is
inductive: each relates a counter to where everybody is, and the counter is moved by others
than those it counts. The parts are

- `TaskInv`, `ThreadInv`, `SigInv`: where a task, its threads and its handlers can be relative to each
  other, and which SIGCHLDs can be pending;
- `BarrierInv`: nr_in_progress is aborted, or it is at least the number of participants that have not
  reached the barrier; and a participant that is gone has been counted off by the handler that
  reaped it, or the count was aborted (`NobodyDied`, `HandlerInv`, `CaughtUp`);
- `NrInv`: nr_threads counts those who are left plus the zombies whose handler has yet to
  take them off, which is two steps after nr_in_progress;
- `PageInv`: thread_inprogress covers the threads and the handler that can still touch the page;
- `CredsInv`: once COMPLETE is announced everybody has credentials or is about to die in BUG().

The hypothesis `~NewPid` is needed: in a new pid namespace the counterexamples of section 6 apply.
While proving this two definitions of the model were corrected: criu attaches to and
finalizes tasks that are neither dead nor helpers (`RunningItems`, cr-restore.c:1372), and
CASEs whose guards overlapped, of which TLC takes the first and TLA+ any, became IFs, here and in `Service` and
`Freeze`.

`ServiceProofs`, for any clients, programs, number of connections and exits of the server:
`AnswersRight`. `ServiceInv` says, for each connection, who holds a descriptor of it, what is in its two
queues and what its worker has done (`ConnInv`, `WorkerInv`, `TraceInv`); for each client, which call it
is in and on which connection (`CallInv`); for an image, that it is of a dump that was done or is about
to be answered (`ImageInv`); and for a result, that an error is returned only when the request has no worker
and will get none, or its worker could not write the answer (`ResInv`). `AnswersAreRight` speaks of the moment of return only; that an
answer in a queue is the one its worker decided on, and that a restored task finds its own, is what has to be
carried along.

`InetSocketsProofs`, for any tables of sockets: `PortsAreRestored`. `PortsInv` says that port->users is
the number of sockets that have yet to bind, that a socket has given up SO_REUSEADDR only when nobody
else still needs it (`ShareInv`), and what each socket's flags are at each step (`ReuseInv`); so
every bind() finds a port that can be shared. A table is assumed to be one the kernel can have had:
finite, a port of one protocol, at most one listener on it.

`InetStreamProofs`, for streams of any length below 2 ^ SeqBits and any first number:
`StreamStaysIntact`. `StreamInv` counts positions in the two streams, which do not wrap, and says of
every number in a socket, a segment or the image at which position it stands (`P(i)`), and of every queue that it is
the bytes between two positions (`Queue`). `Local` is the socket, or what the image will make of it while
there is none, so that dump, death and restore are the same connection in three places; `PhaseInv` says which of
the rules, repair mode and the image are there in which phase: between the first lock and the last
unlock nothing moves. `WriteInv`, `ReadInv` and `NetInv` are the two directions and the segment under way. The
lemmas about numbers (`Number`, `SameNumber`, `Onwards`, `Distance`) need the streams to be shorter than the range of the numbers
(`InetAssumption`), as the real ones, with windows below half of it, are. At most one
socket of a table is the connection that is followed.

`RestoreMemoryProofs`, for any task trees, areas, size of an address space, length of the restorer and
place of criu itself: `RestorerStays`. `BootInv` says of each task that its premapped areas lie side by side
(`Packed`), that they are in use as long as the restorer has no place (`InUseAll`), and that the
restorer, once it has one, is there and apart from the premapped areas and from the areas to come
(`BootApart`). `RestorerIntact` alone is not inductive: that a page is the restorer's now does not say that
nothing will be moved there. The place comes from `HintIsFree`, about the loop of `restorer_get_vma_hint()`: no
area the loop has passed, in either list, reaches beyond prev_vma_end, and the areas it has
not passed begin after what it returns. The lengths of the premapped areas (`Ends`) and the rounds of
the loop (`Search`) are recursive functions; the library's induction theorems cannot be used, so
the module has induction over a set of numbers (`Induct`, from the well-foundedness of <) and from it that
a recursive function exists and satisfies its equation (`Iterate`). For the proof `MemoryAssumption` names what a list of
areas is (in order, apart, within the address space), and the search was rewritten from a recursive
operator in one piece to a function of a cursor and its rounds.

`MemoryAsDumped`, in the same module, is the whole way of an address space, under the hypothesis `OneStack`: no task
has more than one area that grows downwards. `LayoutInv` follows each task from stage to stage: its
premapped areas hold what the image says (`Contents`), after `unmap_guard_pages()` there is nothing
between them (`NoGuards`), and in the two loops the areas moved so far are in place and the others where
they were premapped (`Laid`, with `Below` and `InPlace` for how far the loop has got). That a move
destroys nothing is the order of the loops: an area that went down is below all that were premapped after it
(`LeftIsBelow`), one that went up above all before it (`RightIsAbove`). That the first loop may stop at the first area that goes
up, and the second at the first, from above, that goes down, needs `NoCrossing`: behind an area that goes up none goes
down. It holds because the gaps between areas never get smaller when they are put in place, but for the page
premapped before a stack, and with one stack that is one page, which is not enough to turn a move up into one
down. With two it is: `OneStack` is what the code needs and does not check (section 6). The trees of the run
satisfy it. `SegTable` and `SegTask` are about shared memory: a segment is as long as anybody maps it
(`NeedsCovered`, a greatest value over the finite set of its users), and whoever has opened one finds
all of it there, so `restore_mapping()` never maps beyond its end.

`FdRestoreProofs`, for any tasks, files, sharers of a table and assignment of files to descriptors:
`DescriptorsFollowThePlans`, and from it `PrepareFdsNeverFails` and `EveryTableIsRestored`. The lists criu builds before
the fork are summed up in a record, `Graph`: the entries, the file and the master of each, who makes a file,
whom its maker sends the other ends to, and the plan of each task. That the lists are good ones (`Good`) is
proved from how they are built: sorting gives each entry once (`SortedEnumerates`), a group of files has one creator
(`OneCreator`), a plan has every step once and everything after the last receive at its end (`PlanEnumerates`). The invariant then
needs no more than how far each task is in its plan. From that follow four sets of entries: `Prep`, whose
transport was opened; `Hold`, whose file is in the descriptor; `Shut`, whose service descriptor is closed again; `Out`, who
was sent the file. `Tables` says what is in every descriptor, given the first three, and `Queues` what is queued on every
transport, given `Hold` and `Out`; `PcInv` says whom a task at work has yet to send to, and `ShareInv` that fdt_lock
counts the sharers that came to prepare_fds() and the one that left. `NobodyFails` is
far from inductive: that a transport is in place when a file is sent to it rests on the file being sent by one
master only and once (`OneSender`, `SendTarget`), and that a descriptor is free when a file goes there on no
sharer using one of its own between the barrier and the end (`NoTempWhenActive`). Each action has a lemma, named after it, that it keeps the
invariant, and each kind of step one on what it does to the four sets (`NextViews`, `OpenViews`, `InstallViews`,
`SendViews`). Two hypotheses, which the systems of the run satisfy, leave out the cases of section 6: `NoInFlight`, no system has a stream socket
together with the socket that is yet to accept it; and `LeaderOwns`, a session's leader that shares its table is the one that
restores it, as its entry is otherwise on a list nobody goes through. For the proof the plan was rewritten from a selection
out of all steps to the concatenation of its parts, and `FdRestoreAssumption` names what was implicit: files of one group are
ends of one pipe, pair or pty, and the marks for free descriptors are no files.

The constants are assumed finite and well formed only (`RestoreAssumption`, `MutexAssumption`,
`ServiceAssumption`, `InetAssumption`, `MemoryAssumption`, `FdRestoreAssumption`), which TLC evaluates in the runs; every inductive invariant was
checked with TLC on the instance of its run before it was proved.

*Only model-checked:*

- all liveness, and the completion half of the runs, which are out of the prover's reach;
- `RestoreCompletes` and `FailureLeavesNothing` with a new pid namespace, being liveness;
- `MemSnapshots` and `Mounts`, which use RECURSIVE operators (`PageImages`, the walks of the mount tree),
  about which tlapm cannot reason;
- `DiskFiles`, which folds over sequences of operations, and `PstreeIds`, whose question is one of
  liveness;
- `NobodyEscapes`, `LeftAsItWas`, `NothingLostOnFailure` of `DumpTree`: the first holds up to the number
  of attempts of `collect_threads()`, which is no error when used up (section 6), so it is a fact about the
  bounds of the run and not about every value of the constants;
- that nobody waits for ever in `FdRestore` (`EverybodyRestored`), being liveness.

## 6. Where code and expectation differ

The passing runs leave out the cases below, by the constant or definition named, or because the
model has no such step. They were met while modelling; those marked (TLC) are counterexamples
of the models here when the constant is changed or the property's exception is dropped.

Restore of the tree:

- (TLC) After a failure in a new pid namespace the restorer ignores the value of the stage
  (pie/restorer.c:889) and tasks may resume without all credentials: `ResumedOnlyWithCreds` with
  RestorePidNs.cfg.
- (TLC) A re-parented zombie is counted in a helper (cr-restore.c:941) and criu waits for ever:
  `RestoreCompletes` with `TreeC`, `KindC` and `OwnerC`, in a new pid namespace.
- (TLC) A group's leader that has moved to another group never sets pgrp_set
  (cr-restore.c:1137): `LeaderMoved` in `AllGetForked`.
- (TLC) The walk of pstree.c:451 does not see what is below helpers of dead session leaders; a
  task there that was born before its parent's setsid() is refused at restore, and with
  six pids one may be forked twice: `BornBelowHelper` in `AllGetForked`.
- (TLC) The result of clone() for a thread is not looked at (pie/restorer.c:864): `CriuReturns` has
  the exception (`Lost`).
- (TLC) When `fork_with_pid()` cannot open, lock or write LAST_PID_PATH, or `netns_pre_create()` fails
  (cr-restore.c:958-985), it returns the 1 that `pb_read_one()` left in `ret`. `restore_root_task()` and
  `create_children_and_session()` (cr-restore.c:1196, 1208) test for ret < 0 and go on without the child, and criu
  waits for ever for a stage nobody can complete: `CriuReturns` without `Lost`. A helper has no core
  image, and its failure is seen.
- (TLC) A member of a process group sleeps in `restore_pgid()` (cr-restore.c:1137) until its leader has made the
  group. When the leader dies before, the stage fails, but without a new pid namespace a failed CR_STATE_FORKING kills
  nobody, and the member is left behind: `FailureLeavesNothing` without `Forlorn`.
- The BUG_ON() of `sigchld_handler()` for a child that is not in the tree (cr-restore.c:1058) is left out: in the
  model every child is.

Files:

- (TLC) A socket is announced as bound before it listens (sk-unix.c:740): `NobodyFails` with
  `InFlight`.
- (TLC) The entry for a controlling terminal is put on a list that nobody goes through when
  the leader shares its table (tty.c:761): `EverybodyRestored` with `SharedLeader`.
- (TLC) A posix lock on a mapped file is lost when the restorer closes the mapping's descriptor
  (pie/restorer.c:370): `Mapped` in `LocksKept`. A flock is put on the first
  descriptor with the inode, and is lost when its owner has exited: `Ambiguous`.
- Ghosts of a restore that failed are left in the directory; `open_path()` keeps the
  mutex when it fails; `get_fd_by_ino()` does not compare devices.

Memory:

- (TLC) An error while writing pages is overwritten (mem.c:417): `WriteFails = {"dump"}`. The same in
  `cr_pre_dump_tasks()` for all tasks but the last (cr-dump.c:1633): `Others = TRUE`, or
  `PreDumpIsComplete` of `DumpTree` with `PreDumpFault`.
- (TLC) A dump that fails after the dirty bits were reset makes a retry on the older snapshot wrong
  (`RetryOld`), and so does a page that was thrown away and is read again (`Rereads`).
- (TLC) Pages behind the parent's last one make `dedup_one_iovec()` return an error (cr-dedup.c:117-124), which stops the
  writing of the pages and is overwritten like any other (mem.c:417): `DumpIsRestorable` with `Volatile = {3}`.
- Auto-dedup punches the parent before the child's page is written (page-xfer.c:451): a
  dump that fails leaves neither. `DumpIsRestorable` leaves such parents out.
- Not followed: the iovecs of a page pipe are half of the pages, rounded down (mem.c:346); the
  rover of `page_in_parent()` has no bound (mem.c:203); xfer->parent is not set with
  --auto-dedup and no parent (page-xfer.c:563); `page_server_add()` loops when
  splice() returns 0 (page-xfer.c:117).
- Memory is never inherited from the parent task (cr-restore.c:256 takes the address of an
  area that is not premapped yet). The pages come out right, but are not shared.
- A stack is put together with any area before it (proc_parse.c:196); stacks that were split
  may break the two loops (pie/restorer.c:650, 677); `restorer_get_vma_hint()` skips the last area
  of each list; mincore() misses pages of shared memory that are swapped out (shmem.c).

Sockets:

- (TLC) listen() while a connection of the port is out of repair mode fails, contrary to
  the comment at sk-inet.c:395: `raced` in `PortsRestored`.
- `dump_tcp_conn_state()` returns 0 when an option cannot be read or its image not be opened; a bound TCP
  socket that does not listen loses its port.
- A connection that the peer resets between its collection and the lock is in TCP_CLOSE, which `refresh_inet_sk()` takes
  like an established one (sk-tcp.c:83). The peer of the model never resets; only data and a FIN come in between.

Mounts (TLC, each a disjunct of `Limits`): a source that is covered, a bind mount in a shared one, children
of a mount whose propagation was changed later, mounts that wait for each other, a shared
directory of a file system, peers with a master, and copies that stay (`MissedCopy`): `umount_from_slaves()`
looks for a copy at the slave's path followed by the last name of the mountpoint, which is wrong below the first directory
or in a slave that shows a subdirectory, and returns at the first umount() that fails (mount.c:952); its
result is not looked at (mount.c:993, 1005), and the mount comes back twice.

Dump:

- (TLC) With `PidReuse = TRUE` a task may escape: the check of the parent's pid in `seize_task()`
  does not tell a reused pid.
- A parasite is left when `dump_task_creds()` fails (cr-dump.c:1544), when
  `parasite_init_daemon()` fails after the blob runs; criu waits for ever when the blob cannot connect.
  `dump_task_files_seized()` returns 0 when its image cannot be opened (files.c:394).
- criu dies of a null pointer when it cannot map what the task has mapped: `parasite_cure_remote()` writes a command
  to addr_cmd (parasite-syscall.c:956), which is not set yet (parasite-syscall.c:1077-1090). The run has this as a death of criu
  (fault `map_files`).
- A post-dump script that is killed by a signal has succeeded: only WEXITSTATUS() is looked at (cr-dump.c:1770). In
  the model a script fails or not by its exit status.
- A killed criu leaves the network locked and the blob mapped; `LeftAsItWas` says so.
- `collect_threads()` returns 0 when its attempts are used up.

Service:

- (TLC) A task dumped while its connection waits for accept() is dumped successfully and cannot
  be restored (sk-unix.c:1025); nor can one whose connection the peer has closed (sk-unix.c:869),
  contrary to the comment at sk-unix.c:103. The model has both as restores that fail.
- A client whose dump or restore was done hears an error when the worker cannot write its answer (cr-service.c:59,
  190); the exit status of the worker, which tells, goes to the log. `AnswersAreRight` names this case. A worker that is killed in
  the middle of a dump or restore is not modelled.
- Socket activation (cr-service.c:350) is not modelled. With it `client_addr_len` is not initialized (cr-service.c:350); the library
  writes without protection from SIGPIPE (lib/criu.c:136), which the model has as a choice; a client
  that asks for its own dump without leave_running gets no answer when it fails.

## 7. Mutants

Definitions with a suffix (`stage_participants_OffByOne`, `Frozen_UntilGrab`, ...) are broken variants
of the definition that follows them, as a plausible mistake in the code would have it. Each
property of a run is violated when one of them takes the place of the
definition, which shows that the property depends on the code.

## 8. Not modelled

See the components with status `not_modelled` and the notes of the others. `KcmpIds` and
`RstMalloc` are planned (section 2). The rest only converts data (images, protobuf, /proc, netlink
messages, terminal settings), saves and restores single objects without interaction (eventfd,
signalfd, tun, netlink and packet sockets, IPC objects, UTS names, timers), or is
machine code (architecture support, the vDSO proxy).
