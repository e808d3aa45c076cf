---------------------------- MODULE MemSnapshots ----------------------------
(***************************************************************************)
(* The memory of a task, dumped again and again.  "criu pre-dump" and      *)
(* "criu dump" write the pages that changed since the directory given with *)
(* --prev-images-dir; the kernel's soft-dirty bits tell which.  A pre-dump *)
(* writes its images after the task runs again, out of pipes that share    *)
(* their pages with the task.  Images go to files, or through a socket to  *)
(* "criu page-server".  "criu dedup" and --auto-dedup punch out of the     *)
(* parent directory what is superseded.                                    *)
(*                                                                         *)
(* One task of the tree is followed; what happens to the others only shows *)
(* in whether a command fails.  The content of a page is the number of the *)
(* interval between commands in which it was written.                      *)
(***************************************************************************)
EXTENDS PageImages, FiniteSets

CONSTANTS
  NrPages,     \* of the task's private memory
  Volatile,    \* pages that come and go; the others stay
  Scripts,     \* sequences of commands: [cmd, prev, track, leave, dedup, server]
  WriteFails,  \* the commands whose writes to image files may fail (ENOSPC)
  Others,      \* TRUE: there are other tasks in the tree
  RetryOld,    \* TRUE: after a failure, go on from the last good directory
  Rereads      \* TRUE: the task reads pages it has thrown away

ASSUME MemAssumption ==
  /\ NrPages \in Nat \ {0} /\ Volatile \subseteq 1 .. NrPages
  /\ \A s \in Scripts : s \in Seq([cmd : {"dump", "pre-dump"}, prev : BOOLEAN,
       track : BOOLEAN, leave : BOOLEAN, dedup : BOOLEAN, server : BOOLEAN])
  /\ WriteFails \subseteq {"dump", "pre-dump"}
  /\ {Others, RetryOld, Rereads} \subseteq BOOLEAN

Pages == 1 .. NrPages
Absent == -1

VARIABLES
  script,   \* the commands of this run
  mem,      \* the task's pages: their contents, or Absent
  dirty,    \* pages whose soft-dirty bit is set
  fresh,    \* pages of mappings made since the bits were reset (VM_SOFTDIRTY)
  thrown,   \* pages thrown away with MADV_DONTNEED since then
  alive,    \* the task has not been killed after a dump
  dirs,     \* the directories of images, one per command
  base,     \* the directory that --prev-images-dir names, or 0
  pc,       \* where the command in progress is
  plan,     \* what page_xfer_dump_pages() has yet to write
  reader,   \* xfer->parent, the reader that dedup goes along with
  ret,      \* the ret of the command
  sock,     \* what is on its way to the page server
  srv       \* the server: "none", "serving", "flushed" or "closed"

taskVars == <<mem, dirty, fresh, thrown>>
vars == <<script, taskVars, alive, dirs, base, pc, plan, reader, ret, sock, srv>>

cur == Len(dirs)
opt == script[cur]
Parent(d) == dirs[d].parent

\* crtools.c: what a pre-dump enforces.
Tracks(s) == s.track \/ s.cmd = "pre-dump"
FinalAlive(s) == s.leave \/ s.cmd = "pre-dump"

\* Mutant: the tasks are let go before the soft-dirty bits are reset.
Frozen_UntilGrab == pc # "idle" /\ (opt.cmd = "dump" \/ pc = "frozen")
Frozen == pc # "idle" /\ (opt.cmd = "dump" \/ pc \in {"frozen", "reset"})
Runs == alive /\ ~Frozen /\ (pc # "idle" \/ cur < Len(script))

Init ==
  /\ script \in Scripts
  /\ mem = [p \in Pages |-> IF p \in Volatile THEN Absent ELSE 1]
  /\ dirty = {} /\ fresh = Pages /\ thrown = {}
  /\ alive = TRUE
  /\ dirs = <<>> /\ base = 0
  /\ pc = "idle" /\ plan = <<>>
  /\ reader = <<>> /\ ret = 0
  /\ sock = <<>> /\ srv = "none"

-----------------------------------------------------------------------------
(* The task and the kernel *)

Write(p) ==
  /\ Runs /\ mem[p] # cur + 1
  /\ mem' = [mem EXCEPT ![p] = cur + 1]
  /\ dirty' = dirty \cup {p}
  /\ UNCHANGED <<fresh, thrown>>

\* A read of a page that is not there maps the zero page.
Touch(p) ==
  /\ Runs /\ mem[p] = Absent
  /\ p \in thrown => Rereads
  /\ mem' = [mem EXCEPT ![p] = Zero]
  /\ UNCHANGED <<dirty, fresh, thrown>>

\* madvise(MADV_DONTNEED)
Discard(p) ==
  /\ Runs /\ p \in Volatile /\ mem[p] # Absent
  /\ mem' = [mem EXCEPT ![p] = Absent]
  /\ dirty' = dirty \ {p} /\ thrown' = thrown \cup {p}
  /\ UNCHANGED fresh

\* munmap() and mmap()
Remap(p) ==
  /\ Runs /\ p \in Volatile /\ mem[p] # Absent
  /\ mem' = [mem EXCEPT ![p] = Absent]
  /\ dirty' = dirty \ {p} /\ fresh' = fresh \cup {p} /\ thrown' = thrown \ {p}

TaskStep ==
  /\ \E p \in Pages : Write(p) \/ Touch(p) \/ Discard(p) \/ Remap(p)
  /\ UNCHANGED <<script, alive, dirs, base, pc, plan, reader, ret, sock, srv>>

-----------------------------------------------------------------------------
(* mem.c *)

PME_SOFT_DIRTY(p) == p \in dirty \cup fresh
should_dump_page(p) == mem[p] # Absent

\* mem_snap_init(): the parent's pagemap as a list of iovecs.
mem_snap_init ==
  IF Parent(cur) = 0 THEN <<>> ELSE dirs[Parent(cur)].pm

\* Where the rover stops: at the first iovec that ends behind p.
NextIov(p, rover, snap) ==
  CHOOSE r \in rover .. Len(snap) + 1 :
    /\ r <= Len(snap) => End(snap[r]) > p
    /\ \A i \in rover .. r - 1 : End(snap[i]) <= p

\* Mutant: the soft-dirty bit is not looked at.
page_in_parent_AnyPage(p, rover, snap) ==
  LET r == NextIov(p, rover, snap)
  IN  [rover |-> r, in |-> r <= Len(snap) /\ snap[r].vaddr <= p]

\* page_in_parent() of a page that is soft-dirty, or not.
page_in_parent(p, rover, snap) ==
  LET r == NextIov(p, rover, snap)
  IN  IF PME_SOFT_DIRTY(p) THEN [rover |-> rover, in |-> FALSE]
      ELSE [rover |-> r, in |-> r <= Len(snap) /\ snap[r].vaddr <= p]

\* generate_iovs() over all the private mappings.  The page pipe has iovecs for
\* half of the task's private pages, most of which are not followed here.
generate_iovs(snap) ==
  FoldLeft(
    LAMBDA acc, p :
      LET q == page_in_parent(p, acc.rover, snap)
      IN  IF ~should_dump_page(p) THEN acc
          ELSE IF snap # <<>> /\ q.in
          THEN [acc EXCEPT !.holes = AddIov(@, p), !.rover = q.rover]
          ELSE [acc EXCEPT !.pages = AddIov(@, p),
                           !.rover = IF snap # <<>> THEN q.rover ELSE @],
    [pages |-> <<>>, holes |-> <<>>, rover |-> 1],
    [p \in Pages |-> p])

\* The result of a command on a task before or after this one may replace ret:
\* cr_pre_dump_tasks() goes on with the next task.
Overwritten(r) == IF Others /\ opt.cmd = "pre-dump" THEN {r, 0} ELSE {r}

\* A page server is started for one connection, which criu has before it
\* freezes the tasks.
cr_page_server(s) == IF s.server THEN "serving" ELSE "none"

\* cr_dump_tasks(), cr_pre_dump_tasks(): the tasks are frozen.
Start ==
  /\ pc = "idle" /\ alive /\ cur < Len(script)
  /\ LET s == script[cur + 1]
         prev == IF s.prev /\ base # 0 /\ dirs[base].opened THEN base ELSE 0
     IN  /\ dirs' = Append(dirs,
              [cmd |-> s.cmd, parent |-> prev, pm |-> <<>>, pages |-> <<>>,
               opened |-> FALSE, ok |-> FALSE, given_to |-> 0, want |-> mem])
         /\ srv' = cr_page_server(s)
  /\ pc' = "frozen" /\ ret' = 0 /\ plan' = <<>> /\ reader' = <<>> /\ sock' = <<>>
  /\ UNCHANGED <<script, taskVars, alive, base>>

\* A dump writes its images before it resets the bits.
AfterGrab == IF opt.cmd = "dump" THEN "open" ELSE "reset"

\* Steps 0 to 2 of __parasite_dump_pages_seized(); infecting or vmsplice() may
\* fail.
DumpPages ==
  /\ pc = "frozen"
  /\ LET pp == generate_iovs(mem_snap_init)
     IN  \/ /\ plan' = page_xfer_dump_pages(pp.pages, pp.holes)
            /\ pc' = AfterGrab /\ UNCHANGED ret
         \/ /\ ret' \in Overwritten(-1) /\ pc' = "end"
            /\ UNCHANGED <<plan>>
  /\ UNCHANGED <<script, taskVars, alive, dirs, base, reader, sock, srv>>

\* Step 4; a dump has written its images by then (and its ret is replaced), a
\* pre-dump writes them after it has let the tasks go.
task_reset_dirty_track ==
  /\ pc = "reset"
  /\ \/ /\ IF Tracks(opt) THEN dirty' = {} /\ fresh' = {} /\ thrown' = {}
                          ELSE UNCHANGED <<dirty, fresh, thrown>>
        /\ ret' = 0
        /\ pc' = IF opt.cmd = "dump" THEN "rest" ELSE "open"
     \/ /\ Tracks(opt)
        /\ ret' \in Overwritten(-1) /\ pc' = "end"
        /\ UNCHANGED <<dirty, fresh, thrown>>
  /\ UNCHANGED <<script, mem, alive, dirs, base, plan, reader, sock, srv>>

-----------------------------------------------------------------------------
(* page-xfer.c: writing the images *)

\* open_page_local_xfer()
OpenLocal(d) ==
  /\ dirs' = [dirs EXCEPT ![d].opened = TRUE]
  /\ reader' = open_page_read(dirs)

write_pagehole_loc(d, iov) ==
  dirs' = [dirs EXCEPT ![d].pm = Append(@, Entry(iov.base, iov.len, TRUE))]

\* write_pagemap_loc(), deduplicating the parent first.
WithEntry(ds, d, iov) ==
  [ds EXCEPT ![d].pm = Append(@, Entry(iov.base, iov.len, FALSE))]
Dedup(d, iov) == dedup_one_iovec(dirs, reader, Parent(d), iov.base, iov.base + iov.len)
DedupWorks(d, iov) == opt.dedup /\ Parent(d) # 0 => Dedup(d, iov).ret # -1
write_pagemap_loc(d, iov) ==
  IF opt.dedup /\ Parent(d) # 0
  THEN /\ dirs' = [WithEntry(Dedup(d, iov).dirs, d, iov) EXCEPT
                     ![Parent(d)].given_to = d]
       /\ reader' = Dedup(d, iov).r
  ELSE dirs' = WithEntry(dirs, d, iov) /\ UNCHANGED reader

write_pages_loc(d, contents) ==
  dirs' = [dirs EXCEPT ![d].pages = @ \o contents]

\* One operation of the plan, done to the files of directory d.
Apply(d, op) ==
  CASE op.cmd = "hole" -> write_pagehole_loc(d, op.iov) /\ UNCHANGED reader
    [] op.cmd = "pagemap" -> DedupWorks(d, op.iov) /\ write_pagemap_loc(d, op.iov)
    [] op.cmd = "pages" -> write_pages_loc(d, op.contents) /\ UNCHANGED reader

\* What splice() finds in the pipe: while the task runs, a page as it was or as
\* it is now.
InPipe(p) ==
  {dirs[cur].want[p]} \cup (IF mem[p] = Absent THEN {} ELSE {mem[p]})
Contents(iov) ==
  {c \in [1 .. iov.len -> UNION {InPipe(iov.base + i - 1) : i \in 1 .. iov.len}] :
     \A i \in 1 .. iov.len : c[i] \in InPipe(iov.base + i - 1)}
Filled(op) ==
  IF op.cmd = "pages"
  THEN {[cmd |-> op.cmd, iov |-> op.iov, contents |-> c] : c \in Contents(op.iov)}
  ELSE {op}

\* open_page_xfer()
OpenXfer ==
  /\ pc = "open"
  /\ \/ /\ ~opt.server /\ OpenLocal(cur)
        /\ pc' = "xfer" /\ UNCHANGED <<ret, sock>>
     \/ /\ opt.server
        /\ sock' = IF srv = "closed" THEN sock ELSE Append(sock, Op("open", {}))
        /\ pc' = "xfer" /\ UNCHANGED <<ret, dirs, reader>>
     \/ /\ opt.server => srv = "closed"
        /\ ret' = -1 /\ pc' = "end" /\ UNCHANGED <<dirs, reader, sock>>
  /\ UNCHANGED <<script, taskVars, alive, base, plan, srv>>

XferLocal ==
  /\ pc = "xfer" /\ plan # <<>> /\ ~opt.server
  /\ \E op \in Filled(Head(plan)) : Apply(cur, op)
  /\ plan' = Tail(plan)
  /\ UNCHANGED <<script, taskVars, alive, base, pc, ret, sock, srv>>

\* A write to the images fails, or deduplicating does.
XferLocalFails ==
  /\ pc = "xfer" /\ plan # <<>> /\ ~opt.server
  /\ opt.cmd \in WriteFails \/ (Head(plan).cmd = "pagemap" /\ ~DedupWorks(cur, Head(plan).iov))
  /\ plan' = <<>> /\ ret' = -1
  /\ UNCHANGED <<script, taskVars, alive, dirs, base, pc, reader, sock, srv>>

\* Writes to a connection that the server has closed may still succeed.
XferToServer ==
  /\ pc = "xfer" /\ plan # <<>> /\ opt.server
  /\ \/ /\ IF srv = "closed" THEN UNCHANGED sock
           ELSE \E op \in Filled(Head(plan)) : sock' = Append(sock, op)
        /\ plan' = Tail(plan) /\ UNCHANGED ret
     \/ srv = "closed" /\ plan' = <<>> /\ ret' = -1 /\ UNCHANGED sock
  /\ UNCHANGED <<script, taskVars, alive, dirs, base, pc, reader, srv>>

XferDone ==
  /\ pc = "xfer" /\ plan = <<>>
  /\ pc' = IF opt.cmd = "dump" THEN "reset" ELSE "end"
  /\ ret' \in Overwritten(ret)
  /\ UNCHANGED <<script, taskVars, alive, dirs, base, plan, reader, sock, srv>>

-----------------------------------------------------------------------------
(* The end of a command *)

\* The rest of dump_one_task() and of cr_dump_tasks().
RestOfDump ==
  /\ pc = "rest"
  /\ ret' \in {0, -1} /\ pc' = "end"
  /\ UNCHANGED <<script, taskVars, alive, dirs, base, plan, reader, sock, srv>>

\* disconnect_from_page_server()
SendFlush ==
  /\ pc = "end" /\ opt.server
  /\ sock' = IF srv = "closed" THEN sock ELSE Append(sock, Op("flush", {}))
  /\ pc' = "flush"
  /\ UNCHANGED <<script, taskVars, alive, dirs, base, plan, reader, ret, srv>>

\* Mutant: the answer is not waited for.
Answered_NoWait == {0}
Answered == CASE srv = "flushed" -> {0} [] srv = "closed" -> {-1} [] OTHER -> {}
WaitFlush ==
  /\ pc = "flush"
  /\ \E status \in Answered : ret' = IF status = 0 THEN ret ELSE -1
  /\ pc' = "done"
  /\ UNCHANGED <<script, taskVars, alive, dirs, base, plan, reader, sock, srv>>

\* pstree_switch_state(), and the exit code.  The user goes on from the last
\* directory that belongs to the state of the soft-dirty bits; after a failure
\* that is none.
Finish ==
  /\ pc = "done" \/ (pc = "end" /\ ~opt.server)
  /\ dirs' = [dirs EXCEPT ![cur].ok = (ret = 0)]
  /\ alive' = (ret # 0 \/ FinalAlive(opt))
  /\ base' = IF ret # 0 THEN (IF RetryOld THEN base ELSE 0)
             ELSE IF Tracks(opt) THEN cur ELSE base
  /\ pc' = "idle" /\ srv' = "none" /\ sock' = <<>> /\ reader' = <<>>
  /\ plan' = <<>> /\ ret' = 0
  /\ UNCHANGED <<script, taskVars>>

-----------------------------------------------------------------------------
(* criu page-server, criu dedup *)

\* page_server_serve(): one command, and what may fail in it.
Served(op) ==
  CASE op.cmd = "open" -> OpenLocal(cur) /\ UNCHANGED srv
    [] op.cmd = "flush" -> srv' = "flushed" /\ UNCHANGED <<dirs, reader>>
    [] OTHER -> Apply(cur, op) /\ UNCHANGED srv
PageServer ==
  /\ srv = "serving" /\ sock # <<>>
  /\ \/ Served(Head(sock)) /\ sock' = Tail(sock)
     \/ /\ Head(sock).cmd # "flush"
        /\ srv' = "closed" /\ sock' = <<>> /\ UNCHANGED <<dirs, reader>>
  /\ UNCHANGED <<script, taskVars, alive, base, pc, plan, ret>>

\* criu dedup in directory d, once.
cr_dedup(d) ==
  /\ pc = "idle" /\ dirs[d].ok /\ dirs[d].opened
  /\ Parent(d) # 0 /\ dirs[Parent(d)].given_to = 0
  /\ dirs' = [cr_dedup_one_pagemap(dirs, d).dirs EXCEPT ![Parent(d)].given_to = d]
  /\ UNCHANGED <<script, taskVars, alive, base, pc, plan, reader, ret, sock, srv>>

-----------------------------------------------------------------------------
Criu ==
  \/ DumpPages \/ task_reset_dirty_track
  \/ OpenXfer \/ XferLocal \/ XferLocalFails \/ XferToServer \/ XferDone
  \/ RestOfDump \/ SendFlush \/ WaitFlush \/ Finish

\* Nothing is left to do; anything else that does not move is a deadlock.
Stopped ==
  /\ pc = "idle" /\ (~alive \/ cur = Len(script))
  /\ UNCHANGED vars

Next ==
  \/ TaskStep \/ Start \/ Criu \/ PageServer \/ Stopped
  \/ \E d \in DOMAIN dirs : cr_dedup(d)

Spec == Init /\ [][Next]_vars

-----------------------------------------------------------------------------
(* Properties *)

Value(c) == IF c = Absent THEN Zero ELSE c
Restored(d) == restore_priv_vma_content(dirs, d, Pages)

\* d and its parents; d is kept when none of them was deduplicated with a
\* directory that d does not build on.
RECURSIVE Chain(_)
Chain(d) == IF d = 0 THEN {} ELSE {d} \cup Chain(Parent(d))
Kept(d) == \A a \in Chain(d) : dirs[a].given_to \in {0} \cup (Chain(d) \ {a})

\* A dump that criu reported as done gives back, through all its parents, the
\* memory the task had when it was frozen, as long as it is kept.
DumpIsRestorable ==
  pc = "idle" =>
    \A d \in DOMAIN dirs :
      dirs[d].ok /\ dirs[d].cmd = "dump" /\ Kept(d) =>
        Restored(d) = [ret |-> 0, mem |-> [p \in Pages |-> Value(dirs[d].want[p])]]

Mapped(d) == {p \in Pages : \E i \in DOMAIN dirs[d].pm :
                p \in dirs[d].pm[i].vaddr .. End(dirs[d].pm[i]) - 1}

\* page_in_parent(): "soft-dirty bit cleared (i.e. -- not modified)".  Between
\* commands a clean page that the directory to go on from has, has not changed.
CleanPagesAreUnchanged ==
  pc = "idle" /\ alive /\ base # 0 /\ dirs[base].opened =>
    LET snapshot == Restored(base).mem
    IN  \A p \in Mapped(base) :
          should_dump_page(p) /\ ~PME_SOFT_DIRTY(p) => snapshot[p] = mem[p]

\* The readers only go forward: entries are in order and do not overlap.
InOrder(pm) == \A i \in 1 .. Len(pm) - 1 : End(pm[i]) <= pm[i + 1].vaddr

\* A command that succeeded has left a pagemap with the pages of the frozen
\* task (or the task was not among the ones dumped), in the order a reader
\* needs, and each page in the file.
ReportedImagesAreComplete ==
  \A d \in DOMAIN dirs :
    dirs[d].ok /\ dirs[d].opened =>
      /\ Mapped(d) = {p \in Pages : dirs[d].want[p] # Absent}
      /\ InOrder(dirs[d].pm)
      /\ Len(dirs[d].pages) =
           FoldLeft(LAMBDA n, e : IF e.in_parent THEN n ELSE n + e.nr, 0, dirs[d].pm)

=============================================================================
