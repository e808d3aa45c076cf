--------------------------- MODULE RestoreMemory ---------------------------
(***************************************************************************)
(* How the address spaces of the tasks come back (cr-restore.c, shmem.c,   *)
(* pie/restorer.c).  Every task first maps its private areas side by side  *)
(* at a place that is free ("premap"), finds room for the restorer apart   *)
(* from all that is and will be mapped, jumps there, unmaps the rest and   *)
(* moves the areas to their places: those that go down first, from the     *)
(* lowest on, then those that go up, from the highest on.  Anonymous       *)
(* shared memory is made by one task and opened by the others through it.  *)
(*                                                                         *)
(* Addresses are numbers of pages.  All private pages of a task are in its *)
(* image; protections, madvise() bits and the vDSO are left out.           *)
(***************************************************************************)
EXTENDS Integers, Sequences, FiniteSets, FiniteSetsExt, SequencesExt

CONSTANTS
  Trees,      \* what is dumped: [root, vmas]; the other tasks are children of root
  TaskSize,   \* pages of an address space are 1..TaskSize
  SelfPages,  \* where criu itself is
  BootLen     \* restorer_len + args_len + TASK_ENTRIES_SIZE + rst_mem_remap_size()

Kinds == {"anon", "file", "stack", "shared"}
VmaEntry == [start : Nat, end : Nat, kind : Kinds, cow : BOOLEAN, id : Nat, off : Nat]
\* The areas of a task are in order, apart and within its address space.
ASSUME MemoryAssumption ==
  /\ TaskSize \in Nat /\ BootLen \in Nat \ {0} /\ SelfPages \subseteq 1..TaskSize
  /\ \A tr \in Trees :
       /\ tr.root \in DOMAIN tr.vmas /\ IsFiniteSet(DOMAIN tr.vmas)
       /\ \A t \in DOMAIN tr.vmas :
            /\ tr.vmas[t] \in Seq(VmaEntry)
            /\ \A i \in DOMAIN tr.vmas[t] :
                 /\ 1 <= tr.vmas[t][i].start /\ tr.vmas[t][i].start < tr.vmas[t][i].end
                 /\ tr.vmas[t][i].end <= TaskSize + 1
                 /\ i > 1 => tr.vmas[t][i - 1].end <= tr.vmas[t][i].start

VARIABLES
  tree,  \* one of Trees
  img,   \* the VMAS images of the tasks
  pc,    \* where a task is
  at,    \* the area its loop is at
  mem,   \* what is mapped at each page
  pre,   \* the premapped areas: [base, len, addr]
  boot,  \* where the restorer is, or 0
  shm    \* the table of shmem_info

vars == <<tree, img, pc, at, mem, pre, boot, shm>>
Tasks == DOMAIN tree.vmas
Root == tree.root

-----------------------------------------------------------------------------
(* Pages and areas *)

Pages == 1..TaskSize
Free == <<"free", 0, 0>>
Self == <<"self", 0, 0>>
Guard == <<"guard", 0, 0>>
Boot == <<"boot", 0, 0>>
\* A private page, its content and the task that wrote it; a page of a segment.
Private(content, by) == <<"page", content, by>>
Shared(id, off) == <<"shm", id, off>>

Span(v) == v.start..(v.end - 1)
Size(v) == v.end - v.start
IsFree(m, first, len) == \A p \in first..(first + len - 1) : p \in Pages /\ m[p] = Free

\* What a page holds: an area a child did not write to has what its parent's
\* area has.
Content(t, v, p) == 100 * (IF v.cow THEN Root ELSE t) + p

-----------------------------------------------------------------------------
(* The images *)

\* The kernel does not show the guard page of a stack, the lowest area of it
\* if it was split; parse_smaps() puts it back.
Shown(vmas, i) ==
  LET v == vmas[i]
  IN  IF v.kind = "stack" /\ ~ (i > 1 /\ vmas[i - 1].kind = "stack" /\ vmas[i - 1].end = v.start)
        THEN [v EXCEPT !.start = @ + 1] ELSE v
parse_smaps(vmas) ==
  [i \in DOMAIN vmas |->
     IF vmas[i].kind = "stack" /\ ~ (i > 1 /\ vmas[i - 1].kind = "stack")
       THEN [Shown(vmas, i) EXCEPT !.start = @ - 1] ELSE Shown(vmas, i)]
Image(t) == img[t]

vma_priv(v) == v.kind # "shared"
Privates(t) == {i \in DOMAIN Image(t) : vma_priv(Image(t)[i])}
Shareds(t) == DOMAIN Image(t) \ Privates(t)

\* Segments: dumped as far as somebody maps them, and made that long.
Users(id) == {u \in Tasks \X (1..TaskSize) : u[2] \in Shareds(u[1]) /\ Image(u[1])[u[2]].id = id}
Shmids == {Image(u[1])[u[2]].id : u \in UNION {{t} \X Shareds(t) : t \in Tasks}}
Needs(u) == Image(u[1])[u[2]].off + Size(Image(u[1])[u[2]])
add_shmem_area(id) == Max({Needs(u) : u \in Users(id)})
dump_one_shmem(id) == 0..(add_shmem_area(id) - 1)

\* The task with the least pid makes the segment; the others open its first
\* mapping of it.  (The table is filled task by task, the root first.)
First(id, t) == Min({u[2] : u \in {w \in Users(id) : w[1] = t}})
Owner(id) == Min({u[1] : u \in Users(id)})
collect_shmem_keeps_start(id) ==
  LET t == IF \E u \in Users(id) : u[1] = Root THEN Root ELSE Owner(id)
      v == Image(t)[First(id, t)]
  IN  [pid |-> Owner(id), start |-> v.start, end |-> v.end, size |-> Max({Needs(u) : u \in Users(id)}),
       pages |-> {}, lock |-> 0]
collect_shmem(id) ==
  LET v == Image(Owner(id))[First(id, Owner(id))]
  IN  [pid |-> Owner(id), start |-> v.start, end |-> v.end, size |-> Max({Needs(u) : u \in Users(id)}),
       pages |-> {}, lock |-> 0]

-----------------------------------------------------------------------------
(* Premapping *)

Goes(t, to) == pc' = [pc EXCEPT ![t] = to]
Chunk(v) == Size(v) + IF v.kind = "stack" THEN 1 ELSE 0
\* The premapped areas end at these pages, counted from the first.
Ends(vmas) ==
  LET end[i \in 0..Len(vmas)] ==
        IF i = 0 THEN 0 ELSE end[i - 1] + IF vma_priv(vmas[i]) THEN Chunk(vmas[i]) ELSE 0
  IN  end

\* The area of the parent at the same place, of the same kind and file, is the
\* one to inherit pages from; its address is looked for in the area that was
\* read just now, which has none yet.
SameArea(v, w) == /\ vma_priv(w) /\ w.start = v.start /\ w.end = v.end
                  /\ (w.kind = "stack") = (v.kind = "stack") /\ (w.kind = "file") = (v.kind = "file")
                  /\ v.kind = "file" => w.id = v.id
premmaped_addr == 0
paddr(t, i) ==
  IF t # Root /\ \E j \in DOMAIN Image(Root) : SameArea(Image(t)[i], Image(Root)[j]) THEN premmaped_addr ELSE 0

\* map_private_vma() and restore_priv_vma_content(): a page that was inherited
\* and has the right content is left alone.
Restored(t, i, p, m) ==
  LET v == Image(t)[i]
      inherited == paddr(t, i) + p - v.start
  IN  IF paddr(t, i) # 0 /\ m[inherited][2] = Content(t, v, p) THEN m[inherited] ELSE Private(Content(t, v, p), t)
prepare_mappings(t) ==
  /\ pc[t] = "prepare" /\ Goes(t, IF t = Root THEN "fork" ELSE "guards")
  /\ LET priv_size == Ends(Image(t))[Len(Image(t))]
     IN  \E base \in {b \in Pages : IsFree(mem[t], b, priv_size)} :
           LET addr == [i \in Privates(t) |-> base + Ends(Image(t))[i] - Size(Image(t)[i])]
               area(p) == {i \in Privates(t) : p - addr[i] \in 0..(Size(Image(t)[i]) - 1)}
           IN  /\ pre' = [pre EXCEPT ![t] = [base |-> base, len |-> priv_size, addr |-> addr]]
               /\ mem' = [mem EXCEPT ![t] = [p \in Pages |->
                            IF p \notin base..(base + priv_size - 1) THEN @[p]
                            ELSE IF area(p) = {} THEN Guard
                            ELSE LET i == CHOOSE i \in area(p) : TRUE
                                 IN  Restored(t, i, Image(t)[i].start + p - addr[i], @)]]
  /\ UNCHANGED <<tree, img, at, boot, shm>>

\* Children start with what their parent has mapped so far.
create_children ==
  /\ pc[Root] = "fork"
  /\ pc' = [t \in Tasks |-> IF t = Root THEN "guards" ELSE "prepare"]
  /\ mem' = [t \in Tasks |-> mem[Root]]
  /\ UNCHANGED <<tree, img, at, pre, boot, shm>>
NextOf(S, k) == Min({i \in S : i > k} \cup {TaskSize + 1})
PrevOf(S, k) == Max({i \in S : i < k} \cup {0})
unmap_guard_pages(t) ==
  /\ pc[t] = "guards" /\ Goes(t, "open")
  /\ at' = [at EXCEPT ![t] = NextOf(Shareds(t), 0)]
  /\ mem' = [mem EXCEPT ![t] = [p \in Pages |->
       IF \E i \in Privates(t) : Image(t)[i].kind = "stack" /\ p = pre[t].addr[i] - 1 THEN Free ELSE @[p]]]
  /\ UNCHANGED <<tree, img, pre, boot, shm>>

-----------------------------------------------------------------------------
(* Shared memory *)

AllForked == \A t \in Tasks : pc[t] \notin {"unborn", "prepare", "fork", "guards"}
Opened(t) == at' = [at EXCEPT ![t] = NextOf(Shareds(t), at[t])]
\* The owner makes the segment, with its content, when it needs it first.
restore_shmem_content(id) == {k \in dump_one_shmem(id) : k < shm[id].size}
get_shmem_fd(t) ==
  /\ pc[t] = "open" /\ AllForked /\ at[t] \in Shareds(t)
  /\ LET id == Image(t)[at[t]].id
     IN  shm[id].pid = t /\ shm' = [shm EXCEPT ![id].pages = restore_shmem_content(id)]
  /\ Opened(t) /\ UNCHANGED <<tree, img, pc, mem, pre, boot>>
shmem_wait_and_open(t) ==
  /\ pc[t] = "open" /\ AllForked /\ at[t] \in Shareds(t)
  /\ LET si == shm[Image(t)[at[t]].id]
     IN  /\ si.pid # t /\ si.lock = 1
         /\ IF \A p \in si.start..(si.end - 1) : mem[si.pid][p][1] = "shm"
              THEN Opened(t) /\ UNCHANGED pc ELSE Goes(t, "failed") /\ UNCHANGED at
  /\ UNCHANGED <<tree, img, mem, pre, boot, shm>>

-----------------------------------------------------------------------------
(* The restorer *)

\* Where the restorer fits between the areas there are and those to come.  The
\* loop goes through both lists in order; both end with the vsyscall page, which
\* is skipped for being the last, and then comes end_vma.
Vsyscall == [start |-> TaskSize + 2, end |-> TaskSize + 3]
end_vma == [start |-> TaskSize + 1, end |-> TaskSize + 1]
Area(list, k) == IF k \in DOMAIN list THEN list[k] ELSE IF k = TaskSize + 1 THEN Vsyscall ELSE end_vma
NextArea(list, k) == IF k > TaskSize THEN k + 1 ELSE NextOf(DOMAIN list, k)
Past(prev, list, k) == IF k \in DOMAIN list THEN Max({prev, list[k].end}) ELSE prev
MinAddr == 1
\* One round of the loop, which ends when prev fits or a list is over.
Cursors == [prev : 1..(TaskSize + 1), s : 1..(TaskSize + 2), u : 1..(TaskSize + 2)]
Blocked(prev, list, k) == prev + BootLen > Area(list, k).start
Round(tgt, self) ==
  [c \in Cursors |->
     IF Blocked(c.prev, self, c.s)
       THEN IF c.s > TaskSize + 1 THEN c
            ELSE [prev |-> Past(c.prev, self, c.s), s |-> NextArea(self, c.s), u |-> c.u]
     ELSE IF Blocked(c.prev, tgt, c.u) /\ c.u <= TaskSize + 1
       THEN [prev |-> Past(c.prev, tgt, c.u), s |-> c.s, u |-> NextArea(tgt, c.u)]
     ELSE c]
Rounds == 2 * TaskSize + 4
Search(tgt, self) ==
  LET cursor[k \in 0..Rounds] ==
        IF k = 0 THEN [prev |-> MinAddr, s |-> NextArea(self, 0), u |-> NextArea(tgt, 0)]
        ELSE Round(tgt, self)[cursor[k - 1]]
  IN  cursor[Rounds]
\* Mutant: the areas that will be restored are not looked at.
restorer_get_vma_hint_self(tgt, self) ==
  LET c == Search(<< >>, self)
  IN  IF Blocked(c.prev, self, c.s) THEN 0 ELSE c.prev
restorer_get_vma_hint(tgt, self) ==
  LET c == Search(tgt, self)
  IN  IF Blocked(c.prev, self, c.s) \/ Blocked(c.prev, tgt, c.u) THEN 0 ELSE c.prev

BootPages(t) == boot[t]..(boot[t] + BootLen - 1)
InUse(m) == {p \in Pages : m[p] # Free}
self_vmas(m) == [p \in InUse(m) |-> [start |-> p, end |-> p + 1]]
\* The blob and its arguments are mapped at the hint, which fails beyond TaskSize.
sigreturn_restore(t) ==
  /\ pc[t] = "open" /\ AllForked /\ at[t] \notin Shareds(t)
  /\ \E hint \in {restorer_get_vma_hint(Image(t), self_vmas(mem[t]))} :
       IF hint = 0 \/ hint + BootLen > TaskSize + 1 THEN Goes(t, "failed") /\ UNCHANGED <<boot, mem>>
       ELSE /\ boot' = [boot EXCEPT ![t] = hint]
            /\ mem' = [mem EXCEPT ![t] = [p \in Pages |-> IF p \in hint..(hint + BootLen - 1) THEN Boot ELSE @[p]]]
            /\ Goes(t, "restorer")
  /\ UNCHANGED <<tree, img, at, pre, shm>>

unmap_old_vmas(t) ==
  /\ pc[t] = "restorer" /\ Goes(t, "left")
  /\ at' = [at EXCEPT ![t] = NextOf(Privates(t), 0)]
  /\ mem' = [mem EXCEPT ![t] = [p \in Pages |->
       IF p \in BootPages(t) \/ p \in pre[t].base..(pre[t].base + pre[t].len - 1) THEN @[p] ELSE Free]]
  /\ UNCHANGED <<tree, img, pre, boot, shm>>

\* mremap() does not move an area to where it overlaps itself: it goes to some
\* other place first, one that is kept away from the target by a guard page.
Overlap(src, v) == src # v.start /\ src < v.end /\ v.start < src + Size(v)
GuardPage(src, v) == IF v.start < src THEN v.start ELSE v.end - 1
Moved(m, src, v) ==
  [p \in Pages |-> IF p \in Span(v) THEN m[src + p - v.start]
                   ELSE IF p \in src..(src + Size(v) - 1) THEN Free ELSE m[p]]
vma_remap(t, next) ==
  LET v == Image(t)[at[t]]
      src == pre[t].addr[at[t]]
  IN  IF Overlap(src, v) /\ mem[t][GuardPage(src, v)] # Free
        THEN Goes(t, "failed") /\ UNCHANGED <<mem, at>>
        ELSE mem' = [mem EXCEPT ![t] = Moved(@, src, v)] /\ at' = [at EXCEPT ![t] = next] /\ UNCHANGED pc

GoesLeft_all(t) == TRUE
GoesLeft(t) == Image(t)[at[t]].start <= pre[t].addr[at[t]]
GoesRight(t) == Image(t)[at[t]].start >= pre[t].addr[at[t]]
ShiftLeft(t) ==
  /\ pc[t] = "left" /\ at[t] \in Privates(t) /\ GoesLeft(t)
  /\ vma_remap(t, NextOf(Privates(t), at[t]))
  /\ UNCHANGED <<tree, img, pre, boot, shm>>
EndLeft(t) ==
  /\ pc[t] = "left" /\ (at[t] \in Privates(t) => ~ GoesLeft(t))
  /\ Goes(t, "right") /\ at' = [at EXCEPT ![t] = PrevOf(Privates(t), TaskSize + 1)]
  /\ UNCHANGED <<tree, img, mem, pre, boot, shm>>
ShiftRight(t) ==
  /\ pc[t] = "right" /\ at[t] \in Privates(t) /\ GoesRight(t)
  /\ vma_remap(t, PrevOf(Privates(t), at[t]))
  /\ UNCHANGED <<tree, img, pre, boot, shm>>
EndRight(t) ==
  /\ pc[t] = "right" /\ (at[t] \in Privates(t) => ~ GoesRight(t)) /\ Goes(t, "map")
  /\ UNCHANGED <<tree, img, at, mem, pre, boot, shm>>

\* The shared areas, and then the others may open them.
restore_mapping(t, p) ==
  LET v == Image(t)[CHOOSE i \in Shareds(t) : p \in Span(Image(t)[i])]
      off == v.off + p - v.start
  IN  IF off \in shm[v.id].pages THEN Shared(v.id, off) ELSE Free
restore_mappings(t) ==
  /\ pc[t] = "map" /\ Goes(t, "mapped")
  /\ mem' = [mem EXCEPT ![t] = [p \in Pages |->
       IF \E i \in Shareds(t) : p \in Span(Image(t)[i]) THEN restore_mapping(t, p) ELSE @[p]]]
  /\ shm' = [id \in DOMAIN shm |->
       IF shm[id].pid = t /\ \E i \in Shareds(t) : Image(t)[i].id = id /\ Image(t)[i].start = shm[id].start
         THEN [shm[id] EXCEPT !.lock = 1] ELSE shm[id]]
  /\ UNCHANGED <<tree, img, at, pre, boot>>

\* Nobody goes on before all are restored; the restorer goes last.
Resume(t) ==
  /\ pc[t] = "mapped" /\ \A u \in Tasks : pc[u] \in {"mapped", "done"}
  /\ Goes(t, "done")
  /\ mem' = [mem EXCEPT ![t] = [p \in Pages |-> IF p \in BootPages(t) THEN Free ELSE @[p]]]
  /\ UNCHANGED <<tree, img, at, pre, boot, shm>>

-----------------------------------------------------------------------------
Init ==
  /\ tree \in Trees /\ img = [t \in Tasks |-> parse_smaps(tree.vmas[t])]
  /\ pc = [t \in Tasks |-> IF t = Root THEN "prepare" ELSE "unborn"]
  /\ at = [t \in Tasks |-> 0] /\ boot = [t \in Tasks |-> 0]
  /\ mem = [t \in Tasks |-> [p \in Pages |-> IF p \in SelfPages THEN Self ELSE Free]]
  /\ pre = [t \in Tasks |-> [base |-> 0, len |-> 0, addr |-> << >>]]
  /\ shm = [id \in Shmids |-> collect_shmem(id)]

Step(t) ==
  \/ prepare_mappings(t) \/ (t = Root /\ create_children) \/ unmap_guard_pages(t)
  \/ get_shmem_fd(t) \/ shmem_wait_and_open(t)
  \/ sigreturn_restore(t) \/ unmap_old_vmas(t)
  \/ ShiftLeft(t) \/ EndLeft(t) \/ ShiftRight(t) \/ EndRight(t)
  \/ restore_mappings(t) \/ Resume(t)
Next == \E t \in Tasks : Step(t)

FairSpec == Init /\ [][Next]_vars /\ WF_vars(Next)

-----------------------------------------------------------------------------
(* Properties *)

\* Tasks resume with the areas they had, at their places and with their
\* content, the segments as long as anybody knew them, and nothing else.
Dumped(t, p) ==
  IF \E i \in DOMAIN tree.vmas[t] : p \in Span(tree.vmas[t][i])
    THEN LET v == tree.vmas[t][CHOOSE i \in DOMAIN tree.vmas[t] : p \in Span(tree.vmas[t][i])]
         IN  IF vma_priv(v) THEN <<"page", Content(t, v, p)>> ELSE <<"shm", v.id, v.off + p - v.start>>
    ELSE Free
AsDumped ==
  \A t \in Tasks : pc[t] = "done" =>
    \A p \in Pages : \/ Dumped(t, p) = mem[t][p]
                     \/ mem[t][p][1] = "page" /\ Dumped(t, p) = SubSeq(mem[t][p], 1, 2)

\* A task that runs in the restorer never loses it, whatever it moves.
RestorerIntact ==
  \A t \in Tasks : pc[t] \in {"restorer", "left", "right", "map", "mapped"} =>
    \A p \in BootPages(t) : p \in Pages /\ mem[t][p] = Boot

\* Nobody waits for a segment for ever, and no move or lookup fails.
AllRestored == <>(\A t \in Tasks : pc[t] = "done")

=============================================================================
