----------------------------- MODULE DiskFiles -----------------------------
(***************************************************************************)
(* Open files, shared file mappings, watches and file locks across a dump  *)
(* and a restore (files-reg.c, fsnotify.c, file-lock.c).  A file whose     *)
(* name is gone is carried in the images as a ghost, or gets a temporary   *)
(* link; the restored tasks open it under its old name, one at a time, and *)
(* the last one removes what was made for it.                              *)
(*                                                                         *)
(* The tasks open, link, unlink, map, watch, share, lock and close files   *)
(* of one directory, then they are frozen, dumped and restored.            *)
(***************************************************************************)
EXTENDS Integers, Sequences, FiniteSets, FiniteSetsExt, SequencesExt, TLC

CONSTANTS
  Tasks,     \* pids
  Names,     \* names in the directory
  Options,   \* sets of command line options to dump with
  MaxFiles,  \* struct files the tasks open
  MaxOps     \* what the tasks do

ASSUME DiskFilesAssumption ==
  /\ Tasks \subseteq Nat \ {0} /\ Tasks # {}
  /\ Options \subseteq SUBSET {"link-remap", "file-locks"}
  /\ MaxFiles \in Nat /\ MaxOps \in Nat

VARIABLES
  dir,    \* the directory: inodes by name
  live,   \* what the tasks have open
  ops,    \* what they did
  phase,  \* "live", "resumed", "refused", "killed", "restore", "done", "failed"
  before, \* the directory at the dump
  image,  \* REG_FILES with REMAP_FPATH, GHOST_FILE and FILE_LOCKS
  users,  \* remap->users of the ghosts
  mutex,  \* ghost_file_mutex: [task, item] that holds it, or Free
  rst     \* the tasks that are restored

vars == <<dir, live, ops, phase, before, image, users, mutex, rst>>
dumpVars == <<before, image, users, mutex, rst>>

-----------------------------------------------------------------------------
(* The kernel.  Inodes are numbers.  A struct file keeps the name it was   *)
(* opened by; "del" says that this name was unlinked since, and /proc shows *)
(* the path with " (deleted)" then.                                         *)

Name(n) == <<"name", n>>
Deleted(n) == <<"name (deleted)", n>>
GhostName(g) == <<"ghost", g>>
LinkRemap(i) == <<"link_remap", i>>
PathOf(f) == IF f.del THEN Deleted(f.name) ELSE Name(f.name)

Without(f, S) == [x \in DOMAIN f \ S |-> f[x]]
nlink(d, i) == Cardinality({n \in DOMAIN d : d[n] = i})
Inodes == {0} \cup {live.files[k].ino : k \in DOMAIN live.files} \cup {dir[n] : n \in DOMAIN dir}

\* The locks of files: of a struct file (flock) and of a task (posix).
Compatible(a, b) == a = "SH" /\ b = "SH"
FlockFree(l, k, ty) ==
  \A x \in l.flocks : x.key # k /\ l.files[x.key].ino = l.files[k].ino => Compatible(x.type, ty)
PosixFree(l, t, i, ty) == \A x \in l.posix : x.task # t /\ x.ino = i => Compatible(x.type, ty)

-----------------------------------------------------------------------------
(* What the tasks do *)

Live == phase = "live" /\ ops < MaxOps /\ ops' = ops + 1 /\ UNCHANGED <<phase, dumpVars>>
Has(t, k) == <<t, k>> \in live.fds

Open(t, n) ==
  /\ Live /\ t \in live.alive /\ Len(live.files) < MaxFiles
  /\ LET i == IF Name(n) \in DOMAIN dir THEN dir[Name(n)] ELSE Max(Inodes) + 1
     IN  /\ dir' = (Name(n) :> i) @@ dir
         /\ live' = [live EXCEPT !.files = Append(@, [ino |-> i, name |-> n, del |-> FALSE]),
                                 !.fds = @ \cup {<<t, Len(live.files) + 1>>}]

Unlink(n) ==
  /\ Live /\ Name(n) \in DOMAIN dir
  /\ dir' = Without(dir, {Name(n)})
  /\ live' = [live EXCEPT !.files = [k \in DOMAIN @ |-> IF @[k].name = n THEN [@[k] EXCEPT !.del = TRUE] ELSE @[k]]]

Link(n, m) ==
  /\ Live /\ Name(n) \in DOMAIN dir /\ Name(m) \notin DOMAIN dir
  /\ dir' = (Name(m) :> dir[Name(n)]) @@ dir /\ UNCHANGED live

\* A descriptor is inherited or sent to another task.
Share(t, u, k) ==
  /\ Live /\ Has(t, k) /\ u \in live.alive /\ ~ Has(u, k)
  /\ live' = [live EXCEPT !.fds = @ \cup {<<u, k>>}] /\ UNCHANGED dir

\* Closing any descriptor of a file drops the posix locks of the task on it.
Drop(l, t, ks) ==
  LET fds == l.fds \ {<<t, k>> : k \in ks}
      kept == {x[2] : x \in fds} \cup {x[2] : x \in l.maps}
  IN  [l EXCEPT !.fds = fds,
                !.flocks = {x \in @ : x.key \in kept},
                !.posix = {x \in @ : x.task # t \/ x.ino \notin {l.files[k].ino : k \in ks}}]
Close(t, k) == Live /\ Has(t, k) /\ live' = Drop(live, t, {k}) /\ UNCHANGED dir
Exit(t) ==
  /\ Live /\ t \in live.alive /\ Cardinality(live.alive) > 1
  /\ LET l == [live EXCEPT !.maps = {x \in @ : x[1] # t}, !.watches = {x \in @ : x.task # t}]
     IN  live' = [Drop(l, t, {k \in DOMAIN live.files : Has(t, k)}) EXCEPT !.alive = @ \ {t}]
  /\ UNCHANGED dir

Mmap(t, k) == Live /\ Has(t, k) /\ live' = [live EXCEPT !.maps = @ \cup {<<t, k>>}] /\ UNCHANGED dir
Watch(t, k) ==
  Live /\ Has(t, k) /\ live' = [live EXCEPT !.watches = @ \cup {[task |-> t, ino |-> live.files[k].ino]}] /\ UNCHANGED dir

Flock(t, k, ty) ==
  /\ Live /\ Has(t, k) /\ FlockFree(live, k, ty)
  /\ live' = [live EXCEPT !.flocks = {x \in @ : x.key # k} \cup {[key |-> k, type |-> ty, owner |-> t]}]
  /\ UNCHANGED dir
Posix(t, k, ty) ==
  LET i == live.files[k].ino
  IN  /\ Live /\ Has(t, k) /\ PosixFree(live, t, i, ty)
      /\ live' = [live EXCEPT !.posix = {x \in @ : x.task # t \/ x.ino # i} \cup {[task |-> t, ino |-> i, type |-> ty]}]
      /\ UNCHANGED dir

-----------------------------------------------------------------------------
(* The dump *)

\* What gets an entry in REG_FILES: a struct file in a descriptor, once
\* (task 0), and every mapping of a file, with an id of its own.
Items == {[task |-> 0, key |-> x[2]] : x \in live.fds} \cup {[task |-> x[1], key |-> x[2]] : x \in live.maps}

NoRemap == [kind |-> "none", id |-> 0]
Remap(k, i) == [kind |-> k, id |-> i]
Entry(s, i, f, r) == [s EXCEPT !.files = @ @@ (i :> [path |-> PathOf(f), remap |-> r])]

dump_ghost_file(s, f) == [s EXCEPT !.ghosts = Append(@, f.ino)]
\* One ghost for all the entries of an inode.
dump_ghost_remap_again(s, i, f) == Entry(dump_ghost_file(s, f), i, f, Remap("ghost", Len(s.ghosts) + 1))
dump_ghost_remap(s, i, f) ==
  IF f.ino \in Range(s.ghosts) THEN Entry(s, i, f, Remap("ghost", SelectInSeq(s.ghosts, LAMBDA x : x = f.ino)))
  ELSE Entry(dump_ghost_file(s, f), i, f, Remap("ghost", Len(s.ghosts) + 1))

create_link_remap(s, f, id) ==
  [s EXCEPT !.dir = @ @@ (LinkRemap(id) :> f.ino), !.links = @ \cup {LinkRemap(id)}]
dump_linked_remap(s, i, f, opts) ==
  LET id == Cardinality(s.links) + 1
  IN  IF "link-remap" \notin opts THEN [s EXCEPT !.ok = FALSE]
      ELSE Entry(create_link_remap(s, f, id), i, f, Remap("link", id))

dump_one_reg_file(s, i, f, opts) ==
  IF ~ s.ok THEN s
  ELSE IF nlink(s.dir, f.ino) = 0 THEN dump_ghost_remap(s, i, f)
  ELSE IF PathOf(f) \notin DOMAIN s.dir THEN dump_linked_remap(s, i, f, opts)
  ELSE IF s.dir[PathOf(f)] # f.ino THEN [s EXCEPT !.ok = FALSE]
  ELSE Entry(s, i, f, NoRemap)

\* The first n files, when the dump fails after them.
DumpFiles(n, opts) ==
  FoldLeft(LAMBDA s, i : dump_one_reg_file(s, i, live.files[i.key], opts),
           [ok |-> TRUE, dir |-> dir, links |-> {}, files |-> << >>, ghosts |-> << >>],
           SubSeq(SetToSeq(Items), 1, n))

\* /proc/locks names the inode and who took the lock.  Locks of others are
\* skipped; the descriptor is the first one of the owner on the inode.
parse_file_locks ==
  {[style |-> "FLOCK", owner |-> x.owner, ino |-> live.files[x.key].ino, type |-> x.type] :
     x \in {x \in live.flocks : x.owner \in live.alive}}
  \cup {[style |-> "POSIX", owner |-> x.task, ino |-> x.ino, type |-> x.type] : x \in live.posix}
Fds(l) == {k \in DOMAIN live.files : Has(l.owner, k) /\ live.files[k].ino = l.ino}
get_fd_by_ino(l) == Min(Fds(l))
dump_task_file_locks(ls) ==
  {[style |-> l.style, task |-> l.owner, key |-> get_fd_by_ino(l), type |-> l.type] : l \in ls}
LocksDumpable(opts) ==
  IF "file-locks" \in opts THEN \A l \in parse_file_locks : Fds(l) # {} ELSE parse_file_locks = {}

\* The watches, by the inode they are on.
dump_one_inotify == live.watches

delete_link_remaps_none(s) == s.dir
delete_link_remaps(s) == Without(s.dir, s.links)

\* The dump of the files of frozen tasks: it fails after some of them, or
\* because of a file or a lock, or it succeeds and kills or resumes the tasks.
Dump(opts, n, final) ==
  LET s == DumpFiles(n, opts)
      ok == s.ok /\ n = Cardinality(Items) /\ LocksDumpable(opts)
  IN  /\ phase = "live" /\ before' = dir
      /\ IF ok /\ final = "dead"
           THEN /\ phase' = "killed" /\ dir' = s.dir
                /\ image' = [files |-> s.files, ghosts |-> s.ghosts, watches |-> dump_one_inotify,
                              locks |-> dump_task_file_locks(parse_file_locks)]
           ELSE /\ phase' = IF ok THEN "resumed" ELSE "refused"
                /\ dir' = delete_link_remaps(s) /\ UNCHANGED image
      /\ UNCHANGED <<live, ops, users, mutex, rst>>

-----------------------------------------------------------------------------
(* The restore *)

Free == [task |-> 0, key |-> 0]
RemapPath(r) == IF r.kind = "ghost" THEN GhostName(r.id) ELSE LinkRemap(r.id)

\* collect_one_remap() and collect_inotify_mark(), in the task that is forked
\* first: the ghosts are created and their users counted.  The inode of ghost
\* g is -g.
lookup_ghost_remap(i) == SelectInSeq(image.ghosts, LAMBDA x : x = i)
GhostWatches(g) == {w \in image.watches : w.ino = image.ghosts[g]}
Collect ==
  /\ phase = "killed" /\ phase' = "restore"
  /\ dir' = dir @@ [n \in {GhostName(g) : g \in DOMAIN image.ghosts} |-> - n[2]]
  /\ users' = [g \in DOMAIN image.ghosts |->
                 Cardinality({i \in DOMAIN image.files : image.files[i].remap = Remap("ghost", g)})
                 + Cardinality(GhostWatches(g))]
  /\ rst' = [pc |-> [t \in live.alive |-> "fds"], opened |-> << >>, watches |-> {}, flocks |-> {}, posix |-> {}]
  /\ UNCHANGED <<live, ops, before, image, mutex>>

Restoring(t, pc) == phase = "restore" /\ t \in live.alive /\ rst.pc[t] = pc
Fail == phase' = "failed" /\ UNCHANGED <<dir, live, ops, before, image, users, mutex, rst>>
Keep == UNCHANGED <<live, ops, before, image>>

\* The files a task opens itself: those it is the master of, then its mappings.
Master(k) == Min({t \in Tasks : Has(t, k)})
Mine(t) == IF rst.pc[t] = "fds" THEN {i \in DOMAIN image.files : i.task = 0 /\ Master(i.key) = t}
           ELSE IF rst.pc[t] = "vmas" THEN {i \in DOMAIN image.files : i.task = t}
           ELSE {}
ToOpen(t, i) == phase = "restore" /\ t \in live.alive /\ i \in Mine(t) \ DOMAIN rst.opened
Opened(i, n) == rst' = [rst EXCEPT !.opened = @ @@ (i :> dir[n])]

\* open_path() without a remap.
OpenVisible(t, i) ==
  /\ ToOpen(t, i) /\ image.files[i].remap = NoRemap
  /\ LET n == image.files[i].path
     IN  IF n \in DOMAIN dir THEN Opened(i, n) /\ UNCHANGED <<dir, phase, users, mutex>> /\ Keep ELSE Fail

\* open_path() with one: lock, link to the old path; open; unlink, put, unlock.
MutexIsFree == mutex = Free
LinkBack(t, i) ==
  LET e == image.files[i]
  IN  /\ ToOpen(t, i) /\ e.remap # NoRemap /\ MutexIsFree
      /\ IF RemapPath(e.remap) \in DOMAIN dir /\ e.path \notin DOMAIN dir
           THEN /\ dir' = dir @@ (e.path :> dir[RemapPath(e.remap)])
                /\ mutex' = i /\ UNCHANGED <<phase, users, rst>> /\ Keep
           ELSE Fail
OpenLinked ==
  /\ phase = "restore" /\ mutex # Free /\ mutex \notin DOMAIN rst.opened
  /\ Opened(mutex, image.files[mutex].path)
  /\ UNCHANGED <<dir, phase, users, mutex>> /\ Keep

\* The users of a link remap are counted in the memory of the task: it has one.
remap_put(d, r) ==
  IF r.kind = "link" THEN <<Without(d, {RemapPath(r)}), users>>
  ELSE <<IF users[r.id] = 1 THEN Without(d, {RemapPath(r)}) ELSE d, [users EXCEPT ![r.id] = @ - 1]>>
Unlinked ==
  /\ phase = "restore" /\ mutex # Free /\ mutex \in DOMAIN rst.opened
  /\ LET p == remap_put(Without(dir, {image.files[mutex].path}), image.files[mutex].remap)
     IN  dir' = p[1] /\ users' = p[2]
  /\ mutex' = Free /\ UNCHANGED <<phase, rst>> /\ Keep

\* restore_one_inotify(): by the path of the ghost, or by the handle of the inode.
restore_one_inotify(t, w) ==
  LET g == lookup_ghost_remap(w.ino)
      p == remap_put(dir, Remap("ghost", g))
  IN  /\ Restoring(t, "fds") /\ w \in image.watches \ rst.watches /\ w.task = t
      /\ IF g = 0 THEN UNCHANGED <<dir, users, phase>> /\ rst' = [rst EXCEPT !.watches = @ \cup {w}]
                       /\ UNCHANGED mutex /\ Keep
         ELSE /\ MutexIsFree
              /\ IF GhostName(g) \in DOMAIN dir
                   THEN /\ rst' = [rst EXCEPT !.watches = @ \cup {w}]
                        /\ dir' = p[1] /\ users' = p[2] /\ UNCHANGED <<phase, mutex>> /\ Keep
                   ELSE Fail

\* prepare_fds() ends when everything of the task is opened, here or by its master.
prepare_fds(t) ==
  /\ Restoring(t, "fds")
  /\ \A k \in DOMAIN live.files : Has(t, k) => [task |-> 0, key |-> k] \in DOMAIN rst.opened
  /\ mutex = Free \/ mutex \notin Mine(t)
  /\ \A w \in image.watches : w.task = t => w \in rst.watches
  /\ rst' = [rst EXCEPT !.pc[t] = "locks"] /\ UNCHANGED <<dir, phase, users, mutex>> /\ Keep

\* restore_file_lock() waits for whoever holds a lock that conflicts.
Ino(k) == rst.opened[[task |-> 0, key |-> k]]
LockType_exclusive(l) == "EX"
LockType(l) == l.type
restore_file_lock(t, l) ==
  /\ Restoring(t, "locks") /\ l \in image.locks /\ l.task = t
  /\ IF l.style = "FLOCK"
       THEN /\ \A x \in rst.flocks : x.key # l.key /\ Ino(x.key) = Ino(l.key) => Compatible(x.type, LockType(l))
            /\ [key |-> l.key, type |-> LockType(l)] \notin rst.flocks
            /\ rst' = [rst EXCEPT !.flocks = {x \in @ : x.key # l.key} \cup {[key |-> l.key, type |-> LockType(l)]}]
       ELSE /\ PosixFree(rst, t, Ino(l.key), LockType(l))
            /\ [task |-> t, ino |-> Ino(l.key), type |-> LockType(l)] \notin rst.posix
            /\ rst' = [rst EXCEPT !.posix = @ \cup {[task |-> t, ino |-> Ino(l.key), type |-> LockType(l)]}]
  /\ UNCHANGED <<dir, phase, users, mutex>> /\ Keep
LockSet(t, l) ==
  IF l.style = "FLOCK" THEN \E x \in rst.flocks : x.key = l.key
  ELSE [task |-> t, ino |-> Ino(l.key), type |-> LockType(l)] \in rst.posix
prepare_file_locks(t) ==
  /\ Restoring(t, "locks") /\ \A l \in image.locks : l.task = t => LockSet(t, l)
  /\ rst' = [rst EXCEPT !.pc[t] = "vmas"] /\ UNCHANGED <<dir, phase, users, mutex>> /\ Keep

\* open_vmas() has opened the mapped files; the restorer maps and closes them.
restore_mapping(t) ==
  /\ Restoring(t, "vmas") /\ Mine(t) \subseteq DOMAIN rst.opened /\ (mutex = Free \/ mutex \notin Mine(t))
  /\ rst' = [rst EXCEPT !.pc[t] = "done",
                        !.posix = {x \in @ : x.task # t \/ x.ino \notin {rst.opened[i] : i \in Mine(t)}}]
  /\ phase' = IF \A u \in live.alive : rst'.pc[u] = "done" THEN "done" ELSE phase
  /\ UNCHANGED <<dir, users, mutex>> /\ Keep

-----------------------------------------------------------------------------
Init ==
  /\ dir = << >> /\ ops = 0 /\ phase = "live" /\ before = << >>
  /\ live = [files |-> << >>, fds |-> {}, maps |-> {}, watches |-> {}, flocks |-> {}, posix |-> {}, alive |-> Tasks]
  /\ image = [files |-> << >>, ghosts |-> << >>, watches |-> {}, locks |-> {}]
  /\ users = << >> /\ mutex = Free
  /\ rst = [pc |-> << >>, opened |-> << >>, watches |-> {}, flocks |-> {}, posix |-> {}]

Over == phase \in {"resumed", "refused", "done", "failed"} /\ UNCHANGED vars

Types == {"SH", "EX"}
FileOp(t, k) ==
  \/ Close(t, k) \/ Mmap(t, k) \/ Watch(t, k)
  \/ \E u \in Tasks : Share(t, u, k)
  \/ \E ty \in Types : Flock(t, k, ty) \/ Posix(t, k, ty)
Next ==
  \/ \E t \in Tasks, n \in Names : Open(t, n)
  \/ \E n, m \in Names : Unlink(n) \/ Link(n, m)
  \/ \E t \in Tasks : Exit(t) \/ \E k \in DOMAIN live.files : FileOp(t, k)
  \/ \E o \in Options, n \in 0..Cardinality(Items), f \in {"dead", "alive"} : Dump(o, n, f)
  \/ Collect
  \/ \E t \in Tasks : \E i \in DOMAIN image.files : OpenVisible(t, i) \/ LinkBack(t, i)
  \/ OpenLinked \/ Unlinked
  \/ \E t \in Tasks : \E w \in image.watches : restore_one_inotify(t, w)
  \/ \E t \in Tasks : prepare_fds(t) \/ prepare_file_locks(t) \/ restore_mapping(t)
  \/ \E t \in Tasks : \E l \in image.locks : restore_file_lock(t, l)
  \/ Over

Spec == Init /\ [][Next]_vars

-----------------------------------------------------------------------------
(* Properties *)

\* The files an inode of the restore stands for: a ghost has the contents of
\* the file it replaces.
Contents(i) == IF i < 0 THEN image.ghosts[- i] ELSE i
OldIno(i) == live.files[i.key].ino

\* What the dump accepts is restored: every descriptor and mapping has its
\* file again, those that had the same file still do, and watches are back.
FilesRestored ==
  /\ phase # "failed"
  /\ phase = "done" =>
       /\ DOMAIN rst.opened = Items
       /\ \A i \in Items : Contents(rst.opened[i]) = OldIno(i)
       /\ \A i, j \in Items : OldIno(i) = OldIno(j) => rst.opened[i] = rst.opened[j]
       /\ rst.watches = live.watches

\* "modifies FS till restore": when the tasks run again, restored or after a
\* dump that failed, the directory is what it was.
DirectoryAsBefore == phase \in {"done", "resumed", "refused"} => dir = before

\* Locks that come out on another descriptor or not at all: a lock whose owner
\* has the file open twice, has closed it or has exited.
Ambiguous(x) ==
  x.owner \notin live.alive
  \/ {k \in DOMAIN live.files : Has(x.owner, k) /\ live.files[k].ino = live.files[x.key].ino} # {x.key}
Mapped(x) == \E m \in live.maps : m[1] = x.task /\ live.files[m[2]].ino = x.ino
HeldPosix(x) == \E y \in rst.posix : y.task = x.task /\ Contents(y.ino) = x.ino /\ y.type = x.type

\* "Allow to dump and restore file locks": the restored tasks hold them.
FlocksKept ==
  \A x \in live.flocks : ~ Ambiguous(x) => [key |-> x.key, type |-> x.type] \in rst.flocks
LocksKept == phase = "done" => FlocksKept /\ \A x \in live.posix : ~ Mapped(x) => HeldPosix(x)
=============================================================================
