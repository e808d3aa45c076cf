------------------------------- MODULE Mounts -------------------------------
(***************************************************************************)
(* The mount namespace.  The mounts of the tasks are read from mountinfo,  *)
(* checked and written to the image; at restore they are put into a tree   *)
(* and mounted in a walk that postpones what cannot be mounted yet, while  *)
(* the kernel propagates every mount to the peers and slaves of its parent *)
(* (mount.c).                                                              *)
(*                                                                         *)
(* The tasks mount, bind and change propagation types, then what they made *)
(* is dumped and restored.                                                 *)
(***************************************************************************)
EXTENDS Integers, Sequences, FiniteSets, FiniteSetsExt, SequencesExt

CONSTANTS
  Starts,     \* the namespaces to start from
  Paths,      \* the directories something is mounted on: sequences of names
  SubRoots,   \* the directories of a file system that are bind mounted
  MaxMounts,  \* mounts of the namespace, without the root
  MaxOps      \* what the tasks do

ASSUME MountsAssumption ==
  /\ \A p \in Paths : Len(p) > 0
  /\ << >> \in SubRoots
  /\ MaxMounts \in Nat /\ MaxOps \in Nat

VARIABLES
  live,   \* the namespace of the tasks
  ops,    \* what they did to it
  phase,  \* "live", "refused" by the dump, "restore", "done", "failed"
  image,  \* the MNTS image, in its order
  ns,     \* the namespace that is restored
  mounted, bind,  \* mi->mounted and mi->bind (0: none) of the mounts of the image
  todo, postponed, progress  \* the walk of mnt_tree_for_each()

vars == <<live, ops, phase, image, ns, mounted, bind, todo, postponed, progress>>
restoreVars == <<image, ns, mounted, bind, todo, postponed, progress>>

-----------------------------------------------------------------------------
(* The kernel.  A namespace is a set of mounts.  A mount sits on a directory *)
(* "at" of the file system of its parent and shows the directory "root" of  *)
(* its own; "peer" and "master" are the groups it shares with, receives from *)

RootMount == [id |-> 1, parent |-> 0, at |-> << >>, dev |-> 1, root |-> << >>, peer |-> 0, master |-> 0]
Get(m, i) == CHOOSE x \in m : x.id = i
Ids(m) == {x.id : x \in m}
Fresh(m) == Max(Ids(m)) + 1
FreshGroup(m) == Max({x.peer : x \in m} \cup {x.master : x \in m}) + 1

Cut(p, q) == SubSeq(p, Len(q) + 1, Len(p))  \* p below its prefix q

RECURSIVE MountPath(_, _)
MountPath(m, i) ==
  LET x == Get(m, i)
  IN  IF x.parent = 0 THEN << >>
      ELSE MountPath(m, x.parent) \o Cut(x.at, Get(m, x.parent).root)

\* Path lookup: whatever is mounted on a directory covers it.
RECURSIVE Cross(_, _)
Cross(m, w) ==
  LET over == {x \in m : x.parent = w.mnt /\ x.at = w.dir}
  IN  IF over = {} THEN w
      ELSE LET x == CHOOSE x \in over : TRUE IN Cross(m, [mnt |-> x.id, dir |-> x.root])
Lookup(m, path) ==
  FoldLeft(LAMBDA w, n : Cross(m, [w EXCEPT !.dir = Append(@, n)]),
           Cross(m, [mnt |-> 1, dir |-> << >>]), path)

\* The mounts a mount on directory d of mount i is propagated to: the peers of
\* i, their slaves, the peers of these, and so on, where they show d.
RECURSIVE Receivers(_, _)
Receivers(m, gs) ==
  LET slaves == {x \in m : x.master \in gs}
      more == gs \cup ({x.peer : x \in slaves} \ {0})
  IN  IF more = gs THEN {x \in m : x.peer \in gs} \cup slaves ELSE Receivers(m, more)
Targets(m, i, d) ==
  LET p == Get(m, i)
  IN  IF p.peer = 0 THEN {}
      ELSE {x \in Receivers(m, {p.peer}) : x.id # i /\ IsPrefix(x.root, d)}

\* Attach x to directory d of mount i.  In a shared parent it is shared; its
\* copies in the peers of the parent are its peers, the ones in the slaves
\* are its slaves, and shared among the peers of a slave.
Attach(m, i, d, x) ==
  LET p == Get(m, i)
      g0 == FreshGroup(m \cup {x})
      peer == IF x.peer # 0 THEN x.peer ELSE IF p.peer # 0 THEN g0 ELSE 0
      ts == Targets(m, i, d)
      CopyPeer(t) == IF t.peer = p.peer THEN peer ELSE IF t.peer # 0 THEN g0 + t.peer ELSE 0
      CopyMaster(t) == IF t.peer = p.peer THEN x.master
                       ELSE IF t.master = p.peer THEN peer ELSE g0 + t.master
      id == Fresh(m)
  IN  m \cup {[x EXCEPT !.id = id, !.parent = i, !.at = d, !.peer = peer]}
        \cup {[x EXCEPT !.id = id + Cardinality({u \in ts : u.id <= t.id}), !.parent = t.id, !.at = d,
                        !.peer = CopyPeer(t), !.master = CopyMaster(t)] : t \in ts}

KMount(m, path, dev) ==
  LET w == Lookup(m, path) IN Attach(m, w.mnt, w.dir, [RootMount EXCEPT !.dev = dev])

\* The source may not be there: a directory r below path s.
KBind(m, s, r, path) ==
  LET w == Lookup(m, s \o r)
      src == Get(m, w.mnt)
      t == Lookup(m, path)
  IN  Attach(m, t.mnt, t.dir, [src EXCEPT !.root = w.dir])

Set(m, i, x) == (m \ {Get(m, i)}) \cup {x}
\* Slaves of a group whose last member leaves it go to its own master.
Leave(m, i) ==
  LET x == Get(m, i)
  IN  IF x.peer = 0 \/ \E y \in m : y.id # i /\ y.peer = x.peer THEN m
      ELSE {IF y.master = x.peer THEN [y EXCEPT !.master = x.master] ELSE y : y \in m}
KPrivate(m, i) == LET n == Leave(m, i) IN Set(n, i, [Get(n, i) EXCEPT !.peer = 0, !.master = 0])
KShared(m, i) ==
  IF Get(m, i).peer # 0 THEN m ELSE Set(m, i, [Get(m, i) EXCEPT !.peer = FreshGroup(m)])
KSlave(m, i) ==
  LET x == Get(m, i)
  IN  IF x.peer = 0 THEN m
      ELSE IF \E y \in m : y.id # i /\ y.peer = x.peer
        THEN Set(m, i, [x EXCEPT !.peer = 0, !.master = x.peer])
        ELSE LET n == Leave(m, i) IN Set(n, i, [Get(n, i) EXCEPT !.peer = 0])

\* umount(): of what is on path, and of what was propagated from there.  An
\* error changes nothing.
Busy(m, x) == \E y \in m : y.parent = x.id
KUmount(m, path) ==
  LET w == Lookup(m, path)
      x == Get(m, w.mnt)
      gone == {x} \cup {y \in m : y.parent \in {t.id : t \in Targets(m, x.parent, x.at)}
                                  /\ y.at = x.at /\ y.dev = x.dev /\ ~ Busy(m, y)}
  IN  IF x.parent = 0 \/ w.dir # x.root \/ MountPath(m, x.id) # path \/ Busy(m, x) THEN m
      ELSE m \ gone

-----------------------------------------------------------------------------
(* What the tasks do *)

Live == phase = "live" /\ ops < MaxOps /\ ops' = ops + 1 /\ UNCHANGED <<phase, restoreVars>>
Fits(m) == Cardinality(m) <= MaxMounts + 1
Child(i) == i \in Ids(live) \ {1}

Mount(p) == Live /\ live' = KMount(live, p, Max({x.dev : x \in live}) + 1) /\ Fits(live')
Bind(i, r, p) ==
  /\ Live /\ Child(i)
  /\ Lookup(live, MountPath(live, i) \o r).mnt = i
  /\ live' = KBind(live, MountPath(live, i), r, p) /\ Fits(live')
MakeShared(i) == Live /\ Child(i) /\ live' = KShared(live, i) /\ live' # live
MakeSlave(i) == Live /\ Child(i) /\ live' = KSlave(live, i) /\ live' # live
MakePrivate(i) == Live /\ Child(i) /\ live' = KPrivate(live, i) /\ live' # live

-----------------------------------------------------------------------------
(* The dump *)

\* A mount_info.  The image has the paths of the mountpoints.
Info(m, x) == [mnt_id |-> x.id, parent_mnt_id |-> x.parent, s_dev |-> x.dev, root |-> x.root,
               mountpoint |-> MountPath(m, x.id), shared_id |-> x.peer, master_id |-> x.master]

\* parse_mountinfo() turns the order of the mounts around, and so does
\* read_mnt_ns_img() with the image.
parse_mountinfo(m) ==
  LET n == Cardinality(m) IN [k \in 1..n |-> Info(m, Get(m, n + 1 - k))]
read_mnt_ns_img(l) == Reverse(l)

Mi(l, i) == l[SelectInSeq(l, LAMBDA x : x.mnt_id = i)]
In(l) == {l[k] : k \in DOMAIN l}
fsroot_mounted(x) == x.root = << >>
is_root_mount(x) == x.mountpoint = << >>
basename(p) == p[Len(p)]

mounts_equal(x, c) ==
  /\ x.s_dev = c.s_dev /\ x.root = c.root
  /\ (is_root_mount(x) \/ is_root_mount(c)) => x.mountpoint = c.mountpoint
  /\ ~ (is_root_mount(x) \/ is_root_mount(c)) => basename(x.mountpoint) = basename(c.mountpoint)

\* collect_shared(): the peers, the slaves and the bind mounts of a mount.  A
\* slave is on the list of the first mount of its master's group.
mnt_share(l, x) == {t \in In(l) : x.shared_id # 0 /\ t.shared_id = x.shared_id /\ t # x}
mnt_bind(l, x) == {t \in In(l) : t.s_dev = x.s_dev /\ t # x}
mnt_master(l, x) ==
  l[SelectInSeq(l, LAMBDA t : t # x /\ t.shared_id = x.master_id)].mnt_id
mnt_slave_list(l, x) == {t \in In(l) : t.master_id # 0 /\ mnt_master(l, t) = x.mnt_id}
collect_shared(l) ==
  \A x \in In(l) : x.master_id = 0 \/ \E t \in In(l) : t # x /\ t.shared_id = x.master_id

\* mnt_build_ids_tree(): one root, and a parent for everybody else.
mnt_build_ids_tree(l) ==
  /\ Cardinality({x \in In(l) : \A t \in In(l) : t.mnt_id # x.parent_mnt_id}) = 1
  /\ \A x \in In(l) : (\A t \in In(l) : t.mnt_id # x.parent_mnt_id) => is_root_mount(x)
mnt_build_tree(l) == mnt_build_ids_tree(l) /\ collect_shared(l)
Parent(l, x) == Mi(l, x.parent_mnt_id)
HasParent(x) == x.parent_mnt_id # 0

\* mnt_resort_siblings(): every child is put behind the first one that is not
\* deeper than itself, or in front of all.
mnt_depth(x) == IF is_root_mount(x) THEN 1 ELSE Len(x.mountpoint)
InsertSibling(s, x) ==
  LET k == SelectInSeq(s, LAMBDA y : mnt_depth(y) <= mnt_depth(x))
  IN  SubSeq(s, 1, k) \o <<x>> \o SubSeq(s, k + 1, Len(s))
mnt_resort_siblings(s) == FoldLeft(InsertSibling, << >>, s)
children(l, i) == mnt_resort_siblings(SelectSeq(l, LAMBDA x : x.parent_mnt_id = i))

\* validate_mounts(): the next peer of the parent has the same child, whoever
\* shows a directory has the root of its file system mounted somewhere, and no
\* mount is covered by a sibling.  A parent that shares with nobody ends the
\* checks of a mount.  The ring of peers goes from the first one of the list
\* to the last and back.
NextPeer(l, x) ==
  LET g == SelectSeq(l, LAMBDA t : t.shared_id = x.shared_id)
      k == SelectInSeq(g, LAMBDA t : t = x)
  IN  g[IF k = 1 THEN Len(g) ELSE k - 1]
SameChildren(l, x) ==
  LET p == Parent(l, x)
  IN  p.shared_id # 0 => \E c \in In(l) : c.parent_mnt_id = NextPeer(l, p).mnt_id /\ mounts_equal(x, c)
HasRootMount(l, x) == fsroot_mounted(x) \/ \E t \in mnt_bind(l, x) : fsroot_mounted(t)
Overmounted(l, x) ==
  \E t \in In(l) : t # x /\ t.parent_mnt_id = x.parent_mnt_id /\ IsPrefix(t.mountpoint, x.mountpoint)
validate_mounts(l) ==
  \A x \in In(l) :
    \/ ~ HasParent(x)
    \/ Parent(l, x).shared_id # 0 /\ mnt_share(l, Parent(l, x)) = {}
    \/ SameChildren(l, x) /\ HasRootMount(l, x) /\ ~ Overmounted(l, x)

dump_mnt_ns ==
  /\ phase = "live"
  /\ LET l == parse_mountinfo(live)
     IN  IF mnt_build_tree(l) /\ validate_mounts(l)
           THEN phase' = "restore" /\ image' = read_mnt_ns_img(l) /\ todo' = <<1>>
           ELSE phase' = "refused" /\ UNCHANGED <<image, todo>>
  /\ UNCHANGED <<live, ops, ns, mounted, bind, postponed, progress>>

-----------------------------------------------------------------------------
(* The restore, in a namespace that clean_mnt_ns() has left with its root *)

Mis == In(image)
BindTo(b, ts, x) == [i \in DOMAIN b |-> IF i \in {t.mnt_id : t \in ts} THEN x.mnt_id ELSE b[i]]

propagate_siblings_peers(b, x) == BindTo(b, mnt_share(image, x), x)
propagate_siblings(b, x) == BindTo(b, mnt_share(image, x) \cup mnt_slave_list(image, x), x)

umount_from_slaves_none(m, x, done) == m
\* umount() from the slaves of the parent, the last one of the image first.  The
\* first error ends it, is not looked at by the callers, and leaves the copies
\* in the slaves that follow.
umount_from_slaves(m, x, done) ==
  LET slaves == SelectSeq(Reverse(image), LAMBDA t : t \in mnt_slave_list(image, Parent(image, x))
                                                     /\ done[t.mnt_id])
      step(s, t) == LET n == KUmount(s.m, Append(t.mountpoint, basename(x.mountpoint)))
                    IN  [m |-> IF s.failed THEN s.m ELSE n, failed |-> s.failed \/ n = s.m]
  IN  FoldLeft(step, [m |-> m, failed |-> FALSE], slaves).m

\* The mounts the kernel has propagated this one to, in the peers of the parent.
Propagated(x) == {c \in Mis : HasParent(c) /\ Parent(image, c) \in mnt_share(image, Parent(image, x))
                              /\ mounts_equal(x, c)}
propagate_mount(x, m, done) ==
  LET step(c, s) == [b |-> propagate_siblings(s.b, c), m |-> umount_from_slaves(s.m, c, done)]
      s1 == FoldSet(step, [b |-> propagate_siblings(bind, x), m |-> umount_from_slaves(m, x, done)],
                    Propagated(x))
      heirs == IF fsroot_mounted(x)
                 THEN {t \in mnt_bind(image, x) : s1.b[t.mnt_id] = 0 /\ t.master_id = 0} ELSE {}
  IN  /\ bind' = BindTo(s1.b, heirs, x)
      /\ ns' = s1.m
      /\ mounted' = [i \in DOMAIN done |-> done[i] \/ i \in {c.mnt_id : c \in Propagated(x)}]

\* The mount at path that was made last.
At(m, path) == Lookup(m, path).mnt
restore_shared_options(m, i, private, shared, slave) ==
  LET a == IF private THEN KPrivate(m, i) ELSE m
      b == IF slave THEN KSlave(a, i) ELSE a
  IN  IF shared THEN KShared(b, i) ELSE b

\* do_new_mount(): waits until all the peers of the parent are there.
Waits(x) == Parent(image, x).shared_id # 0
            /\ \E t \in mnt_share(image, Parent(image, x)) : ~ mounted[t.mnt_id]
NewMount(x) ==
  LET m == KMount(ns, x.mountpoint, x.s_dev)
  IN  restore_shared_options(m, At(m, x.mountpoint), FALSE, x.shared_id # 0, FALSE)

BindMount(x) ==
  LET src == Mi(image, bind[x.mnt_id])
      m == KBind(ns, src.mountpoint, x.root, x.mountpoint)
      shared == x.shared_id # 0 /\ x.shared_id = src.shared_id
  IN  restore_shared_options(m, At(m, x.mountpoint), ~ shared /\ x.master_id = 0,
                             x.shared_id # 0 /\ ~ shared, x.master_id # 0)

can_mount_now(x) == (x.master_id = 0 /\ fsroot_mounted(x)) \/ bind[x.mnt_id] # 0

X == Mi(image, Head(todo))
Walk(done) ==
  IF done THEN /\ todo' = [k \in DOMAIN children(image, X.mnt_id) |-> children(image, X.mnt_id)[k].mnt_id]
                          \o Tail(todo)
               /\ progress' = TRUE /\ UNCHANGED postponed
  ELSE todo' = Tail(todo) /\ postponed' = Append(postponed, X.mnt_id) /\ UNCHANGED progress

Restoring == phase = "restore" /\ todo # << >>
MountedAlready == ~ HasParent(X) \/ mounted[X.mnt_id]
Postpone(x) == ~ can_mount_now(x) \/ (bind[x.mnt_id] = 0 /\ Waits(x))

do_mount_one ==
  /\ Restoring
  /\ IF MountedAlready
       THEN Walk(TRUE) /\ UNCHANGED <<ns, mounted, bind>>
       ELSE IF Postpone(X)
         THEN Walk(FALSE) /\ UNCHANGED <<ns, mounted, bind>>
         ELSE /\ propagate_mount(X, IF bind[X.mnt_id] = 0 THEN NewMount(X) ELSE BindMount(X),
                                 [mounted EXCEPT ![X.mnt_id] = TRUE])
              /\ Walk(TRUE)
  /\ UNCHANGED <<live, ops, phase, image>>

\* Another round over what was postponed, if the last one got anywhere.
mnt_tree_for_each ==
  /\ phase = "restore" /\ todo = << >>
  /\ phase' = CASE ~ progress -> "failed" [] progress /\ postponed = << >> -> "done" [] OTHER -> phase
  /\ todo' = postponed /\ postponed' = << >> /\ progress' = FALSE
  /\ UNCHANGED <<live, ops, image, ns, mounted, bind>>

-----------------------------------------------------------------------------
\* The new namespace is a copy of criu's.  Either everything but the root is
\* unmounted again or the root is replaced: one private mount is left.
clean_mnt_ns == {RootMount}
cr_pivot_root == {RootMount}

Init ==
  /\ live \in Starts /\ ops = 0 /\ phase = "live" /\ image = << >>
  /\ ns \in {clean_mnt_ns, cr_pivot_root}
  /\ mounted = [i \in 1..(MaxMounts + MaxOps + 1) |-> FALSE]
  /\ bind = [i \in 1..(MaxMounts + MaxOps + 1) |-> 0]
  /\ todo = << >> /\ postponed = << >> /\ progress = FALSE

Next ==
  \/ \E p \in Paths : Mount(p) \/ \E i \in Ids(live), r \in SubRoots : Bind(i, r, p)
  \/ \E i \in Ids(live) : MakeShared(i) \/ MakeSlave(i) \/ MakePrivate(i)
  \/ dump_mnt_ns \/ do_mount_one \/ mnt_tree_for_each

Spec == Init /\ [][Next]_vars

-----------------------------------------------------------------------------
(* Properties *)

\* What a task sees of its mounts: where each one is, what it shows, and with
\* which others it shares and from which it receives.
Where(m, S) == {MountPath(m, x.id) : x \in S}
View(m) == {[path |-> MountPath(m, x.id), dev |-> x.dev, root |-> x.root, shared |-> x.peer # 0,
             peers |-> Where(m, {y \in m : y # x /\ y.peer # 0 /\ y.peer = x.peer}),
             masters |-> Where(m, {y \in m : y.peer # 0 /\ y.peer = x.master})] : x \in m}

\* The namespaces that are known to come out differently, or not at all.
\* A directory that is mounted elsewhere too is covered: the restore binds by
\* path, and binds what covers it.
CoveredSource(m) == \E x, y, z \in m : x.dev = y.dev /\ z.parent = y.id /\ IsPrefix(z.at, x.root)
\* A bind mount in a shared mount: do_bind_mount() does not wait for the peers
\* of its parent.
InShared(m) == {x \in m : x.parent # 0 /\ Get(m, x.parent).peer # 0}
Twins(m, x, y) == /\ y.at = x.at /\ y.parent # 0
                  /\ Get(m, x.parent).peer \in {Get(m, y.parent).peer, Get(m, y.parent).master}
BoundInShared(m) == \E x \in InShared(m), y \in m : x # y /\ x.dev = y.dev /\ ~ Twins(m, x, y)
\* The propagation of a mount was changed after something was mounted in it:
\* the children come out as if they were born then, peers and slaves of their
\* twins as their parents are.
ChangedChild(m) ==
  \E x \in InShared(m) :
    LET p == Get(m, x.parent)
    IN  \/ x.peer = 0
        \/ \E y \in m : x.dev = y.dev /\ Twins(m, x, y) /\
             LET q == Get(m, y.parent)
             IN  \/ q.peer = p.peer /\ y.peer # x.peer
                 \/ q.master = p.peer /\ y.master # x.peer
\* No order mounts them all: a mount comes after its parent, a slave after its
\* masters (it is on the list of only one of them), a directory of a file
\* system after a mount of the whole.
RECURSIVE InOrder(_, _)
InOrder(m, S) ==
  LET next == {x \in m : /\ x.parent \in Ids(S)
                         /\ x.master # 0 => \A y \in m : y.peer = x.master => y \in S
                         /\ x.root # << >> => \E y \in S : y.dev = x.dev /\ y.root = << >>}
  IN  IF next \subseteq S THEN S ELSE InOrder(m, S \cup next)
NoOrder(m) == InOrder(m, {Get(m, 1)}) # m
\* A directory of a file system that is shared: propagate_siblings() has its
\* peers bound from it as if it showed the whole.
SharedDirectory(m) == \E x \in m : x.root # << >> /\ x.peer # 0
\* Peers that have a master: the second one is made a slave of the first.
SlavePeers(m) == \E x, y \in m : x # y /\ x.peer # 0 /\ x.peer = y.peer /\ x.master # 0

\* Something is mounted in a mount that has slaves, and one of these does not
\* show the directory right below its own root: umount_from_slaves() puts the
\* last name behind the path of each slave, and ends at the first one where
\* nothing is mounted there, whether the kernel has put a copy elsewhere or not.
MissedCopy(m) ==
  \E x \in InShared(m) :
    LET slaves == {t \in m : t.master = Get(m, x.parent).peer}
    IN  /\ \E t \in slaves : x.at = << >> \/ Front(x.at) # t.root
        /\ \E t \in slaves : IsPrefix(t.root, x.at)

Limits(m) == \/ CoveredSource(m) \/ BoundInShared(m) \/ ChangedChild(m)
             \/ NoOrder(m) \/ SharedDirectory(m) \/ SlavePeers(m) \/ MissedCopy(m)

\* A restore that reports success has made the mounts that were dumped, and
\* they propagate to each other as before.
RestoredAsDumped ==
  phase = "done" /\ ~ Limits(live) => View(ns) = View(live) /\ Cardinality(ns) = Cardinality(live)

\* What the dump accepts the restore can mount: the walk gets to the end.
DumpedIsRestorable == phase = "failed" => Limits(live)
=============================================================================
