------------------------------ MODULE PstreeIds ------------------------------
(***************************************************************************)
(* Sessions and process groups.  A process cannot choose its session: it   *)
(* inherits its parent's or starts its own.  pstree.c therefore rebuilds,  *)
(* from a snapshot of the tree, an order of fork() and setsid() that gives *)
(* everybody the dumped ids, with helper tasks in the place of leaders     *)
(* that are dead; cr-restore.c then plays it, each task on its own.        *)
(*                                                                         *)
(* The trees are the ones a pid namespace can really get into: its init    *)
(* and its descendants call fork(), setsid(), setpgid() and exit() until   *)
(* the dump.                                                               *)
(***************************************************************************)
EXTENDS Integers, FiniteSets, FiniteSetsExt

CONSTANTS
  MaxPid,       \* pids 1 .. MaxPid are given to processes, none twice
  MaxPidGroups  \* the same where processes call setpgid(); 0: they never do

ASSUME PstreeAssumption == MaxPid \in Nat \ {0} /\ MaxPidGroups \in 0 .. MaxPid

Pids == 1 .. MaxPid
INIT_PID == 1
None == 0

VARIABLES
  phase,    \* "live", then "restore" or "refused"
  ppid, sid, pgid,  \* the live processes: functions on Pids, None when dead
  nextPid,  \* the next pid fork() gives out
  groups,   \* whether the processes call setpgid()
  tree,     \* the pstree_items criu works on, after prepare_pstree_ids()
  pc,       \* where the restored tasks are
  rsid, rpgid,      \* the ids the restored tasks have
  pgrp_set  \* items whose rst->pgrp_set is 1

kernelVars == <<ppid, sid, pgid, nextPid, groups>>
restoreVars == <<pc, rsid, rpgid, pgrp_set>>
vars == <<phase, kernelVars, tree, restoreVars>>

Live == {p \in Pids : sid[p] # None}

\* The items of the tree: a task, or a helper for a session or for a group.
Task(p)  == <<"task", p>>
SidHelper(s) == <<"sid", s>>
PgidHelper(g) == <<"pgid", g>>
Root == Task(INIT_PID)
NoItem == <<"none", None>>

NoTree == [items |-> {}, pid |-> <<>>, sid |-> <<>>, pgid |-> <<>>,
           parent |-> <<>>, born_sid |-> <<>>, leader |-> <<>>]

Init ==
  /\ phase = "live"
  /\ ppid = [p \in Pids |-> None]
  /\ sid = [p \in Pids |-> IF p = INIT_PID THEN INIT_PID ELSE None]
  /\ pgid = sid
  /\ nextPid = INIT_PID + 1
  /\ groups \in BOOLEAN /\ (groups => MaxPidGroups > 0)
  /\ tree = NoTree
  /\ pc = <<>> /\ rsid = <<>> /\ rpgid = <<>>
  /\ pgrp_set = {}

-----------------------------------------------------------------------------
(* The life of the namespace before the dump *)

Fork(p) ==
  /\ p \in Live /\ nextPid <= IF groups THEN MaxPidGroups ELSE MaxPid
  /\ ppid' = [ppid EXCEPT ![nextPid] = p]
  /\ sid' = [sid EXCEPT ![nextPid] = sid[p]]
  /\ pgid' = [pgid EXCEPT ![nextPid] = pgid[p]]
  /\ nextPid' = nextPid + 1

\* setsid() fails in a process whose pid names an existing group.
Setsid(p) ==
  /\ p \in Live /\ \A q \in Live : pgid[q] # p
  /\ sid' = [sid EXCEPT ![p] = p]
  /\ pgid' = [pgid EXCEPT ![p] = p]
  /\ UNCHANGED <<ppid, nextPid>>

\* setpgid(): a new group, or one that exists in the session.
Setpgid(p, g) ==
  /\ groups
  /\ p \in Live /\ sid[p] # p /\ pgid[p] # g
  /\ g = p \/ \E q \in Live : sid[q] = sid[p] /\ pgid[q] = g
  /\ pgid' = [pgid EXCEPT ![p] = g]
  /\ UNCHANGED <<ppid, sid, nextPid>>

\* exit(), and the orphans go to init.
Exit(p) ==
  /\ p \in Live \ {INIT_PID}
  /\ ppid' = [q \in Pids |-> IF q = p THEN None
                             ELSE IF ppid[q] = p THEN INIT_PID ELSE ppid[q]]
  /\ sid' = [sid EXCEPT ![p] = None]
  /\ pgid' = [pgid EXCEPT ![p] = None]
  /\ UNCHANGED nextPid

Kernel ==
  /\ phase = "live"
  /\ \E p \in Pids : Fork(p) \/ Setsid(p) \/ Exit(p)
                       \/ \E g \in Pids : Setpgid(p, g)
  /\ UNCHANGED <<phase, groups, tree, restoreVars>>

-----------------------------------------------------------------------------
(* prepare_pstree_ids() *)

\* read_pstree_image(): what dump_pstree() wrote.
ImageTree ==
  LET items == {Task(p) : p \in Live}
  IN  [items    |-> items,
       pid      |-> [i \in items |-> i[2]],
       sid      |-> [i \in items |-> sid[i[2]]],
       pgid     |-> [i \in items |-> pgid[i[2]]],
       parent   |-> [i \in items |-> IF i = Root THEN NoItem ELSE Task(ppid[i[2]])],
       born_sid |-> [i \in items |-> None],
       leader   |-> [i \in items |-> NoItem]]

\* The items from i up, i not included.
Ancestors(t, i) ==
  LET up[n \in 0 .. Cardinality(t.items)] ==
        IF n = 0 THEN i
        ELSE IF up[n - 1] = NoItem THEN NoItem ELSE t.parent[up[n - 1]]
  IN  {up[n] : n \in 1 .. Cardinality(t.items)} \ {NoItem}

\* Sessions of root's children that are neither root's nor the child's own.
AdoptedSids(t) ==
  {t.sid[c] : c \in {c \in t.items :
     t.parent[c] = Root /\ t.sid[c] \notin {t.sid[Root], t.pid[c]}}}

\* A helper per such session, and all of root's children in it move below it.
WithSidHelpers(t) ==
  LET adopted == AdoptedSids(t)
      items == t.items \cup {SidHelper(s) : s \in adopted}
      Below(i) == t.parent[i] = Root /\ t.sid[i] # t.pid[i] /\ t.sid[i] \in adopted
      Old(f) == [i \in items |-> IF i \in t.items THEN f[i] ELSE i[2]]
  IN  [items    |-> items,
       pid      |-> Old(t.pid),
       sid      |-> Old(t.sid),
       pgid     |-> Old(t.pgid),
       parent   |-> [i \in items |-> IF i \notin t.items THEN Root
                       ELSE IF Below(i) THEN SidHelper(t.sid[i]) ELSE t.parent[i]],
       born_sid |-> [i \in items |-> None],
       leader   |-> [i \in items |-> NoItem]]

Helpers(t) == {i \in t.items : i[1] = "sid"}

\* The live task that leads the session of a helper.
SessionLeader(t, h) ==
  IF \E l \in t.items \ Helpers(t) : t.pid[l] = h[2] /\ t.sid[l] = h[2]
  THEN Task(h[2]) ELSE NoItem

\* A helper moves below its session's leader when the walk over the tree meets
\* the leader.  The walk does not see what is below a helper that is not
\* connected: those are linked into the tree only afterwards.
ConnectHelpers(t) ==
  LET Leader(h) == SessionLeader(t, h)
      linked == [t EXCEPT !.parent = [i \in t.items |->
                   IF i \in Helpers(t) /\ Leader(i) # NoItem THEN Leader(i) ELSE @[i]]]
      dead == {h \in Helpers(t) : Leader(h) = NoItem}
      connected == {h \in Helpers(t) \ dead : Ancestors(linked, h) \cap dead = {}}
      Spare(h) == Max(Pids) + Cardinality({g \in connected : g[2] <= h[2]})
  IN  [t EXCEPT
       !.pid    = [i \in t.items |-> IF i \in connected THEN Spare(i) ELSE @[i]],
       !.pgid   = [i \in t.items |-> IF i \in connected THEN @[Leader(i)] ELSE @[i]],
       !.parent = [i \in t.items |-> IF i \in connected THEN Leader(i) ELSE @[i]]]

\* What that walk visits.
Visited(t) ==
  LET apart == {h \in Helpers(t) : t.pid[h] = h[2]}
  IN  {i \in t.items : (Ancestors(t, i) \cup {i}) \cap apart = {}}

\* The tasks that are in a session other than their parent's and do not lead it:
\* the parent forked them before its own setsid().
BornEarly(t) ==
  {i \in Visited(t) \ {Root} : i[1] = "task" /\ t.sid[i] # t.pid[i]
                                 /\ t.sid[t.parent[i]] # t.sid[i]}

\* Up to the session's leader, everybody was born with this sid.
Walk(t, i) ==
  {a \in Ancestors(t, i) :
     /\ t.pid[a] # t.sid[i]
     /\ \A b \in Ancestors(t, i) : t.pid[b] = t.sid[i] => b \in Ancestors(t, a)}

\* "Can't find a session leader", "Can't determinate with which sid".
Refused(t) ==
  \/ \E i \in BornEarly(t) : \A a \in Ancestors(t, i) : t.pid[a] # t.sid[i]
  \/ \E i, j \in BornEarly(t) : t.sid[i] # t.sid[j] /\ Walk(t, i) \cap Walk(t, j) # {}

WithBornSids(t) ==
  [t EXCEPT !.born_sid = [a \in t.items |->
     LET sids == {t.sid[i] : i \in {i \in BornEarly(t) : a \in Walk(t, i)}}
     IN  IF sids = {} THEN None ELSE CHOOSE s \in sids : TRUE]]

\* Groups without a leader, and the items that can be the first of the group in
\* the depth-first order of for_each_pstree_item().
Leaderless(t) == {t.pgid[i] : i \in t.items} \ {t.pid[i] : i \in t.items}
FirstOf(t, g) ==
  {i \in t.items : t.pgid[i] = g /\ \A a \in Ancestors(t, i) : t.pgid[a] # g}

\* The first of them gets a helper as a child that leads the group.
WithPgidHelpers(t, first) ==
  LET items == t.items \cup {PgidHelper(g) : g \in DOMAIN first}
      Old(f, v) == [i \in items |-> IF i \in t.items THEN f[i] ELSE v[i]]
      pid == Old(t.pid, [i \in items |-> i[2]])
      pg  == Old(t.pgid, [i \in items |-> i[2]])
  IN  [items    |-> items,
       pid      |-> pid,
       sid      |-> [i \in items |-> IF i \in t.items THEN t.sid[i] ELSE t.sid[first[i[2]]]],
       pgid     |-> pg,
       parent   |-> [i \in items |-> IF i \in t.items THEN t.parent[i] ELSE first[i[2]]],
       born_sid |-> Old(t.born_sid, [i \in items |-> None]),
       leader   |-> [i \in items |-> IF pg[i] = pid[i] THEN NoItem
                                     ELSE CHOOSE l \in items : pid[l] = pg[i]]]

\* dump_pstree(), then prepare_pstree() on the restoring side.
Prepare ==
  /\ phase = "live"
  /\ LET t == ConnectHelpers(WithSidHelpers(ImageTree)) IN
     IF Refused(t)
     THEN phase' = "refused" /\ UNCHANGED <<tree, restoreVars>>
     ELSE \E first \in [Leaderless(t) -> t.items] :
            /\ \A g \in Leaderless(t) : first[g] \in FirstOf(t, g)
            /\ tree' = WithPgidHelpers(WithBornSids(t), first)
            /\ phase' = "restore"
            /\ pc' = [i \in tree'.items |-> IF i = Root THEN "born" ELSE "unborn"]
            /\ rsid' = [i \in tree'.items |-> None]
            /\ rpgid' = rsid'
            /\ pgrp_set' = {}
  /\ UNCHANGED kernelVars

-----------------------------------------------------------------------------
(* cr-restore.c: each task on its own *)

Children(i) == {c \in tree.items : tree.parent[c] = i}

\* Mutant: the child's own birth session is not looked at.
restore_before_setsid_SidOnly(c) ==
  tree.born_sid[tree.parent[c]] = tree.sid[c]

restore_before_setsid(c) ==
  LET csid == IF tree.born_sid[c] = None THEN tree.sid[c] ELSE tree.born_sid[c]
  IN  tree.born_sid[tree.parent[c]] = csid

\* create_children_and_session(): children of alien sessions, restore_sid(),
\* the other children.
CreateChildren(i) ==
  LET alien == {c \in Children(i) : restore_before_setsid(c)}
      leads == tree.pid[i] = tree.sid[i]
      ok    == leads \/ rsid[i] = tree.sid[i]
      Taken(c) == \E j \in tree.items \ {c} :
                    pc[j] # "unborn" /\ tree.pid[j] = tree.pid[c]
      born  == IF ok THEN Children(i) ELSE alien
      Sid(j)  == IF j \in (born \ alien) \cup {i} /\ leads THEN tree.pid[i] ELSE rsid[i]
      Pgid(j) == IF j \in (born \ alien) \cup {i} /\ leads THEN tree.pid[i] ELSE rpgid[i]
  IN
  /\ pc[i] = "born"
  /\ IF \E c \in alien : tree.born_sid[c] \notin {None, rsid[i]}
     THEN /\ pc' = [pc EXCEPT ![i] = "bug_on"]
          /\ UNCHANGED <<rsid, rpgid>>
     ELSE /\ pc' = [j \in tree.items |->
                IF j \in born THEN (IF Taken(j) THEN "pid_mismatch" ELSE "born")
                ELSE IF j = i THEN (IF ok THEN "pgid" ELSE "sid_mismatch")
                ELSE pc[j]]
          /\ rsid' = [j \in tree.items |-> IF j \in born \cup {i} THEN Sid(j) ELSE rsid[j]]
          /\ rpgid' = [j \in tree.items |-> IF j \in born \cup {i} THEN Pgid(j) ELSE rpgid[j]]
  /\ UNCHANGED <<phase, kernelVars, tree, pgrp_set>>

\* Mutant: a member does not wait for the group to exist.
LeaderReady_NoWait(i) == TRUE

\* futex_wait_until(&leader->rst->pgrp_set, 1)
LeaderReady(i) == tree.leader[i] = NoItem \/ tree.leader[i] \in pgrp_set

\* Mutant: the leader does not tell.
SetPgrp_Not(i) == pgrp_set

\* futex_set_and_wake(&current->rst->pgrp_set, 1) of a group leader
SetPgrp(i) == IF tree.pgid[i] = tree.pid[i] THEN pgrp_set \cup {i} ELSE pgrp_set

\* restore_pgid(): nothing to do, or wait for the leader, join or create.
RestorePgid(i) ==
  LET g == tree.pgid[i]
      exists == \E j \in tree.items :
                  pc[j] # "unborn" /\ rpgid[j] = g /\ rsid[j] = rsid[i]
  IN
  /\ pc[i] = "pgid"
  /\ \/ /\ rpgid[i] = g
        /\ pc' = [pc EXCEPT ![i] = "forked"]
        /\ UNCHANGED <<rpgid, pgrp_set>>
     \/ /\ rpgid[i] # g /\ LeaderReady(i)
        /\ IF g = tree.pid[i] \/ exists
           THEN /\ rpgid' = [rpgid EXCEPT ![i] = g]
                /\ pgrp_set' = SetPgrp(i)
                /\ pc' = [pc EXCEPT ![i] = "forked"]
           ELSE /\ pc' = [pc EXCEPT ![i] = "pgid_failed"]
                /\ UNCHANGED <<rpgid, pgrp_set>>
  /\ UNCHANGED <<phase, kernelVars, tree, rsid>>

Restore(i) == CreateChildren(i) \/ RestorePgid(i)

\* The forking stage is over, or the image was refused.
AllForked == phase = "restore" /\ \A i \in tree.items : pc[i] = "forked"
Finished == (AllForked \/ phase = "refused") /\ UNCHANGED vars

Next ==
  \/ Kernel \/ Prepare \/ Finished
  \/ phase = "restore" /\ \E i \in tree.items : Restore(i)

\* The restored tasks are scheduled; the processes need not do anything before
\* the dump, which need not come.
Spec == Init /\ [][Next]_vars
FairSpec == Spec /\ WF_vars(phase = "restore" /\ \E i \in tree.items : Restore(i))

-----------------------------------------------------------------------------
(* Properties *)

\* A task below the helper of a dead session leader that was born before its
\* parent's setsid().
BornBelowHelper ==
  LET t == ConnectHelpers(WithSidHelpers(ImageTree))
  IN  \E i \in t.items \ Visited(t) :
        i[1] = "task" /\ t.sid[i] \notin {t.pid[i], t.sid[t.parent[i]]}

\* A group whose leader is alive but has moved to another group.
LeaderMoved == \E p, q \in Live : pgid[p] = q /\ pgid[q] # q

\* The end of the forking stage, everybody with the dumped session and group.
IdsRestored ==
  /\ AllForked
  /\ \A p \in Live : rsid[Task(p)] = sid[p] /\ rpgid[Task(p)] = pgid[p]

\* Every accepted tree gets through the forking stage with the dumped ids:
\* nobody waits for ever for a group leader.
AllGetForked ==
  (phase = "restore" /\ ~LeaderMoved /\ ~BornBelowHelper) ~> IdsRestored

=============================================================================
