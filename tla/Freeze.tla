------------------------------- MODULE Freeze -------------------------------
(***************************************************************************)
(* Freezing a process tree for the dump.  criu seizes the root with        *)
(* ptrace, then its threads, then its children and theirs, depth first,    *)
(* reading the lists of threads and children in /proc again and again      *)
(* until a pass finds nobody new (collect_pstree() of cr-dump.c,           *)
(* seize_task() of ptrace.c).  The tasks that are not seized yet go on     *)
(* forking, cloning, exiting and reaping.                                  *)
(***************************************************************************)
EXTENDS Integers, Sequences, FiniteSets, FiniteSetsExt

CONSTANTS
  Pids,         \* pids and tids
  Root,         \* the task that is dumped
  NR_ATTEMPTS,  \* passes over a list of threads or of children
  MaxEvents,    \* how much the tasks do while they are being frozen
  PidReuse,     \* whether the pid counter may wrap around within the freeze
  NewPidNs,     \* whether Root is the init of a pid namespace
  Trees         \* the trees the dump may find: a set of functions, see Trees' type

States == {"free", "gone", "run", "stop", "zombie"}
Proc == [st : States, lead : Pids, ppid : Pids \cup {0}]
NoProc(p) == [st |-> "free", lead |-> p, ppid |-> 0]
Gone(p) == [NoProc(p) EXCEPT !.st = IF PidReuse THEN "free" ELSE "gone"]

ASSUME FreezeAssumption ==
  /\ Pids \subseteq Nat \ {0} /\ IsFiniteSet(Pids) /\ Root \in Pids
  /\ NR_ATTEMPTS \in Nat \ {0} /\ MaxEvents \in Nat
  /\ NewPidNs \in BOOLEAN /\ PidReuse \in BOOLEAN
  /\ Trees \subseteq [Pids -> Proc]
  /\ \A t \in Trees : t[Root].st \in {"run", "stop"} /\ t[Root].lead = Root

VARIABLES
  proc,     \* the tasks of the system: state, thread group leader and parent
  traced,   \* the tasks criu is the tracer of
  trapped,  \* the ones that are in a ptrace stop
  events,   \* how much the tasks have done
  items,    \* the pstree_items, in the order of for_each_pstree_item()
  stack,    \* the calls of collect_task() and what they have yet to visit
  seizing,  \* the seize_task() under way: its pid and whether SEIZE worked
  froze     \* the outcome of collect_pstree()

kernelVars == <<proc, traced, trapped, events>>
freezeVars == <<items, stack, seizing, froze>>

NoSeize == [pid |-> 0, ok |-> FALSE]

Exists(p) == proc[p].st \notin {"free", "gone"}
Alive(p) == proc[p].st \in {"run", "stop"}
Group(l) == {p \in Pids : Exists(p) /\ proc[p].lead = l}
IsLeader(p) == proc[p].lead = p

\* Who is in the tree that is dumped: Root, its descendants and their threads.
Descends(p, d) ==
  LET up[n \in 0..Cardinality(Pids), q \in Pids \cup {0}] ==
        \/ q = Root
        \/ n > 0 /\ q # 0 /\ up[n - 1, proc[q].ppid]
  IN  up[d, p]
Tree == {p \in Pids : Exists(p) /\ Descends(proc[p].lead, Cardinality(Pids))}

-----------------------------------------------------------------------------
(* What the tasks do.  A task runs unless it is stopped or trapped. *)

Running(p) == proc[p].st = "run" /\ p \notin trapped

\* Orphans go to the init of the namespace, or to somebody out of the tree.
Reaper == IF NewPidNs THEN Root ELSE 0

Event == froze = "no" /\ events < MaxEvents /\ events' = events + 1
         /\ UNCHANGED freezeVars

Fork(p, c) ==
  /\ Event /\ Running(p) /\ proc[c].st = "free" /\ c \notin traced
  /\ proc' = [proc EXCEPT ![c] = [st |-> "run", lead |-> c, ppid |-> proc[p].lead]]
  /\ UNCHANGED <<traced, trapped>>

CloneThread(p, c) ==
  /\ Event /\ Running(p) /\ proc[c].st = "free" /\ c \notin traced
  /\ proc' = [proc EXCEPT ![c] = [st |-> "run", lead |-> proc[p].lead, ppid |-> 0]]
  /\ UNCHANGED <<traced, trapped>>

\* exit() of one thread.  A leader stays as a zombie while it has threads;
\* a thread stays as one only for its tracer.  (A leader that does so between
\* PTRACE_SEIZE and the wait4() of seize_task() would keep criu waiting until
\* its threads are gone: not in this model.)
ExitThread(p) ==
  /\ Event /\ Running(p) /\ \E q \in Group(proc[p].lead) \ {p} : Alive(q)
  /\ ~ (IsLeader(p) /\ p \in traced)
  /\ proc' = [proc EXCEPT ![p] = IF IsLeader(p) \/ p \in traced
                                   THEN [@ EXCEPT !.st = "zombie"] ELSE Gone(p)]
  /\ UNCHANGED <<traced, trapped>>

\* exit_group(): takes the trapped threads of the group along.  The root is
\* not let go: there would be nothing to dump.
Exit(p) ==
  /\ Event /\ Running(p) /\ proc[p].lead # Root
  /\ LET l == proc[p].lead
     IN  /\ proc' = [q \in Pids |->
               IF q \in Group(l)
               THEN IF q = l \/ q \in traced THEN [proc[q] EXCEPT !.st = "zombie"] ELSE Gone(q)
               ELSE IF proc[q].ppid = l THEN [proc[q] EXCEPT !.ppid = Reaper] ELSE proc[q]]
         /\ trapped' = trapped \ Group(l)
  /\ UNCHANGED traced

\* wait() of a parent.  A zombie with a tracer or with threads is not reaped.
Reap(p, c) ==
  /\ Event /\ Running(p) /\ proc[c].st = "zombie" /\ proc[c].ppid = proc[p].lead
  /\ IsLeader(c) /\ Group(c) = {c} /\ c \notin traced
  /\ proc' = [proc EXCEPT ![c] = Gone(c)]
  /\ UNCHANGED <<traced, trapped>>

TaskStep == \E p \in Tree :
  \/ \E c \in Pids : Fork(p, c) \/ CloneThread(p, c) \/ Reap(p, c)
  \/ ExitThread(p) \/ Exit(p)

-----------------------------------------------------------------------------
(* seize_task() *)

\* PTRACE_SEIZE: of no use on a zombie, nor when there is no such task.
SeizeBegin(p) ==
  /\ seizing = NoSeize
  /\ seizing' = [pid |-> p, ok |-> Alive(p) /\ p \notin traced]
  /\ traced' = IF seizing'.ok THEN traced \cup {p} ELSE traced

Died(p) == ~ Alive(p)

\* PTRACE_INTERRUPT, /proc/pid/stat, the check of the parent (0: of none) and
\* the wait for the trap.  The state the task was in, or "error".
Ppid(p) == proc[proc[p].lead].ppid
SeizeResult(p, ppid) ==
  IF seizing.ok
  THEN IF Died(p) \/ (ppid # 0 /\ Ppid(p) # ppid) THEN "error" ELSE proc[p].st
  ELSE IF proc[p].st = "zombie" THEN "zombie" ELSE "error"

\* The traps and tracees after it.  A task that died in between is seen by the
\* wait, which leaves it to its parent (a thread has none).
SeizeEnd(p, res) ==
  /\ seizing' = NoSeize
  /\ trapped' = IF res \in {"run", "stop"} THEN trapped \cup {p} ELSE trapped
  /\ traced' = IF seizing.ok /\ res = "error" THEN traced \ {p} ELSE traced
  /\ proc' = IF seizing.ok /\ Died(p) /\ ~ IsLeader(p)
                THEN [proc EXCEPT ![p] = Gone(p)] ELSE proc
  /\ UNCHANGED events

-----------------------------------------------------------------------------
(* collect_pstree() *)

Item(p, par, state) == [pid |-> p, par |-> par, state |-> state, threads |-> {p}]
Frame(i) == [at |-> i, ph |-> "threads", att |-> NR_ATTEMPTS, nr |-> 1, todo |-> {}]

Top == stack[Len(stack)]
Cur == items[Top.at]
SetTop(f) == stack' = [stack EXCEPT ![Len(stack)] = f]
Pop == stack' = SubSeq(stack, 1, Len(stack) - 1)

\* unseize_task() and PTRACE_DETACH for the threads of every item that was
\* not dead: into state st.
unseize_task(i, st) ==
  LET l == items[i].pid
  IN  [p \in Pids |->
        IF items[i].state = "zombie" \/ proc[p].lead # l \/ Died(p) THEN proc[p]
        ELSE CASE st = "dead" -> IF p = l THEN [proc[p] EXCEPT !.st = "zombie"] ELSE Gone(p)
               [] st = "stopped" -> [proc[p] EXCEPT !.st = "stop"]
               [] OTHER -> proc[p]]
unseize_task_and_threads(i) ==
  IF items[i].state = "zombie" THEN {} ELSE items[i].threads
pstree_switch_state(st) ==
  /\ trapped' = trapped \ UNION {unseize_task_and_threads(i) : i \in DOMAIN items}
  /\ traced' = {p \in traced : Died(p) \/ \A i \in DOMAIN items : p \notin unseize_task_and_threads(i)}
  /\ proc' = [p \in Pids |->
       LET is == {i \in DOMAIN items : items[i].pid = proc[p].lead}
       IN  IF is = {} THEN proc[p] ELSE unseize_task(CHOOSE i \in is : TRUE, st)[p]]
  /\ UNCHANGED events

CollectError ==
  /\ froze' = "error" /\ stack' = <<>>
  /\ pstree_switch_state("alive")
  /\ UNCHANGED <<items, seizing>>

SeizeRoot ==
  /\ froze = "no" /\ items = <<>>
  /\ IF seizing = NoSeize
       THEN SeizeBegin(Root) /\ UNCHANGED <<proc, trapped, events, items, stack, froze>>
       ELSE LET res == SeizeResult(Root, 0)
            IN  /\ SeizeEnd(Root, res)
                /\ IF res = "error"
                     THEN froze' = "error" /\ UNCHANGED <<items, stack>>
                     ELSE /\ items' = <<Item(Root, 0, res)>>
                          /\ stack' = <<Frame(1)>>
                          /\ UNCHANGED froze

Collecting(ph) == froze = "no" /\ stack # <<>> /\ Top.ph = ph

\* parse_threads() and the part of seize_threads() before its loop.
parse_threads(p) == Group(p)
ThreadsPass ==
  /\ Collecting("threads") /\ Top.todo = {} /\ Top.nr > 0 /\ Top.att > 0
  /\ LET t == parse_threads(Cur.pid)
     IN  SetTop([Top EXCEPT !.att = @ - 1,
                   !.nr = IF Cur.state = "zombie" /\ Cardinality(t) > 1
                            THEN -1 ELSE Cardinality(t \ Cur.threads),
                   !.todo = IF Cur.state = "zombie" THEN {} ELSE t \ Cur.threads])
  /\ UNCHANGED <<kernelVars, items, seizing, froze>>

\* The loop of seize_threads(): a thread it cannot seize is left to the next pass.
seize_threads ==
  /\ Collecting("threads") /\ Top.todo # {}
  /\ LET t == Min(Top.todo)
     IN  IF seizing = NoSeize
           THEN SeizeBegin(t) /\ UNCHANGED <<proc, trapped, events, items, stack, froze>>
           ELSE LET res == SeizeResult(t, Cur.par)
                IN  /\ SeizeEnd(t, res)
                    /\ items' = IF res = "error" THEN items
                                ELSE [items EXCEPT ![Top.at].threads = @ \cup {t}]
                    /\ SetTop(IF res \in {"zombie", "stop"}
                                THEN [Top EXCEPT !.todo = {}, !.nr = -1]
                                ELSE [Top EXCEPT !.todo = @ \ {t}])
                    /\ UNCHANGED froze

\* The end of collect_threads(): attempts that ran out are no error.
ThreadsFailed(f) == f.nr # 0 /\ f.att > 0
collect_threads ==
  /\ Collecting("threads") /\ Top.todo = {} /\ ~ (Top.nr > 0 /\ Top.att > 0)
  /\ ~ ThreadsFailed(Top)
  /\ IF Cur.state = "zombie" THEN Pop
     ELSE SetTop([Top EXCEPT !.ph = "children", !.att = NR_ATTEMPTS, !.nr = 1])
  /\ froze' = IF Cur.state = "zombie" /\ Len(stack) = 1 THEN "yes" ELSE froze
  /\ UNCHANGED <<kernelVars, items, seizing>>

ThreadsError ==
  /\ Collecting("threads") /\ Top.todo = {} /\ ~ (Top.nr > 0 /\ Top.att > 0)
  /\ ThreadsFailed(Top)
  /\ CollectError

\* parse_children(), without the children that are frozen already.
Known(i) == {items[j].pid : j \in {k \in DOMAIN items : items[k].par = items[i].pid}}
parse_children(p) == {c \in Pids : Exists(c) /\ IsLeader(c) /\ proc[c].ppid = p}
ChildrenPass_once ==
  /\ Collecting("children") /\ Top.todo = {} /\ Top.nr > 0 /\ Top.att > 0
  /\ SetTop([Top EXCEPT !.att = @ - 1, !.nr = 0,
                        !.todo = parse_children(Cur.pid) \ Known(Top.at)])
  /\ UNCHANGED <<kernelVars, items, seizing, froze>>
ChildrenPass ==
  /\ Collecting("children") /\ Top.todo = {} /\ Top.nr > 0 /\ Top.att > 0
  /\ LET new == parse_children(Cur.pid) \ Known(Top.at)
     IN  SetTop([Top EXCEPT !.att = @ - 1, !.nr = Cardinality(new), !.todo = new])
  /\ UNCHANGED <<kernelVars, items, seizing, froze>>

get_children ==
  /\ Collecting("children") /\ Top.todo # {}
  /\ LET c == Min(Top.todo)
     IN  IF seizing = NoSeize
           THEN SeizeBegin(c) /\ UNCHANGED <<proc, trapped, events, items, stack, froze>>
           ELSE LET res == SeizeResult(c, Cur.pid)
                    rest == [Top EXCEPT !.todo = @ \ {c}]
                IN  /\ SeizeEnd(c, res)
                    /\ IF res = "error"
                         THEN SetTop(rest) /\ UNCHANGED items
                         ELSE /\ items' = Append(items, Item(c, Cur.pid, res))
                              /\ stack' = Append([stack EXCEPT ![Len(stack)] = rest],
                                                 Frame(Len(items) + 1))
                    /\ UNCHANGED froze

\* The end of collect_task().
ChildrenFailed(f) == f.att = 0
collect_task ==
  /\ Collecting("children") /\ Top.todo = {} /\ ~ (Top.nr > 0 /\ Top.att > 0)
  /\ ~ ChildrenFailed(Top)
  /\ Pop
  /\ froze' = IF Len(stack) = 1 THEN "yes" ELSE froze
  /\ UNCHANGED <<kernelVars, items, seizing>>

ChildrenError ==
  /\ Collecting("children") /\ Top.todo = {} /\ ~ (Top.nr > 0 /\ Top.att > 0)
  /\ ChildrenFailed(Top)
  /\ CollectError

collect_pstree ==
  \/ SeizeRoot
  \/ ThreadsPass \/ seize_threads \/ collect_threads \/ ThreadsError
  \/ ChildrenPass \/ get_children \/ collect_task \/ ChildrenError

FreezeInit ==
  /\ proc \in Trees
  /\ traced = {} /\ trapped = {} /\ events = 0
  /\ items = <<>> /\ stack = <<>> /\ seizing = NoSeize /\ froze = "no"
=============================================================================
