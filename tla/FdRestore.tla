------------------------------ MODULE FdRestore ------------------------------
(***************************************************************************)
(* Shared files.  A file that several tasks (or several descriptors) have  *)
(* open is created by one of them, its master, who sends it to the others  *)
(* over transport sockets that sit in the very descriptors the file goes   *)
(* to.  The ends of a pipe, of a socketpair and of a pty are made by one   *)
(* creator and sent to the masters of the other ends in the same way.      *)
(* files.c has the protocol; pipes.c, sk-unix.c, tty.c and eventpoll.c     *)
(* hook into it.                                                           *)
(*                                                                         *)
(* A run starts from every assignment of the files to descriptors of the   *)
(* tasks.  The tasks restore their descriptors each on their own.          *)
(***************************************************************************)
EXTENDS Integers, FiniteSets, Sequences, SequencesExt, FiniteSetsExt

CONSTANTS
  Pids,     \* of the tasks
  Fds,      \* the descriptors the images speak of
  Files,    \* the ids of the open files
  NoFile,
  Kind,     \* Kind[f]: what file f is
  Group,    \* Group[f]: pipe_id, the pair or the pty index; 0 when alone
  Peer,     \* Peer[f]: the socket f is to be connected to, or NoFile
  Systems   \* the systems a run is about: their tasks, the files they may have
            \* open, the tasks cloned with CLONE_FILES that share one table (or
            \* none) and the leader of the session of the pty (0: it has none)

Kinds == {"pipe", "pair", "ptmx", "pts", "listen", "stream", "dgram", "epoll"}

\* What may be in a descriptor besides a file.
Free == "free"
Transport == "transport"
Temporary == "temporary"

\* Pipes, pairs and ptys have groups of their own, and a pty has one master end.
MadeTogether(f, g) ==
  \/ Kind[f] = Kind[g] /\ Kind[f] \in {"pipe", "pair", "pts"}
  \/ {Kind[f], Kind[g]} = {"ptmx", "pts"}

ASSUME FdRestoreAssumption ==
  /\ Pids \subseteq Nat \ {0} /\ IsFiniteSet(Pids)
  /\ Fds \subseteq Nat /\ IsFiniteSet(Fds)
  /\ NoFile \notin Files /\ NoFile \notin Fds
  /\ {Free, Transport, Temporary} \cap Files = {}
  /\ Kind \in [Files -> Kinds]
  /\ Group \in [Files -> Nat]
  /\ Peer \in [Files -> Files \cup {NoFile}]
  /\ \A f, g \in Files : f # g /\ Group[f] = Group[g] /\ Group[f] # 0 => MadeTogether(f, g)
  /\ \A s \in Systems :
       /\ s.tasks \subseteq Pids /\ s.files \subseteq Files
       /\ s.sharers \subseteq s.tasks /\ Cardinality(s.sharers) # 1
       /\ s.leader \in s.tasks \cup {0}

VARIABLES
  sys,       \* which of the systems it is
  image,     \* the FDINFO images: [task -> [fd -> file]]
  heads,     \* fd_info_head of the files, sorted lists of fdinfo_list_entries
  rst,       \* what root_prepare_shared() made of them before the fork
  table,     \* the descriptor tables of the tasks (of the owner, when shared)
  real_pid,  \* fdinfo_list_entries whose transport is up
  inbox,     \* the file queued on the transport of an entry
  pc,        \* where the tasks are
  step,      \* which step of its plan a task in prepare_fds() is at
  jobs,      \* the entries a task in open_fd() has yet to send the file to
  fdt_lock,  \* fdt->fdt_lock
  temp,      \* the descriptor a sharer uses for itself, outside prepare_fds()
  bound, listening,  \* unix sockets with a name, and the ones that accept
  connected, \* unix sockets connected by post_open
  watched,   \* what was in the descriptors that an epoll file was given
  ctty,      \* tasks that got their controlling terminal
  failed     \* tasks whose prepare_fds() returned an error

vars == <<sys, image, heads, rst, table, real_pid, inbox, pc, step, jobs, fdt_lock, temp,
          bound, listening, connected, watched, ctty, failed>>
protocolVars == <<real_pid, inbox>>
imageVars == <<sys, image, heads, rst>>
effectVars == <<bound, listening, connected, watched, ctty>>

Tasks == sys.tasks
Sharers == sys.sharers
leader == sys.leader

CTL_TTY == IF Fds = {} THEN 0 ELSE Max(Fds) + 1  \* the service descriptor

-----------------------------------------------------------------------------
(* The lists criu builds before the fork *)

\* shared_fdt_prepare(): the sharer with the least pid restores the table.
pid_rst_prio(a, b) == a < b
FdtPid(t) == IF t \in Sharers
             THEN CHOOSE o \in Sharers : \A s \in Sharers \ {o} : pid_rst_prio(o, s)
             ELSE t
Owners == {FdtPid(t) : t \in Tasks}

\* The terminal of the leader's session: it gets one more entry, for a service
\* descriptor.
PtmxOf(img) ==
  {f \in Files : /\ leader # 0 /\ Kind[f] = "ptmx"
                 /\ \E t \in Owners, fd \in Fds : img[t][fd] = f}

\* The fdinfo_list_entries, and the file each of them is for.
Fles(img) ==
  {fle \in Owners \X Fds : img[fle[1]][fle[2]] # NoFile}
    \cup {<<leader, CTL_TTY>> : f \in PtmxOf(img)}
desc(img, fle) == IF fle[2] = CTL_TTY THEN CHOOSE f \in PtmxOf(img) : TRUE
                  ELSE img[fle[1]][fle[2]]

fdinfo_rst_prio(a, b) == pid_rst_prio(a[1], b[1]) \/ (a[1] = b[1] /\ a[2] < b[2])
Sorted(fles) ==
  [i \in 1 .. Cardinality(fles) |->
     CHOOSE fle \in fles : Cardinality({b \in fles : fdinfo_rst_prio(b, fle)}) = i - 1]

\* collect_fd() keeps the entries of a file sorted.
fd_info_head(img, f) == Sorted({fle \in Fles(img) : desc(img, fle) = f})

Present == {f \in Files : heads[f] # <<>>}
file_master(f) == Head(heads[f])

\* The files that are made together with f.
Siblings(f) ==
  {g \in Present \ {f} : Group[f] # 0 /\ Group[g] = Group[f]}
FirstOfGroup(f) ==
  \A g \in Siblings(f) : fdinfo_rst_prio(file_master(f), file_master(g))

mark_pipe_master(f) == FirstOfGroup(f)

\* Mutant: the end with the greater entry makes the pair.
resolve_unix_peers_Last(f) ==
  \A g \in Siblings(f) : fdinfo_rst_prio(file_master(g), file_master(f))
resolve_unix_peers(f) == FirstOfGroup(f)

tty_setup_slavery(f) ==
  \/ Kind[f] = "ptmx"
  \/ FirstOfGroup(f) /\ \A g \in Siblings(f) : Kind[g] # "ptmx"

\* Whether the master of f makes the file, or gets it from another master.
create(f) ==
  CASE Kind[f] = "pipe" -> mark_pipe_master(f)
    [] Kind[f] = "pair" -> resolve_unix_peers(f)
    [] Kind[f] \in {"ptmx", "pts"} -> tty_setup_slavery(f)
    [] OTHER -> TRUE

\* Entries whose descriptor holds a transport socket.
should_open_transport(f) == ~create(f)
WantsTransport(fle, f) ==
  LET m == file_master(f)
  IN  m[1] # fle[1] \/ (m = fle /\ should_open_transport(f))

\* Mutant: ttys have no post_open callback.
HasPostOpen_NoTty(f) == Kind[f] \in {"pair", "listen", "stream", "dgram", "epoll"}
HasPostOpen(f) == Kind[f] \in {"pair", "listen", "stream", "dgram", "ptmx", "pts", "epoll"}

\* Whether a callback of states[] does anything for the entry of file f.
\* "receive" and "post_create" are skipped when no entry asked for them.
Works(state, fle, f) ==
  LET m == file_master(f)
  IN  CASE state = "prepare" -> WantsTransport(fle, f)
        [] state = "create" -> fle = m
        [] state = "receive" -> m[1] # fle[1]
        [] OTHER -> HasPostOpen(f) /\ (fle = m \/ fle[2] = CTL_TTY)

\* The order in which prepare_fds() goes over the entries of a task there is
\* something to do for.
Entries(t, state, kinds) ==
  Sorted({fle \in Fles(image) : /\ fle[1] = t /\ Kind[desc(image, fle)] \in kinds
                                /\ Works(state, fle, desc(image, fle))})
\* Mutant: the slave ends of ttys go with the other files.
ps_list_NoTtyList(t, state) ==
  Entries(t, state, Kinds \ {"epoll"}) \o Entries(t, state, {"epoll"})
ps_list(t, state) ==
  Entries(t, state, Kinds \ {"pts", "epoll"}) \o Entries(t, state, {"pts"}) \o Entries(t, state, {"epoll"})

\* Mutant: post_create comes before receive.
states_Swapped == <<"prepare", "create", "post_create", "receive">>
states == <<"prepare", "create", "receive", "post_create">>

\* What there is to do for a task: the callbacks state by state, list by list.
InState(t, state) ==
  LET list == ps_list(t, state)
  IN  [i \in DOMAIN list |-> <<state, list[i]>>]
plan(t) == InState(t, states[1]) \o InState(t, states[2]) \o InState(t, states[3]) \o InState(t, states[4])

\* Whom the maker of a file sends the other ends to, which masters make their
\* files, and what the tasks have to do.
NoLists == [creators |-> {}, siblings |-> <<>>, plan |-> <<>>]
Lists ==
  [creators |-> {f \in Present : create(f)},
   siblings |-> [f \in Files |-> Sorted({file_master(g) : g \in Siblings(f)})],
   plan |-> [t \in Tasks |-> plan(t)]]

-----------------------------------------------------------------------------
\* What a task had from criu is closed but for the service descriptors.
close_old_fds == [t \in Owners |-> [fd \in Fds \cup {CTL_TTY} |-> Free]]

Init ==
  /\ sys \in Systems
  /\ image \in [Owners -> [Fds -> sys.files \cup {NoFile}]]
  /\ heads = [f \in Files |-> fd_info_head(image, f)]
  /\ rst = NoLists
  /\ table = close_old_fds
  /\ real_pid = {}
  /\ inbox = [fle \in Tasks \X (Fds \cup {CTL_TTY}) |-> NoFile]
  /\ pc = [t \in Tasks |-> "unborn"]
  /\ step = [t \in Tasks |-> 1]
  /\ jobs = [t \in Tasks |-> <<>>]
  /\ fdt_lock = 0
  /\ temp = [t \in Tasks |-> NoFile]
  /\ bound = {} /\ listening = {} /\ connected = {}
  /\ watched = [f \in Files |-> {}]
  /\ ctty = {}
  /\ failed = {}

\* The step task t is at, with the file and the table concerned.
AtStep(t, state) ==
  pc[t] = "loop" /\ step[t] <= Len(rst.plan[t]) /\ rst.plan[t][step[t]][1] = state
Fle(t) == rst.plan[t][step[t]][2]
File(t) == desc(image, Fle(t))
Here(t) == table[FdtPid(t)][Fle(t)[2]]

Advance(t) == step' = [step EXCEPT ![t] = @ + 1] /\ UNCHANGED <<pc, failed>>
Fail(t) == pc' = [pc EXCEPT ![t] = "out"] /\ failed' = failed \cup {t} /\ UNCHANGED step

-----------------------------------------------------------------------------
(* The root task, before it forks the others *)

root_prepare_shared ==
  /\ \A t \in Tasks : pc[t] = "unborn"
  /\ rst' = Lists
  /\ pc' = [t \in Tasks |-> "before"]
  /\ UNCHANGED <<sys, image, heads, table, protocolVars, step, jobs, fdt_lock, temp,
                 effectVars, failed>>

-----------------------------------------------------------------------------
(* A sharer's own descriptors: it reads images before and after prepare_fds() *)

UseFd(t) ==
  /\ t \in Sharers /\ pc[t] \in {"before", "done"} /\ temp[t] = NoFile
  /\ \E fd \in Fds :
       /\ table[FdtPid(t)][fd] = Free
       /\ \A lower \in Fds : lower < fd => table[FdtPid(t)][lower] # Free
       /\ table' = [table EXCEPT ![FdtPid(t)][fd] = Temporary]
       /\ temp' = [temp EXCEPT ![t] = fd]
  /\ UNCHANGED <<imageVars, protocolVars, pc, step, jobs, fdt_lock, effectVars, failed>>

DropFd(t) ==
  /\ temp[t] # NoFile
  /\ table' = [table EXCEPT ![FdtPid(t)][temp[t]] = Free]
  /\ temp' = [temp EXCEPT ![t] = NoFile]
  /\ UNCHANGED <<imageVars, protocolVars, pc, step, jobs, fdt_lock, effectVars, failed>>

(* prepare_fds() *)

FdtNr == Cardinality(Sharers)

futex_inc(t) == IF t \in Sharers THEN fdt_lock + 1 ELSE fdt_lock

EnterFds(t) ==
  /\ pc[t] = "before" /\ temp[t] = NoFile
  /\ pc' = [pc EXCEPT ![t] = IF t \in Sharers THEN "barrier" ELSE "loop"]
  /\ fdt_lock' = futex_inc(t)
  /\ UNCHANGED <<imageVars, table, protocolVars, step, jobs, temp, effectVars, failed>>

\* Mutant: the owner does not wait for the sharers.
AllAtBarrier_Not == TRUE
AllAtBarrier == fdt_lock >= FdtNr
Barrier(t) ==
  /\ pc[t] = "barrier" /\ AllAtBarrier
  /\ pc' = [pc EXCEPT ![t] = IF FdtPid(t) = t THEN "loop" ELSE "wait"]
  /\ UNCHANGED <<imageVars, table, protocolVars, step, jobs, fdt_lock, temp, effectVars, failed>>

\* Mutant: off by one.
TableRestored_Early == fdt_lock = FdtNr
TableRestored == fdt_lock = FdtNr + 1
WaitTable(t) ==
  /\ pc[t] = "wait" /\ TableRestored
  /\ pc' = [pc EXCEPT ![t] = "done"]
  /\ UNCHANGED <<imageVars, table, protocolVars, step, jobs, fdt_lock, temp, effectVars, failed>>

LeaveFds(t) ==
  /\ pc[t] = "out" \/ (pc[t] = "loop" /\ step[t] > Len(rst.plan[t]))
  /\ pc' = [pc EXCEPT ![t] = "done"]
  /\ fdt_lock' = futex_inc(t)
  /\ UNCHANGED <<imageVars, table, protocolVars, step, jobs, temp, effectVars, failed>>

-----------------------------------------------------------------------------
(* "prepare" *)

\* reopen_fd_as() refuses a descriptor that is in use.
open_transport_fd(t) ==
  /\ AtStep(t, "prepare")
  /\ IF Here(t) = Free
     THEN /\ table' = [table EXCEPT ![FdtPid(t)][Fle(t)[2]] = Transport]
          /\ real_pid' = real_pid \cup {Fle(t)}
          /\ Advance(t)
     ELSE Fail(t) /\ UNCHANGED <<table, real_pid>>
  /\ UNCHANGED <<imageVars, inbox, jobs, fdt_lock, temp, effectVars>>

-----------------------------------------------------------------------------
(* "create" *)

\* The sends of serve_out_fd(); the descriptors of the task itself come first
\* in the list and are dup()ed without waiting for anything.
ServePeers(t) == Sorted({fle \in ToSet(heads[File(t)]) : fle[1] # t})
\* Mutant: the file goes to the master's descriptor only.
WithDups_Not(t, file) == [table[t] EXCEPT ![Fle(t)[2]] = file]
WithDups(t, file) ==
  [fd \in DOMAIN table[t] |->
     IF <<t, fd>> \in ToSet(heads[File(t)]) THEN file ELSE table[t][fd]]

\* The end of open_fd(): the file goes to its descriptor, if that is free once
\* the transport in it is closed, and then to the others.
Install(t, file, here) ==
  IF here = Free
  THEN /\ table' = [table EXCEPT ![t] = WithDups(t, file)]
       /\ jobs' = [jobs EXCEPT ![t] = ServePeers(t)]
       /\ pc' = [pc EXCEPT ![t] = IF ServePeers(t) = <<>> THEN "loop" ELSE "serve"]
       /\ step' = IF ServePeers(t) = <<>> THEN [step EXCEPT ![t] = @ + 1] ELSE step
       /\ UNCHANGED failed
  ELSE Fail(t) /\ UNCHANGED <<table, jobs>>

\* A file that another master makes: recv_fd() on the transport.
recv_fd(t) ==
  /\ inbox[Fle(t)] # NoFile
  /\ Install(t, inbox[Fle(t)], Free)
  /\ inbox' = [inbox EXCEPT ![Fle(t)] = NoFile]
  /\ UNCHANGED <<imageVars, real_pid, fdt_lock, temp, effectVars>>

recv_pipe_fd(t) == Kind[File(t)] = "pipe" /\ recv_fd(t)
open_unixsk_pair_slave(t) == Kind[File(t)] = "pair" /\ recv_fd(t)
receive_tty(t) == Kind[File(t)] = "pts" /\ recv_fd(t)

open_fd_slave(t) ==
  /\ AtStep(t, "create") /\ File(t) \notin rst.creators
  /\ recv_pipe_fd(t) \/ open_unixsk_pair_slave(t) \/ receive_tty(t)

\* A file of its own, and the ends that others wait for.
SendEnds(t) ==
  /\ jobs' = [jobs EXCEPT ![t] = rst.siblings[File(t)]]
  /\ pc' = [pc EXCEPT ![t] = "opening"]
  /\ UNCHANGED <<imageVars, table, protocolVars, step, fdt_lock, temp,
                 listening, connected, watched, ctty, failed>>

open_pipe(t) == Kind[File(t)] = "pipe" /\ SendEnds(t) /\ UNCHANGED bound
open_unixsk_pair_master(t) == Kind[File(t)] = "pair" /\ SendEnds(t) /\ UNCHANGED bound

\* The slave ends go to their masters; a slave without its master end is
\* opened through a master that is closed again.
pty_open_slaves(t) == SendEnds(t) /\ UNCHANGED bound
pty_open_ptmx(t) == Kind[File(t)] = "ptmx" /\ pty_open_slaves(t)
pty_open_unpaired_slave(t) == Kind[File(t)] = "pts" /\ pty_open_slaves(t)

\* bind_unix_sk() announces the name at once.
bind_unix_sk(t) ==
  /\ Kind[File(t)] \in {"listen", "stream", "dgram"}
  /\ bound' = bound \cup {f \in {File(t)} : Kind[f] # "stream"}
  /\ SendEnds(t)
eventpoll_open(t) == Kind[File(t)] = "epoll" /\ SendEnds(t) /\ UNCHANGED bound

open_fd_master(t) ==
  /\ AtStep(t, "create") /\ File(t) \in rst.creators
  /\ \/ open_pipe(t) \/ open_unixsk_pair_master(t) \/ pty_open_ptmx(t) \/ pty_open_unpaired_slave(t)
     \/ bind_unix_sk(t) \/ eventpoll_open(t)

open_fd_made(t) ==
  /\ pc[t] = "opening" /\ jobs[t] = <<>>
  /\ listening' = listening \cup {f \in {File(t)} : Kind[f] = "listen"}
  /\ Install(t, File(t), Here(t))
  /\ UNCHANGED <<imageVars, protocolVars, fdt_lock, temp, bound, connected, watched, ctty>>

\* To the masters of the other ends ("opening"), to the others who have the
\* file ("serve").
TransportUp(to) == to \in real_pid
send_fd_to_peer(t) ==
  /\ pc[t] \in {"opening", "serve"} /\ jobs[t] # <<>>
  /\ LET to == Head(jobs[t])
         last == pc[t] = "serve" /\ Len(jobs[t]) = 1
     IN  /\ TransportUp(to)
         /\ IF table[FdtPid(to[1])][to[2]] = Transport
            THEN /\ inbox' = [inbox EXCEPT ![to] =
                      IF pc[t] = "opening" THEN desc(image, to) ELSE Here(t)]
                 /\ jobs' = [jobs EXCEPT ![t] = Tail(@)]
                 /\ pc' = IF last THEN [pc EXCEPT ![t] = "loop"] ELSE pc
                 /\ step' = IF last THEN [step EXCEPT ![t] = @ + 1] ELSE step
                 /\ UNCHANGED failed
            ELSE Fail(t) /\ UNCHANGED <<inbox, jobs>>
  /\ UNCHANGED <<imageVars, table, real_pid, fdt_lock, temp, effectVars>>

-----------------------------------------------------------------------------
(* "receive" and "post_create" *)

receive_fd(t) ==
  /\ AtStep(t, "receive") /\ inbox[Fle(t)] # NoFile
  /\ table' = [table EXCEPT ![FdtPid(t)][Fle(t)[2]] = inbox[Fle(t)]]
  /\ inbox' = [inbox EXCEPT ![Fle(t)] = NoFile]
  /\ Advance(t)
  /\ UNCHANGED <<imageVars, real_pid, jobs, fdt_lock, temp, effectVars>>

\* post_open_unix_sk().  A name is enough for a datagram socket, a stream
\* socket is refused unless the other one listens.
\* Mutant: connect() without waiting for the name.
PeerBound_NoWait(f) == TRUE
PeerBound(f) == Peer[f] \in Present => Peer[f] \in bound
Refused(f) ==
  /\ Peer[f] \in Present
  /\ Peer[f] \notin IF Kind[f] = "stream" THEN listening ELSE bound
post_open_unix_sk(t) ==
  /\ AtStep(t, "post_create") /\ Kind[File(t)] \in {"stream", "dgram"}
  /\ IF Peer[File(t)] = NoFile
     THEN Advance(t) /\ UNCHANGED connected
     ELSE /\ PeerBound(File(t))
          /\ IF Refused(File(t)) THEN Fail(t) /\ UNCHANGED connected
             ELSE Advance(t) /\ connected' = connected \cup {File(t)}
  /\ UNCHANGED <<imageVars, table, protocolVars, jobs, fdt_lock, temp,
                 bound, listening, watched, ctty>>

\* The epoll file watches the other descriptors of its master.
eventpoll_post_open(t) ==
  /\ AtStep(t, "post_create") /\ Kind[File(t)] = "epoll"
  /\ watched' = [watched EXCEPT ![File(t)] =
       {table[t][fd] : fd \in {fd \in Fds : image[t][fd] \notin {NoFile, File(t)}}}]
  /\ Advance(t)
  /\ UNCHANGED <<imageVars, table, protocolVars, jobs, fdt_lock, temp,
                 bound, listening, connected, ctty>>

\* The session's leader opens the pty's slave end as its terminal, and is done
\* with the service descriptor.  Other post_open callbacks do nothing.
tty_restore_ctl_terminal(t) ==
  /\ AtStep(t, "post_create")
  /\ Kind[File(t)] \in {"pair", "listen", "ptmx", "pts"}
  /\ IF Fle(t)[2] = CTL_TTY
     THEN /\ ctty' = ctty \cup {t}
          /\ table' = [table EXCEPT ![FdtPid(t)][CTL_TTY] = Free]
     ELSE UNCHANGED <<ctty, table>>
  /\ Advance(t)
  /\ UNCHANGED <<imageVars, protocolVars, jobs, fdt_lock, temp,
                 bound, listening, connected, watched>>

-----------------------------------------------------------------------------
TaskStep(t) ==
  \/ DropFd(t) \/ Barrier(t) \/ WaitTable(t) \/ LeaveFds(t)
  \/ open_transport_fd(t)
  \/ open_fd_slave(t) \/ open_fd_master(t) \/ open_fd_made(t) \/ send_fd_to_peer(t)
  \/ receive_fd(t)
  \/ post_open_unix_sk(t) \/ eventpoll_post_open(t) \/ tty_restore_ctl_terminal(t)

AllDone == \A t \in Tasks : pc[t] = "done"
Next == root_prepare_shared \/ \E t \in Tasks : UseFd(t) \/ EnterFds(t) \/ TaskStep(t)

Spec == Init /\ [][Next]_vars

\* Tasks are scheduled.  A sharer opens finitely many descriptors of its own
\* before prepare_fds(), hence strong fairness of entering it.
FairSpec ==
  Spec /\ WF_vars(root_prepare_shared)
       /\ \A t \in Pids : /\ WF_vars(t \in Tasks /\ TaskStep(t))
                          /\ SF_vars(t \in Tasks /\ EnterFds(t))

-----------------------------------------------------------------------------
(* Properties *)

\* No descriptor a task restores is found in use (reopen_fd_as), and every send
\* finds its transport socket in place.
NobodyFails == failed = {}

\* A task that has left prepare_fds() has in each descriptor the file that the
\* image has there, and no transport socket is left behind; the service
\* descriptor is closed again.
TablesInPlace ==
  \A t \in Owners : pc[t] = "done" =>
    /\ \A fd \in Fds : image[t][fd] # NoFile => table[t][fd] = image[t][fd]
    /\ \A fd \in Fds : image[t][fd] = NoFile => table[t][fd] \in {Free, Temporary}
    /\ table[t][CTL_TTY] = Free

\* eventpoll_post_open() is given descriptors that hold their final files.
EpollSeesFiles ==
  \A f \in Files : watched[f] \cap {Free, Transport, Temporary} = {}

\* Whatever its task, a session's leader that has left prepare_fds() has the
\* terminal of the session.
LeaderHasTerminal ==
  leader # 0 => (pc[leader] = "done" /\ PtmxOf(image) # {} => leader \in ctty)

\* Every table, every watch of an eventpoll and every controlling terminal that
\* prepare_fds() leaves behind is as in the image (files.c:886-950).
FilesInPlace == TablesInPlace /\ EpollSeesFiles /\ LeaderHasTerminal

\* Nobody waits for ever for a file, a transport, a name or the table: whoever
\* waits for a file to appear receives one (files.c, above file_master).
EverybodyRestored == <>AllDone
=============================================================================
