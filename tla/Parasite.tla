------------------------------ MODULE Parasite ------------------------------
(***************************************************************************)
(* The parasite.  criu maps a blob into a frozen task, lets the task run   *)
(* it as a daemon with all signals blocked, talks to it over a socket and  *)
(* finally makes it return to where it was and unmaps the blob             *)
(* (parasite-syscall.c for the side of criu, pie/parasite.c for the blob). *)
(*                                                                         *)
(* One task is infected at a time.  Messages on the socket are records     *)
(* [cmd, err]; the socket delivers them in order.                          *)
(***************************************************************************)
EXTENDS Freeze

VARIABLES
  code,    \* what a task executes: its own code or a part of the parasite
  mem,     \* what the parasite has done to its memory
  masked,  \* tasks that have all signals blocked
  ctl,     \* the parasite_ctl
  sock     \* the control sockets: the messages queued each way, whether criu has
           \* closed its end, whether the daemon shut its own down after an error

parasiteVars == <<code, mem, masked, ctl, sock>>

NoCtl == [task |-> 0, daemonized |-> FALSE]
NoSock == [peer |-> FALSE, down |-> <<>>, up |-> <<>>, shut |-> FALSE, closed |-> FALSE,
           refuse |-> FALSE]

ParasiteInit ==
  /\ code = [p \in Pids |-> "own"]
  /\ mem = [p \in Pids |-> {}]
  /\ masked = {} /\ ctl = NoCtl /\ sock = [p \in Pids |-> NoSock]

-----------------------------------------------------------------------------
(* The side of criu.  Operations on a task that is trapped. *)

\* parasite_prep_ctl() and parasite_map_exchange(): a mmap() the task is made
\* to execute; it is trapped again, with its own code and registers, afterwards.
parasite_map_exchange(p) ==
  /\ ctl' = [NoCtl EXCEPT !.task = p]
  /\ mem' = [mem EXCEPT ![p] = @ \cup {"blob"}]
  /\ UNCHANGED <<code, masked, sock, trapped>>

\* parasite_start_daemon(), parasite_init_daemon(): the task runs the blob.
parasite_run(p) ==
  /\ code' = [code EXCEPT ![p] = "connect"]
  /\ masked' = masked \cup {p}
  /\ trapped' = trapped \ {p}
  /\ sock' = [sock EXCEPT ![p] = NoSock]
  /\ UNCHANGED <<mem, ctl>>

\* accept_tsock() and parasite_send_fd() of the log.
accept_tsock ==
  /\ sock[ctl.task].peer
  /\ sock' = [sock EXCEPT ![ctl.task].down = Append(@, "log")]
  /\ UNCHANGED <<code, mem, masked, ctl>>

\* The ack of PARASITE_CMD_INIT_DAEMON.
Daemonized ==
  /\ sock[ctl.task].up # <<>> /\ Head(sock[ctl.task].up).cmd = "init"
  /\ sock' = [sock EXCEPT ![ctl.task].up = Tail(@)]
  /\ ctl' = [ctl EXCEPT !.daemonized = TRUE]
  /\ UNCHANGED <<code, mem, masked>>

\* __parasite_execute_daemon()
parasite_send_cmd(cmd) ==
  /\ sock' = [sock EXCEPT ![ctl.task].down = Append(@, cmd)]
  /\ UNCHANGED <<code, mem, masked, ctl>>

\* __parasite_wait_daemon_ack(): it returns with the ack, or with the end of
\* the stream when the daemon has shut its side down.
AckArrived == sock[ctl.task].up # <<>> \/ sock[ctl.task].shut
AckIsError(cmd) ==
  LET up == sock[ctl.task].up IN up = <<>> \/ Head(up).cmd # cmd \/ Head(up).err
TakeAck == sock' = [sock EXCEPT ![ctl.task].up = IF @ = <<>> THEN @ ELSE Tail(@)]

\* parasite_fini_seized(): the daemon is interrupted and goes on under
\* PTRACE_SYSCALL; FINI is sent and the socket closed.
parasite_fini_seized ==
  /\ sock' = [sock EXCEPT ![ctl.task].down = Append(@, "FINI"), ![ctl.task].closed = TRUE]
  /\ UNCHANGED <<code, mem, masked, ctl>>

\* parasite_unmap(): the blob unmaps itself, the task is trapped on the exit
\* from munmap() and gets its registers and its mask back.
parasite_unmap(p) ==
  /\ mem' = [mem EXCEPT ![p] = @ \ {"blob"}]
  /\ ctl' = NoCtl
  /\ UNCHANGED <<code, masked, sock, trapped>>

-----------------------------------------------------------------------------
(* The side of the blob *)

InBlob(p) == Alive(p) /\ p \notin trapped /\ code[p] # "own"

\* parasite_init_daemon(): connects, waits for the log, replies it is alive.
DaemonConnect(p) ==
  /\ InBlob(p) /\ code[p] = "connect" /\ ~ sock[p].peer /\ ~ sock[p].closed
  /\ sock' = [sock EXCEPT ![p].peer = TRUE]
  /\ UNCHANGED <<code, mem, masked, ctl, kernelVars>>

reply_ack(cmd, err) == [cmd |-> cmd, err |-> err]

DaemonStart(p) ==
  /\ InBlob(p) /\ code[p] = "connect" /\ sock[p].down # <<>> /\ Head(sock[p].down) = "log"
  /\ code' = [code EXCEPT ![p] = "daemon"]
  /\ sock' = [sock EXCEPT ![p].down = Tail(@),
                          ![p].up = Append(@, reply_ack("init", FALSE))]
  /\ UNCHANGED <<mem, masked, ctl, kernelVars>>

\* fini(): undoes the mprotect() and returns with rt_sigreturn to the task's
\* own code and signal mask.  It is trapped on the way, if criu traces it.
fini_leaves_prot(p) ==
  /\ code' = [code EXCEPT ![p] = "own"]
  /\ masked' = masked \ {p}
  /\ trapped' = IF p \in traced THEN trapped \cup {p} ELSE trapped
  /\ UNCHANGED mem
fini(p) ==
  /\ mem' = [mem EXCEPT ![p] = @ \ {"prot"}]
  /\ code' = [code EXCEPT ![p] = "own"]
  /\ masked' = masked \ {p}
  /\ trapped' = IF p \in traced THEN trapped \cup {p} ELSE trapped

\* What a command does to the memory of the task.
MemAfter(m, cmd) ==
  CASE cmd = "protect" -> m \cup {"prot"}
    [] cmd = "unprotect" -> m \ {"prot"}
    [] OTHER -> m

\* A command that fails is acknowledged with its error and the socket is shut
\* down for writing; the later ones are rejected without a reply.
Reject(p, cmd) == sock[p].refuse /\ cmd # "FINI"
ShutAfterError(s, err) == s.shut \/ err
FiniSent(p) == \E i \in DOMAIN sock[p].down : sock[p].down[i] = "FINI"
DaemonCmd(p, err) ==
  /\ InBlob(p) /\ code[p] = "daemon" /\ sock[p].down # <<>>
  /\ sock[p].closed => FiniSent(p)
  /\ LET cmd == Head(sock[p].down)
     IN  /\ cmd # "FINI"
         /\ IF Reject(p, cmd)
              THEN /\ sock' = [sock EXCEPT ![p].down = Tail(@)]
                   /\ UNCHANGED mem
              ELSE /\ mem' = [mem EXCEPT ![p] = MemAfter(@, cmd)]
                   /\ sock' = [sock EXCEPT ![p] =
                        [@ EXCEPT !.down = Tail(@),
                                  !.up = Append(@, reply_ack(cmd, err)),
                                  !.shut = ShutAfterError(sock[p], err),
                                  !.refuse = err]]
  /\ UNCHANGED <<code, masked, ctl, kernelVars>>

\* FINI, or the end of the stream when criu is gone.
DaemonFini(p) ==
  /\ InBlob(p)
  /\ \/ sock[p].down # <<>> /\ Head(sock[p].down) = "FINI" /\ code[p] = "daemon"
     \/ sock[p].closed /\ ~ FiniSent(p)
  /\ sock' = [sock EXCEPT ![p].down = IF @ = <<>> THEN @ ELSE Tail(@)]
  /\ fini(p)
  /\ UNCHANGED <<ctl, proc, traced, events>>
=============================================================================
