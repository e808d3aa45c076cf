------------------------------ MODULE Service ------------------------------
(***************************************************************************)
(* The RPC service (cr-service.c), its client library (lib/criu.c) and the *)
(* service's own sockets in the tasks it dumps (sk-unix.c).                *)
(*                                                                         *)
(* A server accepts connections and forks a worker for each; the worker    *)
(* reads one request, dumps, restores or checks, answers and exits, and    *)
(* the server's SIGCHLD handler reaps it.  A client may ask to be dumped   *)
(* itself: its end of the connection is then dumped by a mark, and the     *)
(* restored client finds an answer in it that nobody sent.  How a tree is  *)
(* frozen, dumped and restored is in DumpTree and RestoreStages; here a    *)
(* tree is one task, and a dump or a restore may fail for any reason.      *)
(***************************************************************************)
EXTENDS Naturals, FiniteSets, Sequences, SequencesExt

CONSTANTS
  Clients,    \* tasks that use the library, and may be dumped
  Root,       \* those that run as root; the others have each a uid of their own
  Dirs,       \* image directories
  Programs,   \* the requests each client makes, one after the other
  MaxConns,   \* connections made
  MaxCrashes, \* exits of the server
  Mortal,     \* clients that may exit or be killed
  NoPid       \* a request with no pid

Requests == [type : {"DUMP", "RESTORE", "CHECK", "OTHER"}, pid : Clients \cup {NoPid}, leave : BOOLEAN, dir : Dirs]

ASSUME ServiceAssumption ==
  /\ Root \subseteq Clients /\ Mortal \subseteq Clients /\ NoPid \notin Clients
  /\ \A p \in Programs : \A c \in Clients : p[c] \in Seq(Requests)
  /\ MaxConns \in Nat /\ MaxCrashes \in Nat

VARIABLES
  prog,    \* the requests of this run
  task,    \* the tasks: "run", "frozen", "dead", "forked" (being restored)
  by,      \* the worker that traces or restores a task, or 0
  from,    \* the worker whose images a task was restored from, or 0
  lib,     \* where a client is in its call
  res,     \* what its last call returned
  conn,    \* connections, in the order of connect()
  backlog, \* those that wait for accept()
  server,  \* the server process
  worker,  \* the worker of each connection
  imgs,    \* the image directories
  fate     \* what came of a request, whatever the answer says

vars == <<prog, task, by, from, lib, res, conn, backlog, server, worker, imgs, fate>>
taskVars == <<prog, task, by, from, imgs>>
serverVars == <<server, backlog>>

Ids == 1..MaxConns
Idle(n) == [pc |-> "idle", n |-> n, id |-> 0, sk |-> 0]
NoImage == [done |-> FALSE]
Nothing == [type |-> "none"]

Init ==
  /\ prog \in Programs
  /\ task = [c \in Clients |-> "run"] /\ by = [c \in Clients |-> 0] /\ from = [c \in Clients |-> 0]
  /\ lib = [c \in Clients |-> Idle(0)]
  /\ res = [c \in Clients |-> [id |-> 0, val |-> "none"]]
  /\ conn = << >> /\ backlog = << >>
  /\ server = [pc |-> "down", sk |-> 0, hnd |-> FALSE, sig |-> FALSE, exits |-> 0]
  /\ worker = [i \in Ids |-> [pc |-> "none", ok |-> FALSE, child |-> TRUE, im |-> NoImage]]
  /\ imgs = [d \in Dirs |-> NoImage]
  /\ fate = [i \in Ids |-> "none"]

-----------------------------------------------------------------------------
(* The client library. *)

\* The server's end of a connection: who of the server and the worker has a
\* descriptor of it is in "held"; it is closed once nobody has.
HungUp(i) == i \notin Range(backlog) /\ conn[i].held = {}

\* The client's end goes with the client, and when the library closes it.
Left(cn, c) == IF lib[c].sk = 0 THEN cn ELSE [cn EXCEPT ![lib[c].sk].client = FALSE, ![lib[c].sk].resp = Nothing]

Return(c, val) ==
  /\ res' = [res EXCEPT ![c] = [id |-> lib[c].id, val |-> val]]
  /\ lib' = [lib EXCEPT ![c] = Idle(lib[c].n)]
  /\ conn' = Left(conn, c)
  /\ UNCHANGED taskVars

Listening == server.pc # "down"

criu_connect(c) ==
  /\ task[c] = "run" /\ lib[c].pc = "idle" /\ lib[c].n < Len(prog[c])
  /\ \/ /\ Listening /\ Len(conn) < MaxConns
        /\ conn' = Append(conn, [who |-> c, req |-> prog[c][lib[c].n + 1], sent |-> FALSE, resp |-> Nothing, held |-> {}, client |-> TRUE])
        /\ backlog' = Append(backlog, Len(conn'))
        /\ lib' = [lib EXCEPT ![c] = [pc |-> "send", n |-> lib[c].n + 1, id |-> Len(conn'), sk |-> Len(conn')]]
        /\ UNCHANGED res
     \/ /\ ~Listening
        /\ res' = [res EXCEPT ![c] = [id |-> 0, val |-> "ECONNREFUSED"]]
        /\ lib' = [lib EXCEPT ![c].n = @ + 1]
        /\ UNCHANGED <<conn, backlog>>
  /\ UNCHANGED <<taskVars, server, worker, fate>>

\* A write to a connection that was closed fails with EPIPE, or kills the
\* client when it does not ignore SIGPIPE.
send_req(c) ==
  /\ task[c] = "run" /\ lib[c].pc = "send"
  /\ \/ /\ ~HungUp(lib[c].sk)
        /\ conn' = [conn EXCEPT ![lib[c].sk].sent = TRUE]
        /\ lib' = [lib EXCEPT ![c].pc = "recv"]
        /\ UNCHANGED <<res, taskVars>>
     \/ HungUp(lib[c].sk) /\ Return(c, "ECOMM")
     \/ /\ HungUp(lib[c].sk)
        /\ task' = [task EXCEPT ![c] = "dead"]
        /\ lib' = [lib EXCEPT ![c] = Idle(lib[c].n)]
        /\ conn' = Left(conn, c)
        /\ UNCHANGED <<prog, by, from, imgs, res>>
  /\ UNCHANGED <<serverVars, worker, fate>>

\* criu_dump(), criu_restore() and criu_check() of a response.
Result(req, resp) ==
  IF resp.type = "EMPTY" THEN "EINVAL"
  ELSE IF resp.type # req.type THEN "EBADMSG"
  ELSE IF ~resp.success THEN "EBADE"
  ELSE IF resp.type = "RESTORE" THEN "pid"
  ELSE IF resp.type = "DUMP" /\ resp.restored THEN "restored" ELSE "ok"

\* The end of a pair that open_unixsk_standalone() made, and what it sent.
RestoredResp_dumped == [type |-> "DUMP", success |-> TRUE, restored |-> FALSE]
RestoredResp == [type |-> "DUMP", success |-> TRUE, restored |-> TRUE]
Pending(c) == IF lib[c].sk = 0 THEN RestoredResp ELSE conn[lib[c].sk].resp

recv_resp(c) ==
  /\ task[c] = "run" /\ lib[c].pc = "recv"
  /\ \/ Pending(c) # Nothing /\ Return(c, Result(conn[lib[c].id].req, Pending(c)))
     \/ Pending(c) = Nothing /\ HungUp(lib[c].sk) /\ Return(c, "ECOMM")
  /\ UNCHANGED <<serverVars, worker, fate>>

\* A client exits or is killed, by somebody else than criu.
Exit(c) ==
  /\ c \in Mortal /\ task[c] = "run"
  /\ task' = [task EXCEPT ![c] = "dead"]
  /\ lib' = [lib EXCEPT ![c] = Idle(lib[c].n)]
  /\ conn' = Left(conn, c)
  /\ UNCHANGED <<prog, by, from, imgs, res, serverVars, worker, fate>>

-----------------------------------------------------------------------------
(* The server. *)

\* The socket is bound to its name, from which what an earlier server left was
\* removed.  A start that fails in any of its steps leaves no server behind.
cr_service_start ==
  /\ server.pc = "down"
  /\ server' = [server EXCEPT !.pc = "accept"]
  /\ UNCHANGED <<taskVars, lib, res, conn, backlog, worker, fate>>

\* accept() and fork(); there may be no worker.
cr_service_accept ==
  /\ server.pc = "accept" /\ ~server.hnd /\ backlog # << >>
  /\ server' = [server EXCEPT !.pc = "close", !.sk = Head(backlog)]
  /\ backlog' = Tail(backlog)
  /\ \/ /\ worker' = [worker EXCEPT ![Head(backlog)].pc = "recv"]
        /\ conn' = [conn EXCEPT ![Head(backlog)].held = {"server", "worker"}]
     \/ /\ conn' = [conn EXCEPT ![Head(backlog)].held = {"server"}]
        /\ UNCHANGED worker
  /\ UNCHANGED <<taskVars, lib, res, fate>>

cr_service_close_keeps_sk ==
  /\ server.pc = "close" /\ ~server.hnd
  /\ server' = [server EXCEPT !.pc = "accept", !.sk = 0]
  /\ UNCHANGED <<taskVars, lib, res, conn, backlog, worker, fate>>

cr_service_close ==
  /\ server.pc = "close" /\ ~server.hnd
  /\ server' = [server EXCEPT !.pc = "accept", !.sk = 0]
  /\ conn' = [conn EXCEPT ![server.sk].held = @ \ {"server"}]
  /\ UNCHANGED <<taskVars, lib, res, backlog, worker, fate>>

\* SIGCHLD is one signal for any number of workers, and is blocked while its
\* handler runs.
sigchld ==
  /\ server.sig /\ ~server.hnd
  /\ server' = [server EXCEPT !.sig = FALSE, !.hnd = TRUE]
  /\ UNCHANGED <<taskVars, lib, res, conn, backlog, worker, fate>>

Zombies == {i \in Ids : worker[i].pc = "zombie"}

reap_worker_once ==
  /\ server.hnd
  /\ server' = [server EXCEPT !.hnd = FALSE]
  /\ \/ \E i \in Zombies : worker' = [worker EXCEPT ![i].pc = "gone"]
     \/ Zombies = {} /\ UNCHANGED worker
  /\ UNCHANGED <<taskVars, lib, res, conn, backlog, fate>>

reap_worker ==
  /\ server.hnd
  /\ \/ /\ \E i \in Zombies : worker' = [worker EXCEPT ![i].pc = "gone"]
        /\ UNCHANGED server
     \/ /\ Zombies = {}
        /\ server' = [server EXCEPT !.hnd = FALSE]
        /\ UNCHANGED worker
  /\ UNCHANGED <<taskVars, lib, res, conn, backlog, fate>>

\* The server exits when accept() fails, or is killed.  Its workers go on;
\* the connections that wait are reset; the name stays.
server_exit ==
  /\ Listening /\ server.exits < MaxCrashes
  /\ server' = [pc |-> "down", sk |-> 0, hnd |-> FALSE, sig |-> FALSE, exits |-> server.exits + 1]
  /\ conn' = [i \in DOMAIN conn |-> [conn[i] EXCEPT !.held = @ \ {"server"}]]
  /\ backlog' = << >>
  /\ worker' = [i \in Ids |-> IF worker[i].pc = "zombie" THEN [worker[i] EXCEPT !.pc = "gone"]
                              ELSE [worker[i] EXCEPT !.child = FALSE]]
  /\ UNCHANGED <<taskVars, lib, res, fate>>

-----------------------------------------------------------------------------
(* A worker.  It is named by its connection. *)

Client(i) == conn[i].who
Req(i) == conn[i].req
Step(i, pc) == worker' = [worker EXCEPT ![i].pc = pc]

\* The images directory is reached through /proc/pid/fd of the client.
setup_opts_from_req(i) == task[Client(i)] # "dead"

\* A request, or the end of file of a client that left before it sent one.
recv_criu_msg(i) ==
  IF conn[i].sent THEN {Req(i).type} ELSE IF conn[i].client THEN {} ELSE {"none"}

cr_service_work(i) ==
  /\ worker[i].pc = "recv"
  /\ \E type \in recv_criu_msg(i) :
       \/ type = "CHECK" /\ Step(i, "check") /\ UNCHANGED fate
       \/ type = "DUMP" /\ setup_opts_from_req(i) /\ Step(i, "seize") /\ UNCHANGED fate
       \/ type = "RESTORE" /\ setup_opts_from_req(i) /\ Step(i, "restore") /\ UNCHANGED fate
       \/ type \in {"DUMP", "RESTORE"} /\ Step(i, "answer") /\ fate' = [fate EXCEPT ![i] = "failed"]
       \/ type \in {"OTHER", "none"} /\ Step(i, "answer") /\ UNCHANGED fate
  /\ UNCHANGED <<taskVars, lib, res, conn, serverVars>>

Target(i) == IF Req(i).pid = NoPid THEN Client(i) ELSE Req(i).pid

\* check_ids(): root may have any task, the others their own.
may_dump(i, t) == Client(i) \in Root \/ Client(i) = t

\* collect_pstree(): one tracer a task.  The inventory is there from now on
\* until the dump fails.
seize(i) ==
  LET t == Target(i) IN
  /\ worker[i].pc = "seize"
  /\ \/ /\ task[t] = "run"
        /\ task' = [task EXCEPT ![t] = "frozen"]
        /\ by' = [by EXCEPT ![t] = i]
        /\ Step(i, "dump") /\ UNCHANGED fate
     \/ /\ task[t] # "run"
        /\ Step(i, "answer")
        /\ fate' = [fate EXCEPT ![i] = "failed"]
        /\ UNCHANGED <<task, by>>
  /\ imgs' = [imgs EXCEPT ![Req(i).dir] = NoImage]
  /\ UNCHANGED <<prog, from, lib, res, conn, serverVars>>

\* How the socket of the task's own call looks like: no peer while it waits
\* for accept(), shut down once the peer closed it.
SockState(t) ==
  IF lib[t].pc = "idle" THEN "none"
  ELSE IF lib[t].sk = 0 THEN "closed"
  ELSE IF lib[t].sk \in Range(backlog) THEN "inflight"
  ELSE IF HungUp(lib[t].sk) THEN "closed" ELSE "connected"

\* A peer that no dumped task has: half of a connection is refused.
dump_external_sockets == {}

\* What is dumped of it.  The one that is connected to this worker gets a
\* mark, the peer of any other connected one is left to the end of the dump.
dump_one_unix_fd(i, t) ==
  IF SockState(t) = "connected"
  THEN IF lib[t].sk = i THEN {"service"} ELSE dump_external_sockets
  ELSE {SockState(t)}

dump_one_task(i) ==
  LET t == Target(i) IN
  /\ worker[i].pc = "dump"
  /\ \/ \E s \in dump_one_unix_fd(i, t) :
          /\ may_dump(i, t)
          /\ imgs' = [imgs EXCEPT ![Req(i).dir] = [done |-> TRUE, task |-> t, sock |-> s, lib |-> lib[t], id |-> i]]
          /\ worker' = [worker EXCEPT ![i].pc = "switch", ![i].ok = TRUE]
     \/ Step(i, "switch") /\ UNCHANGED imgs
  /\ UNCHANGED <<prog, task, by, from, lib, res, conn, serverVars, fate>>

\* pstree_switch_state(): killed after a dump, unless the request or a
\* failure says that it goes on.
pstree_switch_state(i) ==
  LET t == Target(i)
      kill == worker[i].ok /\ ~Req(i).leave IN
  /\ worker[i].pc = "switch"
  /\ by' = [by EXCEPT ![t] = 0]
  /\ task' = [task EXCEPT ![t] = IF kill THEN "dead" ELSE "run"]
  /\ lib' = IF kill THEN [lib EXCEPT ![t] = Idle(lib[t].n)] ELSE lib
  /\ conn' = IF kill THEN Left(conn, t) ELSE conn
  /\ fate' = [fate EXCEPT ![i] = IF worker[i].ok THEN "done" ELSE "failed"]
  /\ Step(i, "answer")
  /\ UNCHANGED <<prog, from, res, serverVars, imgs>>

\* The images are collected; resolve_unix_peers() finds no peer for a
\* connection that was in flight.  The pid must be free, and is taken.
restore_begin(i) ==
  LET im == imgs[Req(i).dir] IN
  /\ worker[i].pc = "restore"
  /\ \/ /\ im.done /\ im.sock # "inflight" /\ task[im.task] = "dead" /\ may_dump(i, im.task)
        /\ task' = [task EXCEPT ![im.task] = "forked"]
        /\ by' = [by EXCEPT ![im.task] = i]
        /\ worker' = [worker EXCEPT ![i].pc = "open", ![i].im = im]
        /\ UNCHANGED fate
     \/ /\ Step(i, "answer")
        /\ fate' = [fate EXCEPT ![i] = "failed"]
        /\ UNCHANGED <<task, by>>
  /\ UNCHANGED <<prog, from, lib, res, conn, serverVars, imgs>>

\* The sockets restored: the marked one is an end of a new pair with the
\* answer in it, and a closed one that is not a stream cannot be had.
open_unixsk_standalone(im) ==
  CASE im.sock = "none" -> {Idle(im.lib.n)}
    [] im.sock = "service" -> {[im.lib EXCEPT !.sk = 0]}
    [] im.sock = "closed" -> {}

restore_end(i) ==
  LET im == worker[i].im
      t == im.task IN
  /\ worker[i].pc = "open"
  /\ by' = [by EXCEPT ![t] = 0]
  /\ \/ \E l \in open_unixsk_standalone(im) :
          /\ task' = [task EXCEPT ![t] = "run"]
          /\ lib' = [lib EXCEPT ![t] = l]
          /\ from' = [from EXCEPT ![t] = im.id]
          /\ res' = [res EXCEPT ![t] = [id |-> 0, val |-> "none"]]
          /\ fate' = [fate EXCEPT ![i] = "done"]
          /\ worker' = [worker EXCEPT ![i].pc = "answer", ![i].ok = TRUE, ![i].im = NoImage]
     \/ /\ task' = [task EXCEPT ![t] = "dead"]
        /\ fate' = [fate EXCEPT ![i] = "failed"]
        /\ worker' = [worker EXCEPT ![i].pc = "answer", ![i].im = NoImage]
        /\ UNCHANGED <<lib, from, res>>
  /\ UNCHANGED <<prog, conn, serverVars, imgs>>

check(i) ==
  /\ worker[i].pc = "check"
  /\ \E ok \in BOOLEAN :
       /\ worker' = [worker EXCEPT ![i].pc = "answer", ![i].ok = ok]
       /\ fate' = [fate EXCEPT ![i] = IF ok THEN "done" ELSE "failed"]
  /\ UNCHANGED <<taskVars, lib, res, conn, serverVars>>

\* A client that asked for its own dump, and not to go on, gets no answer: it
\* was killed, or its dump failed and it finds the connection closed.
self_dump(i) == Req(i).type = "DUMP" /\ Req(i).pid = NoPid
Answered(i) == Req(i).leave \/ ~self_dump(i)

Resp(i) ==
  [type |-> IF Req(i).type = "OTHER" THEN "EMPTY" ELSE Req(i).type, success |-> worker[i].ok, restored |-> FALSE]

\* A write to a client that is gone fails, or kills the worker.  It may fail for
\* another reason, and a worker may be killed before it.
send_criu_msg(i) == {Nothing} \cup (IF Answered(i) /\ conn[i].client THEN {Resp(i)} ELSE {})

\* The worker answers, if at all, and exits, which closes the connection.  It
\* takes back its success when it could not tell the client.
worker_exit(i) ==
  /\ worker[i].pc = "answer"
  /\ \E r \in send_criu_msg(i) :
       /\ conn' = [conn EXCEPT ![i].resp = r, ![i].held = @ \ {"worker"}]
       /\ worker' = [worker EXCEPT ![i].pc = IF worker[i].child THEN "zombie" ELSE "gone",
                                  ![i].ok = @ /\ (Answered(i) => r # Nothing)]
  /\ server' = IF worker[i].child THEN [server EXCEPT !.sig = TRUE] ELSE server
  /\ UNCHANGED <<taskVars, lib, res, backlog, fate>>

-----------------------------------------------------------------------------
CallStep(c) == send_req(c) \/ recv_resp(c)
ServerStep ==
  \/ cr_service_accept \/ cr_service_close \/ sigchld \/ reap_worker
WorkerStep(i) ==
  \/ cr_service_work(i) \/ seize(i) \/ dump_one_task(i) \/ pstree_switch_state(i)
  \/ restore_begin(i) \/ restore_end(i) \/ check(i) \/ worker_exit(i)

Next ==
  \/ \E c \in Clients : criu_connect(c) \/ CallStep(c) \/ Exit(c)
  \/ cr_service_start \/ ServerStep \/ server_exit
  \/ \E i \in DOMAIN conn : WorkerStep(i)

\* The server, its workers and a client inside a call are processes that run;
\* nothing makes a client call, or the server start or exit.
Fairness ==
  /\ \A c \in Clients : WF_vars(CallStep(c))
  /\ WF_vars(ServerStep)
  /\ \A i \in Ids : WF_vars(i \in DOMAIN conn /\ WorkerStep(i))

Spec == Init /\ [][Next]_vars /\ Fairness

-----------------------------------------------------------------------------
\* What the value a call returned says of its request.
RightAnswer(c) ==
  LET r == res[c] IN
  CASE r.val \in {"none", "ECONNREFUSED"} -> r.id = 0
    [] r.val \in {"ok", "pid"} -> fate[r.id] = "done" /\ from[c] # r.id
    [] r.val = "restored" -> fate[r.id] = "done" /\ from[c] = r.id
    [] r.val = "EINVAL" -> Req(r.id).type = "OTHER"
    [] r.val = "EBADE" -> fate[r.id] # "done"
    [] r.val = "ECOMM" -> fate[r.id] # "done" \/ ~worker[r.id].ok
    [] OTHER -> FALSE

(* A client is told what came of its request: 0 and a pid stand for a      *)
(* request that was done, 1 is returned by criu_dump() in the task that was *)
(* restored from that dump and only there, an error means that it was not  *)
(* done, also when nobody was left to answer; only a worker that could not *)
(* write its answer leaves a client with an error for what was done        *)
(* (cr-service.c:159-193, sk-unix.c:852-867, lib/criu.c:169-241).          *)
AnswersAreRight == \A c \in Clients : RightAnswer(c)

(* Every call ends: the client gets an answer or an error, or is gone; no  *)
(* descriptor of the connection is left in the server that would keep the  *)
(* end of file from it (cr-service.c:430-447, lib/criu.c:96-118).          *)
EveryCallEnds == \A c \in Clients : lib[c].pc # "idle" ~> lib[c].pc = "idle"

(* Every worker is reaped, though one SIGCHLD may stand for several of     *)
(* them (cr-service.c:280-309).                                            *)
WorkersReaped == \A i \in Ids : worker[i].pc = "zombie" ~> worker[i].pc = "gone"
=============================================================================
