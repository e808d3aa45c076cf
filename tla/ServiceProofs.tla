---------------------------- MODULE ServiceProofs ----------------------------
(***************************************************************************)
(* A client of the RPC service is told what came of its request: proof of  *)
(* AnswersAreRight for any number of clients, requests and server crashes. *)
(***************************************************************************)
EXTENDS Service, SequenceTheorems, TLAPS

-----------------------------------------------------------------------------
(* Types *)

Responses ==
  [type : {"DUMP", "RESTORE", "CHECK", "EMPTY"}, success : BOOLEAN, restored : BOOLEAN]

Conns == [who : Clients, req : Requests, sent : BOOLEAN, resp : Responses \cup {Nothing},
          held : SUBSET {"server", "worker"}, client : BOOLEAN]

Calls == [pc : {"idle", "send", "recv"}, n : Nat, id : 0..MaxConns, sk : 0..MaxConns]

Socks == {"none", "closed", "inflight", "service"}

Images == [done : {TRUE}, task : Clients, sock : Socks, lib : Calls, id : Ids]

WorkerPcs == {"none", "recv", "check", "seize", "dump", "switch", "restore", "open",
              "answer", "zombie", "gone"}

Workers == [pc : WorkerPcs, ok : BOOLEAN, child : BOOLEAN, im : Images \cup {NoImage}]

Results == [id : 0..MaxConns, val : {"none", "ECONNREFUSED", "ok", "pid", "restored",
                                     "EINVAL", "EBADE", "ECOMM"}]

TypeOK ==
  /\ prog \in Programs
  /\ task \in [Clients -> {"run", "frozen", "dead", "forked"}]
  /\ by \in [Clients -> 0..MaxConns]
  /\ from \in [Clients -> 0..MaxConns]
  /\ lib \in [Clients -> Calls]
  /\ res \in [Clients -> Results]
  /\ conn \in Seq(Conns) /\ Len(conn) <= MaxConns
  /\ backlog \in Seq(DOMAIN conn)
  /\ server \in [pc : {"down", "accept", "close"}, sk : 0..MaxConns, hnd : BOOLEAN,
                 sig : BOOLEAN, exits : Nat]
  /\ server.pc = "close" => server.sk \in DOMAIN conn
  /\ worker \in [Ids -> Workers]
  /\ imgs \in [Dirs -> Images \cup {NoImage}]
  /\ fate \in [Ids -> {"none", "done", "failed"}]

-----------------------------------------------------------------------------
(* The inductive invariant *)

\* A client's call and the connection it is made over.  A call over no
\* connection is one in a restored client.
CallInv(c) ==
  /\ lib[c].pc = "idle" => lib[c].sk = 0
  /\ task[c] \in {"dead", "forked"} => lib[c].pc = "idle"
  /\ from[c] <= Len(conn)
  /\ lib[c].sk # 0 =>
       /\ lib[c].id = lib[c].sk /\ lib[c].sk \in DOMAIN conn
       /\ conn[lib[c].sk].who = c /\ conn[lib[c].sk].client
       /\ from[c] # lib[c].sk
       /\ lib[c].pc = "send" => ~conn[lib[c].sk].sent
  /\ lib[c].sk = 0 /\ lib[c].pc # "idle" =>
       /\ lib[c].pc = "recv" /\ lib[c].id = from[c] /\ from[c] # 0
       /\ Req(from[c]).type = "DUMP" /\ fate[from[c]] = "done"

\* What a worker has done so far, and that it has told its client.
WorkerInv(i) ==
  /\ worker[i].pc \notin {"answer", "zombie", "gone"} => fate[i] = "none"
  /\ worker[i].pc \notin {"switch", "answer", "zombie", "gone"} => ~worker[i].ok
  /\ worker[i].pc \in {"answer", "zombie", "gone"} /\ worker[i].ok => fate[i] = "done"
  /\ worker[i].pc = "answer" /\ fate[i] = "done" => worker[i].ok
  /\ worker[i].pc \in {"seize", "dump", "switch"} => Req(i).type = "DUMP" /\ conn[i].sent
  /\ worker[i].pc \in {"restore", "open"} => Req(i).type = "RESTORE" /\ conn[i].sent
  /\ worker[i].pc = "check" => Req(i).type = "CHECK" /\ conn[i].sent
  /\ fate[i] = "done" => conn[i].sent

\* The worker's end is open as long as it works, and the answer is there
\* afterwards, if there is a client to take it.
ConnInv(i) ==
  /\ conn[i].client => lib[conn[i].who].sk = i
  /\ worker[i].pc \notin {"none", "recv"} => conn[i].sent \/ ~conn[i].client
  /\ worker[i].pc \notin {"none", "zombie", "gone"} => "worker" \in conn[i].held
  /\ i \in Range(backlog) => worker[i].pc = "none"
  /\ worker[i].pc \in {"zombie", "gone"} /\ conn[i].client /\ fate[i] = "done" /\ worker[i].ok =>
       conn[i].resp # Nothing
  /\ fate[i] = "done" /\ self_dump(i) /\ ~Req(i).leave => ~conn[i].client
  /\ conn[i].resp # Nothing =>
       /\ worker[i].pc \in {"zombie", "gone"} /\ ~conn[i].resp.restored
       /\ conn[i].resp.type = IF Req(i).type = "OTHER" THEN "EMPTY" ELSE Req(i).type
       /\ conn[i].resp.success <=> fate[i] = "done"

\* Who has a task in hand.
TraceInv(i) ==
  /\ worker[i].pc \in {"dump", "switch"} =>
       task[Target(i)] = "frozen" /\ by[Target(i)] = i
  /\ worker[i].pc = "open" =>
       /\ worker[i].im.done
       /\ worker[i].im.sock # "inflight"
       /\ task[worker[i].im.task] = "forked" /\ by[worker[i].im.task] = i

\* An image with the mark of its worker's own connection is used only when the
\* dump is over, and the call in it is the one that asked for the dump.
ImageInv(im) ==
  im.done =>
    /\ im.id \in DOMAIN conn /\ Req(im.id).type = "DUMP" /\ im.task = Target(im.id)
    /\ im.sock = "service" => im.lib.id = im.id /\ im.lib.pc = "recv"
    /\ fate[im.id] = "done" \/ (worker[im.id].pc = "switch" /\ worker[im.id].ok)

\* There is no worker, and there will be none.
Over(i) == worker[i].pc \in {"none", "zombie", "gone"} /\ i \notin Range(backlog)

\* An error is returned when no worker can do the request any more.
ResInv(c) ==
  /\ res[c].id \in DOMAIN conn \cup {0}
  /\ res[c].val \notin {"none", "ECONNREFUSED"} => res[c].id # 0
  /\ res[c].val \in {"EBADE", "ECOMM"} =>
       Over(res[c].id)

ServiceInv ==
  /\ TypeOK
  /\ \A c \in Clients : CallInv(c) /\ ResInv(c)
  /\ \A i \in DOMAIN conn : WorkerInv(i) /\ ConnInv(i) /\ TraceInv(i)
  /\ \A i \in Ids : i \notin DOMAIN conn => worker[i].pc = "none" /\ fate[i] = "none" /\ ~worker[i].ok
  /\ \A d \in Dirs : ImageInv(imgs[d])
  /\ \A i \in Ids : ImageInv(worker[i].im)
  /\ \A j, k \in DOMAIN backlog : backlog[j] = backlog[k] => j = k
  /\ AnswersAreRight

-----------------------------------------------------------------------------
(* How the operations change sequences and records *)

\* A function on the domain of a sequence is a sequence of the same length.
LEMMA SeqOfFunction ==
  ASSUME NEW S, NEW s \in Seq(S), NEW f \in [DOMAIN s -> S]
  PROVE  f \in Seq(S) /\ Len(f) = Len(s) /\ DOMAIN f = DOMAIN s
<1>1. DOMAIN s = 1..Len(s) /\ Len(s) \in Nat
  OBVIOUS
<1> QED BY <1>1

LEMMA Zero == 0 \in 0..MaxConns
BY ServiceAssumption

\* Connections are numbered 1..Len(conn), and a worker can have each number.
LEMMA ConnIds ==
  ASSUME TypeOK
  PROVE  /\ DOMAIN conn = 1..Len(conn) /\ Len(conn) \in Nat /\ DOMAIN conn \subseteq Ids
         /\ 0 \notin DOMAIN conn
         /\ \A i \in DOMAIN conn : conn[i] \in Conns
         /\ Range(backlog) \subseteq DOMAIN conn
<1>1. DOMAIN conn = 1..Len(conn) /\ Len(conn) \in Nat
  BY DEF TypeOK
<1>2. Range(backlog) \subseteq DOMAIN conn
  BY DEF TypeOK, Range
<1> QED BY <1>1, <1>2, ServiceAssumption DEF TypeOK, Ids

LEMMA ImageTyped ==
  ASSUME NEW im \in Images \cup {NoImage}, im.done
  PROVE  im \in Images
<1>1. NoImage.done = FALSE
  BY DEF NoImage
<1>2. im # NoImage
  BY <1>1
<1> QED BY <1>2

\* A worker moves on.
LEMMA StepEffect ==
  ASSUME TypeOK, NEW i \in Ids, NEW l \in WorkerPcs, Step(i, l)
  PROVE  /\ worker' \in [Ids -> Workers]
         /\ worker'[i].pc = l /\ worker'[i].ok = worker[i].ok
         /\ worker'[i].im = worker[i].im
         /\ \A j \in Ids : j # i => worker'[j] = worker[j]
BY DEF TypeOK, Step, Workers

\* A worker moves on with a result.
LEMMA WorkerEffect ==
  ASSUME TypeOK, NEW i \in Ids, NEW l \in {"switch", "answer"}, NEW ok \in BOOLEAN,
         worker' = [worker EXCEPT ![i].pc = l, ![i].ok = ok]
  PROVE  /\ worker' \in [Ids -> Workers]
         /\ worker'[i].pc = l /\ worker'[i].ok = ok
         /\ worker'[i].im = worker[i].im
         /\ \A j \in Ids : j # i => worker'[j] = worker[j]
BY ZenonT(60) DEF TypeOK, Workers, WorkerPcs

\* A client's end is closed.
LEMMA LeftEffect ==
  ASSUME TypeOK, NEW c \in Clients, CallInv(c), conn' = Left(conn, c)
  PROVE  /\ conn' \in Seq(Conns) /\ Len(conn') = Len(conn) /\ DOMAIN conn' = DOMAIN conn
         /\ \A i \in DOMAIN conn :
              /\ conn'[i].who = conn[i].who /\ conn'[i].req = conn[i].req
              /\ conn'[i].sent = conn[i].sent /\ conn'[i].held = conn[i].held
              /\ conn'[i].client <=> (conn[i].client /\ i # lib[c].sk)
              /\ conn'[i].resp = IF i = lib[c].sk THEN Nothing ELSE conn[i].resp
<1>1. CASE lib[c].sk = 0
  <2>1. conn' = conn /\ 0 \notin DOMAIN conn
    BY <1>1, ConnIds DEF Left
  <2> QED BY <1>1, <2>1, ConnIds DEF TypeOK, Conns
<1>2. CASE lib[c].sk # 0
  <2>1. PICK s : s = lib[c].sk
    OBVIOUS
  <2>2. s \in DOMAIN conn
    BY <1>2, <2>1 DEF CallInv
  <2>3. conn[s] \in Conns /\ \A i \in DOMAIN conn : conn[i] \in Conns
    BY <2>2, ConnIds
  <2>4. PICK x : x = [conn[s] EXCEPT !.client = FALSE, !.resp = Nothing]
    OBVIOUS
  <2>5. /\ x \in Conns /\ x.who = conn[s].who /\ x.req = conn[s].req
        /\ x.sent = conn[s].sent /\ x.held = conn[s].held
        /\ x.client = FALSE /\ x.resp = Nothing
    BY <2>3, <2>4 DEF Conns
  <2>6. conn' = [conn EXCEPT ![s] = x]
    BY <1>2, <2>1, <2>2, <2>3, <2>4 DEF Left, Conns, TypeOK
  <2>7. conn' \in [DOMAIN conn -> Conns]
    BY <2>2, <2>3, <2>5, <2>6 DEF TypeOK
  <2>8. conn' \in Seq(Conns) /\ Len(conn') = Len(conn) /\ DOMAIN conn' = DOMAIN conn
    BY <2>7, SeqOfFunction DEF TypeOK
  <2>9. \A i \in DOMAIN conn : conn'[i] = IF i = s THEN x ELSE conn[i]
    BY <2>6
  <2> QED BY <2>1, <2>3, <2>5, <2>8, <2>9 DEF Conns
<1> QED BY <1>1, <1>2

\* One connection gets new contents.
LEMMA ConnEffect ==
  ASSUME TypeOK, NEW i \in DOMAIN conn, NEW x \in Conns, conn' = [conn EXCEPT ![i] = x]
  PROVE  /\ conn' \in Seq(Conns) /\ Len(conn') = Len(conn) /\ DOMAIN conn' = DOMAIN conn
         /\ conn'[i] = x /\ \A j \in DOMAIN conn : j # i => conn'[j] = conn[j]
<1>1. conn' \in [DOMAIN conn -> Conns]
  BY ConnIds
<1>2. conn' \in Seq(Conns) /\ Len(conn') = Len(conn) /\ DOMAIN conn' = DOMAIN conn
  BY <1>1, SeqOfFunction DEF TypeOK
<1> QED BY <1>2

-----------------------------------------------------------------------------
(* What a step leaves alone *)

\* No step changes who made a connection and what was asked over it, takes back
\* what was done, or revives a request that is over.
KeptConns ==
  \A i \in DOMAIN conn :
    i \in DOMAIN conn' /\ conn'[i].who = conn[i].who /\ conn'[i].req = conn[i].req

KeptFates ==
  \A i \in DOMAIN conn :
    /\ fate[i] = "done" => fate'[i] = "done"
    /\ Over(i) => Over(i)' /\ fate'[i] = fate[i] /\ worker'[i].ok = worker[i].ok

LEMMA CallFrame ==
  ASSUME ServiceInv, TypeOK', KeptConns, KeptFates, NEW c \in Clients,
         lib'[c] = lib[c], from'[c] = from[c],
         task'[c] \in {"dead", "forked"} => task[c] \in {"dead", "forked"},
         lib[c].sk # 0 => /\ conn'[lib[c].sk].client
                          /\ conn'[lib[c].sk].sent = conn[lib[c].sk].sent
  PROVE  CallInv(c)'
<1>1. TypeOK /\ CallInv(c) /\ DOMAIN conn = 1..Len(conn) /\ DOMAIN conn' = 1..Len(conn')
        /\ Len(conn) \in Nat /\ Len(conn') \in Nat
  BY DEF ServiceInv, TypeOK
<1>2. Len(conn) <= Len(conn') /\ from[c] \in Nat
  <2>1. Len(conn) # 0 => Len(conn) \in DOMAIN conn /\ Len(conn) \in DOMAIN conn'
    BY <1>1 DEF KeptConns
  <2> QED BY <1>1, <2>1, ServiceAssumption DEF TypeOK
<1>3. from[c] # 0 => from[c] \in DOMAIN conn
  BY <1>1, <1>2 DEF CallInv
<1> QED BY <1>1, <1>2, <1>3 DEF KeptConns, KeptFates, CallInv, Req

LEMMA ResFrame ==
  ASSUME ServiceInv, KeptConns, KeptFates, NEW c \in Clients,
         res'[c] = res[c], from'[c] = from[c]
  PROVE  ResInv(c)' /\ RightAnswer(c)'
<1>1. TypeOK /\ ResInv(c) /\ RightAnswer(c)
  BY DEF ServiceInv, AnswersAreRight
<1>2. ResInv(c)'
  BY <1>1 DEF ResInv, KeptConns, KeptFates
<1>3. RightAnswer(c)'
  BY <1>1 DEF ResInv, RightAnswer, KeptConns, KeptFates, TypeOK, Results, Req
<1> QED BY <1>2, <1>3

LEMMA ImageFrame ==
  ASSUME KeptConns, KeptFates, NEW im, ImageInv(im),
         \A i \in DOMAIN conn : worker[i].pc = "switch" /\ worker[i].ok =>
           (worker'[i].pc = "switch" /\ worker'[i].ok) \/ fate'[i] = "done"
  PROVE  im.done =>
    /\ im.id \in DOMAIN conn' /\ conn'[im.id].req.type = "DUMP" /\ im.task = Target(im.id)'
    /\ im.sock = "service" => im.lib.id = im.id /\ im.lib.pc = "recv"
    /\ fate'[im.id] = "done" \/ (worker'[im.id].pc = "switch" /\ worker'[im.id].ok)
BY DEF ImageInv, KeptConns, KeptFates, Req, Target, Client

-----------------------------------------------------------------------------
(* The server *)

\* The steps of the server that no client and no worker sees.
LEMMA QuietServer ==
  ASSUME ServiceInv, TypeOK',
         UNCHANGED <<taskVars, lib, res, conn, backlog, worker, fate>>
  PROVE  ServiceInv'
<1>1. UNCHANGED <<prog, task, by, from, imgs, lib, res, conn, backlog, worker, fate>>
  BY DEF taskVars
<1>2. \A c \in Clients : CallInv(c)' /\ ResInv(c)'
  BY <1>1 DEF ServiceInv, CallInv, ResInv, Over, Req
<1>3. \A i \in DOMAIN conn : WorkerInv(i)' /\ ConnInv(i)'
  BY <1>1 DEF ServiceInv, WorkerInv, ConnInv, Req, self_dump
<1>4. \A i \in DOMAIN conn : TraceInv(i)'
  BY <1>1 DEF ServiceInv, TraceInv, Target, Req, Client
<1>5. (\A d \in Dirs : ImageInv(imgs[d])') /\ \A i \in Ids : ImageInv(worker[i].im)'
  BY <1>1 DEF ServiceInv, ImageInv, Req, Target, Client
<1>6. AnswersAreRight'
  BY <1>1 DEF ServiceInv, AnswersAreRight, RightAnswer, Req
<1> QED BY <1>1, <1>2, <1>3, <1>4, <1>5, <1>6 DEF ServiceInv

LEMMA StartKeeps == ASSUME ServiceInv, cr_service_start \/ sigchld PROVE ServiceInv'
<1>1. TypeOK
  BY DEF ServiceInv
<1>2. server' \in [pc : {"down", "accept", "close"}, sk : 0..MaxConns, hnd : BOOLEAN,
                   sig : BOOLEAN, exits : Nat]
      /\ (server'.pc = "close" => server'.sk = server.sk /\ server.pc = "close")
  BY <1>1 DEF TypeOK, cr_service_start, sigchld
<1>3. UNCHANGED <<taskVars, lib, res, conn, backlog, worker, fate>>
  BY DEF cr_service_start, sigchld
<1>4. TypeOK'
  BY <1>1, <1>2, <1>3 DEF TypeOK, taskVars
<1> QED BY <1>3, <1>4, QuietServer

LEMMA AcceptKeeps == ASSUME ServiceInv, cr_service_accept PROVE ServiceInv'
<1>1. TypeOK /\ backlog # << >>
  BY DEF ServiceInv, cr_service_accept
<1>2. PICK i : i = Head(backlog)
  OBVIOUS
<1>3. /\ i \in Range(backlog) /\ i \in DOMAIN conn /\ i \in Ids /\ 1 \in DOMAIN backlog
      /\ backlog[1] = i
  BY <1>1, <1>2, ConnIds DEF TypeOK, Range
<1>4. /\ backlog' \in Seq(DOMAIN conn) /\ DOMAIN backlog = 1..Len(backlog)
      /\ Len(backlog) \in Nat /\ DOMAIN backlog' = 1..(Len(backlog) - 1)
      /\ \A k \in DOMAIN backlog' : backlog'[k] = backlog[k + 1]
  BY <1>1 DEF TypeOK, cr_service_accept
<1>5. /\ Range(backlog') \subseteq Range(backlog) /\ i \notin Range(backlog')
      /\ \A j, k \in DOMAIN backlog' : backlog'[j] = backlog'[k] => j = k
  BY <1>3, <1>4 DEF Range, ServiceInv
<1>6. PICK x : x = conn'[i]
  OBVIOUS
<1>7. /\ x \in Conns /\ conn' = [conn EXCEPT ![i] = x]
      /\ x.who = conn[i].who /\ x.req = conn[i].req
      /\ x.sent = conn[i].sent /\ x.client = conn[i].client /\ x.resp = conn[i].resp
      /\ worker' = worker \/ "worker" \in x.held
  BY <1>1, <1>2, <1>3, <1>6, ConnIds DEF cr_service_accept, Conns
<1>8. /\ conn' \in Seq(Conns) /\ Len(conn') = Len(conn) /\ DOMAIN conn' = DOMAIN conn
      /\ conn'[i] = x /\ \A j \in DOMAIN conn : j # i => conn'[j] = conn[j]
  BY <1>1, <1>3, <1>7, ConnEffect
<1>9. /\ worker' \in [Ids -> Workers] /\ worker[i].pc = "none"
      /\ worker'[i].pc \in {"none", "recv"}
      /\ (worker'[i].pc = "recv" => "worker" \in x.held)
      /\ worker'[i].ok = worker[i].ok /\ worker'[i].im = worker[i].im
      /\ \A j \in Ids : j # i => worker'[j] = worker[j]
  <2>1. worker[i].pc = "none"
    BY <1>3 DEF ServiceInv, ConnInv
  <2>2. CASE worker' = worker
    BY <1>1, <1>3, <2>1, <2>2 DEF TypeOK
  <2>3. CASE Step(i, "recv") /\ worker' # worker
    BY <1>1, <1>3, <1>7, <2>1, <2>3, StepEffect DEF WorkerPcs
  <2> QED BY <1>2, <2>2, <2>3 DEF cr_service_accept, Step
<1>10. UNCHANGED <<prog, task, by, from, imgs, lib, res, fate>>
  BY DEF cr_service_accept, taskVars
<1>11. TypeOK'
  <2>1. i \in 0..MaxConns
    BY <1>3, ServiceAssumption DEF Ids
  <2>2. server' = [server EXCEPT !.pc = "close", !.sk = i]
    BY <1>2 DEF cr_service_accept
  <2>3. server' \in [pc : {"down", "accept", "close"}, sk : 0..MaxConns, hnd : BOOLEAN,
                     sig : BOOLEAN, exits : Nat] /\ server'.sk = i
    BY <1>1, <2>1, <2>2 DEF TypeOK
  <2> QED BY <1>1, <1>3, <1>4, <1>8, <1>9, <1>10, <2>3 DEF TypeOK
<1>12. KeptConns /\ KeptFates
  BY <1>1, <1>3, <1>5, <1>7, <1>8, <1>9, <1>10, ConnIds DEF KeptConns, KeptFates, Over
<1>13. \A c \in Clients : CallInv(c)'
  BY <1>1, <1>7, <1>8, <1>10, <1>11, <1>12, CallFrame DEF ServiceInv, CallInv
<1>14. \A c \in Clients : ResInv(c)' /\ RightAnswer(c)'
  BY <1>10, <1>12, ResFrame
<1>15. \A j \in DOMAIN conn : WorkerInv(j)' /\ ConnInv(j)' /\ TraceInv(j)'
  BY <1>1, <1>3, <1>5, <1>7, <1>8, <1>9, <1>10, ConnIds
     DEF ServiceInv, WorkerInv, ConnInv, TraceInv, Req, Target, Client, self_dump
<1>16. /\ \A d \in Dirs : ImageInv(imgs[d])'
       /\ \A j \in Ids : ImageInv(worker[j].im)'
  <2>1. \A j \in DOMAIN conn : worker[j].pc = "switch" => worker'[j] = worker[j]
    BY <1>1, <1>9, ConnIds
  <2>2. \A j \in Ids : worker'[j].im = worker[j].im
    BY <1>9
  <2> QED BY <1>10, <1>12, <2>1, <2>2, ImageFrame DEF ServiceInv, ImageInv, Req
<1> QED
  BY <1>3, <1>5, <1>8, <1>9, <1>10, <1>11, <1>13, <1>14, <1>15, <1>16
     DEF ServiceInv, AnswersAreRight

LEMMA CloseKeeps == ASSUME ServiceInv, cr_service_close PROVE ServiceInv'
<1>1. TypeOK /\ server.sk \in DOMAIN conn
  BY DEF ServiceInv, TypeOK, cr_service_close
<1>2. PICK i \in DOMAIN conn : i = server.sk
  BY <1>1
<1>3. PICK x : x = [conn[i] EXCEPT !.held = @ \ {"server"}]
  OBVIOUS
<1>4. /\ x \in Conns /\ conn' = [conn EXCEPT ![i] = x]
      /\ x.who = conn[i].who /\ x.req = conn[i].req
      /\ x.sent = conn[i].sent /\ x.client = conn[i].client /\ x.resp = conn[i].resp
      /\ x.held = conn[i].held \ {"server"}
  BY <1>1, <1>2, <1>3, ConnIds DEF cr_service_close, Conns
<1>5. /\ conn' \in Seq(Conns) /\ Len(conn') = Len(conn) /\ DOMAIN conn' = DOMAIN conn
      /\ conn'[i] = x /\ \A j \in DOMAIN conn : j # i => conn'[j] = conn[j]
  BY <1>1, <1>4, ConnEffect
<1>6. UNCHANGED <<prog, task, by, from, imgs, lib, res, fate, worker, backlog>>
  BY DEF cr_service_close, taskVars
<1>7. TypeOK'
  <2>1. server' \in [pc : {"down", "accept", "close"}, sk : 0..MaxConns, hnd : BOOLEAN,
                     sig : BOOLEAN, exits : Nat] /\ server'.pc = "accept"
    BY <1>1, Zero DEF TypeOK, cr_service_close
  <2> QED BY <1>1, <1>5, <1>6, <2>1 DEF TypeOK
<1>8. KeptConns /\ KeptFates
  BY <1>4, <1>5, <1>6 DEF KeptConns, KeptFates, Over
<1>9. \A c \in Clients : CallInv(c)' /\ ResInv(c)' /\ RightAnswer(c)'
  BY <1>4, <1>5, <1>6, <1>7, <1>8, CallFrame, ResFrame DEF ServiceInv, CallInv
<1>10. \A j \in DOMAIN conn : WorkerInv(j)' /\ ConnInv(j)' /\ TraceInv(j)'
  BY <1>4, <1>5, <1>6
     DEF ServiceInv, WorkerInv, ConnInv, TraceInv, Req, Target, Client, self_dump
<1>11. /\ \A d \in Dirs : ImageInv(imgs[d])'
       /\ \A j \in Ids : ImageInv(worker[j].im)'
  BY <1>6, <1>8, ImageFrame DEF ServiceInv, ImageInv, Req
<1> QED
  BY <1>5, <1>6, <1>7, <1>9, <1>10, <1>11 DEF ServiceInv, AnswersAreRight

LEMMA ReapKeeps == ASSUME ServiceInv, reap_worker PROVE ServiceInv'
<1>1. TypeOK
  BY DEF ServiceInv
<1>2. CASE UNCHANGED worker
  <2>1. UNCHANGED <<taskVars, lib, res, conn, backlog, worker, fate>>
    BY <1>2 DEF reap_worker
  <2>2. /\ server' \in [pc : {"down", "accept", "close"}, sk : 0..MaxConns, hnd : BOOLEAN,
                        sig : BOOLEAN, exits : Nat]
        /\ server'.pc = server.pc /\ server'.sk = server.sk
    BY <1>1 DEF TypeOK, reap_worker
  <2>3. TypeOK'
    BY <1>1, <2>1, <2>2 DEF TypeOK, taskVars
  <2> QED BY <2>1, <2>3, QuietServer
<1>3. CASE \E i \in Zombies : worker' = [worker EXCEPT ![i].pc = "gone"] /\ UNCHANGED server
  <2>1. PICK i \in Zombies : Step(i, "gone")
    BY <1>3 DEF Step
  <2>2. /\ i \in Ids /\ worker[i].pc = "zombie" /\ worker' \in [Ids -> Workers]
        /\ worker'[i].pc = "gone" /\ worker'[i].ok = worker[i].ok
        /\ worker'[i].im = worker[i].im
        /\ \A j \in Ids : j # i => worker'[j] = worker[j]
    BY <1>1, <2>1, StepEffect DEF Zombies, WorkerPcs
  <2>3. UNCHANGED <<prog, task, by, from, imgs, lib, res, conn, backlog, server, fate>>
    BY <1>3 DEF reap_worker, taskVars
  <2>4. TypeOK'
    BY <1>1, <2>2, <2>3 DEF TypeOK
  <2>5. KeptConns /\ KeptFates /\ i \in DOMAIN conn /\ DOMAIN conn \subseteq Ids
    BY <1>1, <2>2, <2>3, ConnIds DEF KeptConns, KeptFates, Over, ServiceInv
  <2>6. \A c \in Clients : CallInv(c)' /\ ResInv(c)' /\ RightAnswer(c)'
    BY <2>3, <2>4, <2>5, CallFrame, ResFrame DEF ServiceInv, CallInv
  <2>7. \A j \in DOMAIN conn : WorkerInv(j)' /\ ConnInv(j)' /\ TraceInv(j)'
    BY <2>2, <2>3, <2>5
       DEF ServiceInv, WorkerInv, ConnInv, TraceInv, Req, Target, Client, self_dump
  <2>8. /\ \A d \in Dirs : ImageInv(imgs[d])'
        /\ \A j \in Ids : ImageInv(worker[j].im)'
    BY <2>2, <2>3, <2>5, ImageFrame DEF ServiceInv, ImageInv, Req
  <2> QED
    BY <2>2, <2>3, <2>4, <2>5, <2>6, <2>7, <2>8 DEF ServiceInv, AnswersAreRight
<1> QED BY <1>2, <1>3 DEF reap_worker

LEMMA ServerExitKeeps == ASSUME ServiceInv, server_exit PROVE ServiceInv'
<1>1. TypeOK /\ DOMAIN conn \subseteq Ids
  BY ConnIds DEF ServiceInv
<1>2. /\ conn' \in [DOMAIN conn -> Conns]
      /\ \A i \in DOMAIN conn :
           /\ conn'[i].who = conn[i].who /\ conn'[i].req = conn[i].req
           /\ conn'[i].sent = conn[i].sent /\ conn'[i].client = conn[i].client
           /\ conn'[i].resp = conn[i].resp /\ conn'[i].held = conn[i].held \ {"server"}
  BY <1>1, ConnIds DEF server_exit, Conns
<1>3. conn' \in Seq(Conns) /\ Len(conn') = Len(conn) /\ DOMAIN conn' = DOMAIN conn
  BY <1>1, <1>2, SeqOfFunction DEF TypeOK
<1>4. /\ worker' \in [Ids -> Workers]
      /\ \A i \in Ids :
           /\ worker'[i].pc = IF worker[i].pc = "zombie" THEN "gone" ELSE worker[i].pc
           /\ worker'[i].ok = worker[i].ok /\ worker'[i].im = worker[i].im
  BY ZenonT(60), <1>1 DEF TypeOK, server_exit, Workers, WorkerPcs
<1>5. UNCHANGED <<prog, task, by, from, imgs, lib, res, fate>> /\ backlog' = << >>
  BY DEF server_exit, taskVars
<1>6. Range(backlog') = {} /\ DOMAIN backlog' = {}
  BY <1>5 DEF Range
<1>7. TypeOK'
  <2>1. server' \in [pc : {"down", "accept", "close"}, sk : 0..MaxConns, hnd : BOOLEAN,
                     sig : BOOLEAN, exits : Nat] /\ server'.pc = "down"
    BY <1>1, ServiceAssumption DEF TypeOK, server_exit
  <2> QED BY <1>1, <1>3, <1>4, <1>5, <2>1 DEF TypeOK
<1>8. KeptConns /\ KeptFates
  BY <1>1, <1>2, <1>3, <1>4, <1>5, <1>6 DEF KeptConns, KeptFates, Over
<1>9. \A c \in Clients : CallInv(c)' /\ ResInv(c)' /\ RightAnswer(c)'
  BY <1>2, <1>5, <1>7, <1>8, CallFrame, ResFrame DEF ServiceInv, CallInv
<1>10. \A j \in DOMAIN conn : WorkerInv(j)' /\ ConnInv(j)' /\ TraceInv(j)'
  <2> SUFFICES ASSUME NEW j \in DOMAIN conn
               PROVE  WorkerInv(j)' /\ ConnInv(j)' /\ TraceInv(j)'
    OBVIOUS
  <2>1. WorkerInv(j)' /\ TraceInv(j)'
    BY <1>1, <1>2, <1>4, <1>5 DEF ServiceInv, WorkerInv, TraceInv, Req, Target, Client
  <2>2. ConnInv(j)'
    BY <1>1, <1>2, <1>4, <1>5, <1>6 DEF ServiceInv, ConnInv, Req, self_dump
  <2> QED BY <2>1, <2>2
<1>11. /\ \A d \in Dirs : ImageInv(imgs[d])'
       /\ \A j \in Ids : ImageInv(worker[j].im)'
  BY <1>1, <1>4, <1>5, <1>8, ImageFrame DEF ServiceInv, ImageInv, Req
<1> QED
  BY <1>3, <1>4, <1>5, <1>6, <1>7, <1>9, <1>10, <1>11 DEF ServiceInv, AnswersAreRight

-----------------------------------------------------------------------------
(* The clients *)

LEMMA ConnectKeeps ==
  ASSUME ServiceInv, NEW c \in Clients, criu_connect(c)
  PROVE  ServiceInv'
<1>1. /\ TypeOK /\ CallInv(c) /\ task[c] = "run" /\ lib[c].pc = "idle" /\ lib[c].sk = 0
      /\ lib[c] \in Calls /\ lib[c].n < Len(prog[c])
      /\ DOMAIN conn = 1..Len(conn) /\ Len(conn) \in Nat /\ DOMAIN conn \subseteq Ids
      /\ \A i \in DOMAIN conn : conn[i] \in Conns
      /\ Range(backlog) \subseteq DOMAIN conn
  BY ConnIds DEF ServiceInv, TypeOK, CallInv, criu_connect
<1>2. UNCHANGED <<prog, task, by, from, imgs, server, worker, fate>>
  BY DEF criu_connect, taskVars
<1>3. CASE ~Listening
  <2>1. /\ UNCHANGED <<conn, backlog>> /\ lib' = [lib EXCEPT ![c].n = @ + 1]
        /\ res' = [res EXCEPT ![c] = [id |-> 0, val |-> "ECONNREFUSED"]]
    BY <1>3 DEF criu_connect
  <2>2. /\ lib' \in [Clients -> Calls] /\ lib'[c].pc = "idle" /\ lib'[c].sk = 0
        /\ \A d \in Clients : d # c => lib'[d] = lib[d]
    <3>1. PICK y : y = [lib[c] EXCEPT !.n = @ + 1]
      OBVIOUS
    <3>2. y \in Calls /\ y.pc = "idle" /\ y.sk = 0
      BY <1>1, <3>1 DEF Calls
    <3> QED BY <1>1, <2>1, <3>1, <3>2 DEF TypeOK
  <2>3. /\ res' \in [Clients -> Results] /\ res'[c].id = 0 /\ res'[c].val = "ECONNREFUSED"
        /\ \A d \in Clients : d # c => res'[d] = res[d]
    BY <1>1, <2>1, Zero DEF TypeOK, Results
  <2>4. TypeOK'
    BY <1>1, <1>2, <2>1, <2>2, <2>3 DEF TypeOK
  <2>5. KeptConns /\ KeptFates
    BY <1>2, <2>1 DEF KeptConns, KeptFates, Over
  <2>6. \A d \in Clients : d # c => CallInv(d)' /\ ResInv(d)' /\ RightAnswer(d)'
    BY <1>2, <2>1, <2>2, <2>3, <2>4, <2>5, CallFrame, ResFrame DEF ServiceInv, CallInv
  <2>7. CallInv(c)' /\ ResInv(c)' /\ RightAnswer(c)'
    BY <1>1, <1>2, <2>1, <2>2, <2>3 DEF CallInv, ResInv, RightAnswer
  <2>8. \A j \in DOMAIN conn : WorkerInv(j)' /\ ConnInv(j)' /\ TraceInv(j)'
    BY <1>1, <1>2, <2>1, <2>2
       DEF ServiceInv, WorkerInv, ConnInv, TraceInv, Req, Target, Client, self_dump, Conns
  <2>9. /\ \A d \in Dirs : ImageInv(imgs[d])'
        /\ \A j \in Ids : ImageInv(worker[j].im)'
    BY <1>2, <2>5, ImageFrame DEF ServiceInv, ImageInv, Req
  <2> QED
    BY <1>2, <2>1, <2>4, <2>6, <2>7, <2>8, <2>9 DEF ServiceInv, AnswersAreRight
<1>4. CASE Listening
  <2>1. PICK k : k = Len(conn) + 1
    OBVIOUS
  <2>2. PICK x : x = [who |-> c, req |-> prog[c][lib[c].n + 1], sent |-> FALSE,
                      resp |-> Nothing, held |-> {}, client |-> TRUE]
    OBVIOUS
  <2>3. /\ Len(conn) < MaxConns /\ conn' = Append(conn, x) /\ UNCHANGED res
        /\ backlog' = Append(backlog, Len(conn'))
        /\ lib' = [lib EXCEPT ![c] = [pc |-> "send", n |-> lib[c].n + 1,
                                      id |-> Len(conn'), sk |-> Len(conn')]]
    BY <1>4, <2>2 DEF criu_connect
  <2>4. prog[c][lib[c].n + 1] \in Requests
    <3>1. prog[c] \in Seq(Requests)
      BY <1>1, ServiceAssumption DEF TypeOK
    <3>2. lib[c].n + 1 \in 1..Len(prog[c])
      BY <1>1, <3>1 DEF Calls
    <3> QED BY <3>1, <3>2
  <2>5. /\ x \in Conns /\ x.who = c /\ x.client /\ ~x.sent /\ x.resp = Nothing
    BY <2>2, <2>4 DEF Conns
  <2>6. /\ conn' \in Seq(Conns) /\ Len(conn') = k /\ DOMAIN conn' = DOMAIN conn \cup {k}
        /\ k \notin DOMAIN conn /\ k \in Ids /\ k # 0
        /\ conn'[k] = x /\ \A j \in DOMAIN conn : conn'[j] = conn[j]
    BY <1>1, <2>1, <2>3, <2>5, ServiceAssumption DEF TypeOK, Ids
  <2>7. /\ lib' \in [Clients -> Calls] /\ lib'[c].pc = "send" /\ lib'[c].sk = k
        /\ lib'[c].id = k /\ \A d \in Clients : d # c => lib'[d] = lib[d]
    <3>1. k \in 0..MaxConns /\ lib[c].n + 1 \in Nat
      BY <1>1, <2>6, ServiceAssumption DEF Ids, Calls
    <3> QED BY <1>1, <2>3, <2>6, <3>1 DEF TypeOK, Calls
  <2>8. /\ backlog' \in Seq(DOMAIN conn') /\ Range(backlog') = Range(backlog) \cup {k}
        /\ \A i, j \in DOMAIN backlog' : backlog'[i] = backlog'[j] => i = j
    <3>1. /\ DOMAIN backlog = 1..Len(backlog) /\ Len(backlog) \in Nat
          /\ backlog \in Seq(DOMAIN conn') /\ \A i \in DOMAIN backlog : backlog[i] # k
      <4>1. backlog \in Seq(DOMAIN conn) /\ DOMAIN conn \subseteq DOMAIN conn'
        BY <1>1, <2>6 DEF TypeOK
      <4> QED BY <2>6, <4>1, SeqMonotonic
    <3>2. backlog' = Append(backlog, k) /\ k \in DOMAIN conn'
      BY <2>3, <2>6
    <3>3. /\ backlog' \in Seq(DOMAIN conn') /\ DOMAIN backlog' = 1..(Len(backlog) + 1)
          /\ backlog'[Len(backlog) + 1] = k
          /\ \A i \in DOMAIN backlog : backlog'[i] = backlog[i]
      BY <3>1, <3>2
    <3>4. Range(backlog') = Range(backlog) \cup {k}
      BY <3>1, <3>3 DEF Range
    <3>5. \A i, j \in DOMAIN backlog' : backlog'[i] = backlog'[j] => i = j
      BY <3>1, <3>3 DEF ServiceInv
    <3> QED BY <3>3, <3>4, <3>5
  <2>9. /\ worker[k].pc = "none" /\ fate[k] = "none" /\ ~worker[k].ok
    BY <2>6 DEF ServiceInv
  <2>10. TypeOK'
    <3>1. server.pc = "close" => server.sk \in DOMAIN conn'
      BY <1>1, <2>6 DEF TypeOK
    <3>2. Len(conn') <= MaxConns
      BY <2>6, ServiceAssumption DEF Ids
    <3> QED BY <1>1, <1>2, <2>3, <2>6, <2>7, <2>8, <3>1, <3>2 DEF TypeOK
  <2>11. KeptConns /\ KeptFates
    BY <1>2, <2>6, <2>8 DEF KeptConns, KeptFates, Over
  <2>12. \A d \in Clients : d # c => CallInv(d)'
    BY <1>2, <2>6, <2>7, <2>10, <2>11, CallFrame DEF ServiceInv, CallInv
  <2>13. \A d \in Clients : ResInv(d)' /\ RightAnswer(d)'
    BY <1>2, <2>3, <2>11, ResFrame
  <2>14. CallInv(c)'
    BY <1>1, <1>2, <2>1, <2>5, <2>6, <2>7, ServiceAssumption DEF CallInv, TypeOK
  <2>15. \A j \in DOMAIN conn : WorkerInv(j)' /\ ConnInv(j)' /\ TraceInv(j)'
    <3> SUFFICES ASSUME NEW j \in DOMAIN conn
                 PROVE  WorkerInv(j)' /\ ConnInv(j)' /\ TraceInv(j)'
      OBVIOUS
    <3>1. /\ WorkerInv(j) /\ ConnInv(j) /\ TraceInv(j) /\ conn[j].who \in Clients /\ j # k
          /\ conn'[j] = conn[j] /\ (j \in Range(backlog') <=> j \in Range(backlog))
      BY <1>1, <2>6, <2>8 DEF ServiceInv, Conns
    <3>2. conn[j].client => lib'[conn[j].who].sk = j
      BY <1>1, <2>7, <3>1 DEF ConnInv
    <3>3. ConnInv(j)'
      BY <1>2, <3>1, <3>2 DEF ConnInv, Req, self_dump
    <3>4. WorkerInv(j)' /\ TraceInv(j)'
      BY <1>2, <3>1 DEF WorkerInv, TraceInv, Req, Target, Client
    <3> QED BY <3>3, <3>4
  <2>16. WorkerInv(k)' /\ ConnInv(k)' /\ TraceInv(k)'
    BY <1>2, <2>5, <2>6, <2>7, <2>9 DEF WorkerInv, ConnInv, TraceInv
  <2>17. /\ \A d \in Dirs : ImageInv(imgs[d])'
         /\ \A j \in Ids : ImageInv(worker[j].im)'
    BY <1>2, <2>11, ImageFrame DEF ServiceInv, ImageInv, Req
  <2> QED
    BY <1>2, <2>6, <2>8, <2>10, <2>12, <2>13, <2>14, <2>15, <2>16, <2>17
       DEF ServiceInv, AnswersAreRight
<1> QED BY <1>3, <1>4

\* A client that leaves its call, by a return, a death or a kill.
LEMMA LeaveKeeps ==
  ASSUME ServiceInv, NEW c \in Clients,
         lib' = [lib EXCEPT ![c] = Idle(lib[c].n)], conn' = Left(conn, c)
  PROVE  /\ lib' \in [Clients -> Calls] /\ lib'[c].pc = "idle" /\ lib'[c].sk = 0
         /\ \A d \in Clients : d # c => lib'[d] = lib[d]
         /\ \A d \in Clients : d # c /\ lib[d].sk # 0 =>
              lib[d].sk \in DOMAIN conn /\ conn'[lib[d].sk] = conn[lib[d].sk]
<1>1. TypeOK /\ CallInv(c)
  BY DEF ServiceInv
<1>2. /\ lib' \in [Clients -> Calls] /\ lib'[c].pc = "idle" /\ lib'[c].sk = 0
      /\ \A d \in Clients : d # c => lib'[d] = lib[d]
  BY <1>1, Zero DEF TypeOK, Calls, Idle
<1>3. ASSUME NEW d \in Clients, d # c, lib[d].sk # 0
      PROVE  lib[d].sk \in DOMAIN conn /\ conn'[lib[d].sk] = conn[lib[d].sk]
  <2>1. lib[d].sk \in DOMAIN conn /\ lib[d].sk # lib[c].sk
    BY <1>3 DEF ServiceInv, CallInv
  <2> QED BY <2>1 DEF Left
<1> QED BY <1>2, <1>3

LEMMA ClientLeaves ==
  ASSUME ServiceInv, NEW c \in Clients, task[c] = "run",
         lib' = [lib EXCEPT ![c] = Idle(lib[c].n)], conn' = Left(conn, c),
         UNCHANGED <<prog, by, from, imgs, serverVars, worker, fate>>,
         task' \in {task, [task EXCEPT ![c] = "dead"]},
         \/ UNCHANGED res
         \/ \E val : /\ res' = [res EXCEPT ![c] = [id |-> lib[c].id, val |-> val]]
                     /\ res'[c] \in Results /\ ResInv(c)' /\ RightAnswer(c)'
  PROVE  ServiceInv'
<1>1. /\ TypeOK /\ CallInv(c) /\ UNCHANGED <<server, backlog>>
      /\ DOMAIN conn \subseteq Ids /\ \A i \in DOMAIN conn : conn[i] \in Conns
  BY ConnIds DEF ServiceInv, serverVars
<1>2. /\ conn' \in Seq(Conns) /\ Len(conn') = Len(conn) /\ DOMAIN conn' = DOMAIN conn
      /\ \A i \in DOMAIN conn :
           /\ conn'[i].who = conn[i].who /\ conn'[i].req = conn[i].req
           /\ conn'[i].sent = conn[i].sent /\ conn'[i].held = conn[i].held
           /\ conn'[i].client <=> (conn[i].client /\ i # lib[c].sk)
           /\ conn'[i].resp = IF i = lib[c].sk THEN Nothing ELSE conn[i].resp
  BY <1>1, LeftEffect
<1>3. /\ lib' \in [Clients -> Calls] /\ lib'[c].pc = "idle" /\ lib'[c].sk = 0
      /\ \A d \in Clients : d # c => lib'[d] = lib[d]
      /\ \A d \in Clients : d # c /\ lib[d].sk # 0 =>
           lib[d].sk \in DOMAIN conn /\ conn'[lib[d].sk] = conn[lib[d].sk]
  BY LeaveKeeps
<1>4. /\ res' \in [Clients -> Results]
      /\ \A d \in Clients : d # c => res'[d] = res[d]
      /\ res'[c] = res[c] \/ (ResInv(c)' /\ RightAnswer(c)')
  BY <1>1 DEF TypeOK
<1>5. /\ task' \in [Clients -> {"run", "frozen", "dead", "forked"}]
      /\ \A d \in Clients : d # c => task'[d] = task[d]
  BY <1>1 DEF TypeOK
<1>6. TypeOK'
  BY <1>1, <1>2, <1>3, <1>4, <1>5 DEF TypeOK
<1>7. KeptConns /\ KeptFates
  BY <1>1, <1>2 DEF KeptConns, KeptFates, Over
<1>8. \A d \in Clients : d # c => CallInv(d)'
  BY <1>3, <1>5, <1>6, <1>7, CallFrame DEF ServiceInv, CallInv
<1>9. CallInv(c)'
  BY <1>1, <1>2, <1>3 DEF CallInv
<1>10. \A d \in Clients : ResInv(d)' /\ RightAnswer(d)'
  BY <1>4, <1>7, ResFrame
<1>11. \A j \in DOMAIN conn : WorkerInv(j)' /\ ConnInv(j)' /\ TraceInv(j)'
  <2> SUFFICES ASSUME NEW j \in DOMAIN conn
               PROVE  WorkerInv(j)' /\ ConnInv(j)' /\ TraceInv(j)'
    OBVIOUS
  <2>1. WorkerInv(j)'
    BY <1>1, <1>2 DEF ServiceInv, WorkerInv, Req
  <2>2. ConnInv(j)'
    <3>1. conn'[j].client => lib'[conn'[j].who].sk = j
      BY <1>1, <1>2, <1>3 DEF ServiceInv, ConnInv, Conns
    <3>2. conn'[j].resp # Nothing => conn'[j].resp = conn[j].resp
      BY <1>2
    <3>3. conn'[j].client => conn'[j].resp = conn[j].resp
      BY <1>2
    <3>4. ConnInv(j) /\ self_dump(j)' = self_dump(j) /\ Req(j)' = Req(j)
      BY <1>2 DEF ServiceInv, self_dump, Req
    <3> QED BY <1>1, <1>2, <3>1, <3>2, <3>3, <3>4 DEF ConnInv
  <2>3. TraceInv(j)'
    <3>1. \A d \in Clients : task[d] # "run" => task'[d] = task[d]
      BY <1>5
    <3>2. Target(j) \in Clients /\ Target(j)' = Target(j)
      BY <1>1, <1>2 DEF Target, Req, Client, Conns, Requests
    <3>3. worker[j].pc = "open" => worker[j].im.task \in Clients
      <4>1. worker[j].im \in Images \cup {NoImage}
        BY <1>1 DEF TypeOK, Workers
      <4>2. worker[j].pc = "open" => worker[j].im.done
        BY DEF ServiceInv, TraceInv
      <4> QED BY <4>1, <4>2, ImageTyped DEF Images
    <3> QED BY <1>1, <3>1, <3>2, <3>3 DEF ServiceInv, TraceInv
  <2> QED BY <2>1, <2>2, <2>3
<1>12. /\ \A d \in Dirs : ImageInv(imgs[d])'
       /\ \A j \in Ids : ImageInv(worker[j].im)'
  BY <1>1, <1>7, ImageFrame DEF ServiceInv, ImageInv, Req
<1> QED
  BY <1>1, <1>2, <1>6, <1>8, <1>9, <1>10, <1>11, <1>12 DEF ServiceInv, AnswersAreRight

\* A client that finds the server's end closed and no answer was not served, or
\* its worker could not answer.
LEMMA NobodyServed ==
  ASSUME ServiceInv, NEW c \in Clients, lib[c].sk # 0, HungUp(lib[c].sk),
         conn[lib[c].sk].resp = Nothing
  PROVE  Over(lib[c].sk) /\ (fate[lib[c].sk] # "done" \/ ~worker[lib[c].sk].ok)
<1>1. PICK i \in DOMAIN conn : i = lib[c].sk /\ conn[i].client
  BY DEF ServiceInv, CallInv
<1>2. WorkerInv(i) /\ ConnInv(i) /\ i \in Ids /\ worker[i].pc \in WorkerPcs
  BY <1>1, ConnIds DEF ServiceInv, TypeOK, Workers
<1>3. Over(i)
  BY <1>1, <1>2 DEF ConnInv, HungUp, Over
<1> QED BY <1>1, <1>2, <1>3 DEF Over, WorkerInv, ConnInv

LEMMA SendKeeps ==
  ASSUME ServiceInv, NEW c \in Clients, send_req(c)
  PROVE  ServiceInv'
<1>1. /\ TypeOK /\ CallInv(c) /\ task[c] = "run" /\ lib[c].pc = "send" /\ lib[c].sk # 0
      /\ lib[c] \in Calls /\ UNCHANGED <<serverVars, worker, fate>>
  BY DEF ServiceInv, TypeOK, CallInv, send_req
<1>2. PICK i \in DOMAIN conn :
        /\ i = lib[c].sk /\ lib[c].id = i /\ conn[i].client /\ conn[i].who = c
        /\ ~conn[i].sent /\ from[c] # i
  BY <1>1 DEF CallInv
<1>3. /\ DOMAIN conn \subseteq Ids /\ \A j \in DOMAIN conn : conn[j] \in Conns
      /\ UNCHANGED <<server, backlog>>
  BY <1>1, ConnIds DEF serverVars
<1>4. CASE HungUp(lib[c].sk) /\ Return(c, "ECOMM")
  <2>1. conn[i].resp = Nothing
    BY <1>2, <1>3 DEF ServiceInv, ConnInv, WorkerInv, Conns
  <2>2. Over(i) /\ fate[i] # "done"
    BY <1>1, <1>2, <1>3, <1>4, <2>1, NobodyServed DEF ServiceInv, WorkerInv
  <2>3. res' = [res EXCEPT ![c] = [id |-> i, val |-> "ECOMM"]]
    BY <1>2, <1>4 DEF Return
  <2>4. res'[c].id = i /\ res'[c].val = "ECOMM" /\ res'[c] \in Results
    BY <1>1, <1>2, <2>3 DEF TypeOK, Results, Calls
  <2>5. ResInv(c)' /\ RightAnswer(c)'
    <3>1. DOMAIN conn' = DOMAIN conn
      BY <1>1, <1>4, LeftEffect DEF Return
    <3>2. i # 0
      BY <1>1, <1>2
    <3>3. Over(i)' /\ fate'[i] # "done"
      BY <1>1, <1>3, <2>2 DEF Over
    <3> QED BY <1>2, <2>4, <3>1, <3>2, <3>3 DEF ResInv, RightAnswer
  <2>6. /\ lib' = [lib EXCEPT ![c] = Idle(lib[c].n)] /\ conn' = Left(conn, c)
        /\ UNCHANGED <<prog, task, by, from, imgs>>
    BY <1>4 DEF Return, taskVars
  <2> QED BY <1>1, <1>2, <2>3, <2>4, <2>5, <2>6, ClientLeaves
<1>5. CASE /\ HungUp(lib[c].sk)
           /\ task' = [task EXCEPT ![c] = "dead"]
           /\ lib' = [lib EXCEPT ![c] = Idle(lib[c].n)]
           /\ conn' = Left(conn, c)
           /\ UNCHANGED <<prog, by, from, imgs, res>>
  BY <1>1, <1>5, ClientLeaves
<1>6. CASE /\ conn' = [conn EXCEPT ![lib[c].sk].sent = TRUE]
           /\ lib' = [lib EXCEPT ![c].pc = "recv"]
           /\ UNCHANGED <<res, taskVars>>
  <2>1. PICK x : x = [conn[i] EXCEPT !.sent = TRUE]
    OBVIOUS
  <2>2. /\ x \in Conns /\ conn' = [conn EXCEPT ![i] = x]
        /\ x.who = conn[i].who /\ x.req = conn[i].req
        /\ x.sent /\ x.client = conn[i].client /\ x.resp = conn[i].resp
        /\ x.held = conn[i].held
    BY <1>2, <1>3, <1>6, <2>1 DEF Conns
  <2>3. /\ conn' \in Seq(Conns) /\ Len(conn') = Len(conn) /\ DOMAIN conn' = DOMAIN conn
        /\ conn'[i] = x /\ \A j \in DOMAIN conn : j # i => conn'[j] = conn[j]
    BY <1>1, <2>2, ConnEffect
  <2>4. /\ lib' \in [Clients -> Calls] /\ lib'[c].pc = "recv" /\ lib'[c].sk = i
        /\ lib'[c].id = i /\ \A d \in Clients : d # c => lib'[d] = lib[d]
    BY <1>1, <1>2, <1>6 DEF TypeOK, Calls
  <2>5. UNCHANGED <<prog, task, by, from, imgs, res>>
    BY <1>6 DEF taskVars
  <2>6. TypeOK'
    BY <1>1, <1>3, <2>3, <2>4, <2>5 DEF TypeOK
  <2>7. KeptConns /\ KeptFates
    BY <1>1, <1>3, <2>2, <2>3 DEF KeptConns, KeptFates, Over
  <2>8. \A d \in Clients : d # c => CallInv(d)'
    <3>1. \A d \in Clients : d # c => lib[d].sk # i
      BY <1>2 DEF ServiceInv, CallInv
    <3> QED BY <2>3, <2>4, <2>5, <2>6, <2>7, <3>1, CallFrame DEF ServiceInv, CallInv
  <2>9. CallInv(c)'
    BY <1>1, <1>2, <2>2, <2>3, <2>4, <2>5 DEF CallInv
  <2>10. \A d \in Clients : ResInv(d)' /\ RightAnswer(d)'
    BY <2>5, <2>7, ResFrame
  <2>11. \A j \in DOMAIN conn : WorkerInv(j)' /\ ConnInv(j)' /\ TraceInv(j)'
    BY <1>1, <1>2, <1>3, <2>2, <2>3, <2>4, <2>5
       DEF ServiceInv, WorkerInv, ConnInv, TraceInv, Req, Target, Client, self_dump, Conns
  <2>12. /\ \A d \in Dirs : ImageInv(imgs[d])'
         /\ \A j \in Ids : ImageInv(worker[j].im)'
    BY <1>1, <2>5, <2>7, ImageFrame DEF ServiceInv, ImageInv, Req
  <2> QED
    BY <1>1, <1>3, <2>3, <2>6, <2>8, <2>9, <2>10, <2>11, <2>12
       DEF ServiceInv, AnswersAreRight
<1> QED BY <1>4, <1>5, <1>6 DEF send_req

LEMMA ReceiveKeeps ==
  ASSUME ServiceInv, NEW c \in Clients, recv_resp(c)
  PROVE  ServiceInv'
<1>1. /\ TypeOK /\ CallInv(c) /\ task[c] = "run" /\ lib[c].pc = "recv"
      /\ lib[c] \in Calls /\ UNCHANGED <<serverVars, worker, fate>>
      /\ DOMAIN conn \subseteq Ids /\ \A j \in DOMAIN conn : conn[j] \in Conns
      /\ DOMAIN conn = 1..Len(conn) /\ Len(conn) \in Nat /\ 0 \notin DOMAIN conn
  BY ConnIds DEF ServiceInv, TypeOK, recv_resp
<1>2. PICK i \in DOMAIN conn : i = lib[c].id
  BY <1>1, ServiceAssumption DEF CallInv, TypeOK
\* The value it returns says what came of the request.
<1>3. PICK v : /\ Return(c, v)
               /\ \/ v \in {"ok", "pid"} /\ fate[i] = "done" /\ from[c] # i
                  \/ v = "restored" /\ fate[i] = "done" /\ from[c] = i
                  \/ v = "EINVAL" /\ Req(i).type = "OTHER"
                  \/ v = "EBADE" /\ fate[i] # "done" /\ Over(i)
                  \/ v = "ECOMM" /\ (fate[i] # "done" \/ ~worker[i].ok) /\ Over(i)
  <2>1. CASE lib[c].sk = 0
    <3>1. Return(c, Result(conn[lib[c].id].req, RestoredResp))
      BY <2>1 DEF recv_resp, Pending, RestoredResp, Nothing
    <3>2. conn[i].req.type = "DUMP" /\ fate[i] = "done" /\ from[c] = i
      BY <1>1, <1>2, <2>1 DEF CallInv, Req
    <3>3. Result(conn[lib[c].id].req, RestoredResp) = "restored"
      BY <1>2, <3>2 DEF Result, RestoredResp
    <3> QED BY <3>1, <3>2, <3>3
  <2>2. CASE lib[c].sk # 0 /\ Pending(c) = Nothing
    <3>1. Return(c, "ECOMM") /\ HungUp(lib[c].sk) /\ conn[lib[c].sk].resp = Nothing
      BY <2>2 DEF recv_resp, Pending
    <3>2. lib[c].sk = i
      BY <1>1, <1>2, <2>2 DEF CallInv
    <3> QED BY <2>2, <3>1, <3>2, NobodyServed
  <2>3. CASE lib[c].sk # 0 /\ Pending(c) # Nothing
    <3>1. lib[c].sk = i /\ from[c] # i
      BY <1>1, <1>2, <2>3 DEF CallInv
    <3>2. PICK r : r = conn[i].resp
      OBVIOUS
    <3>3. Return(c, Result(conn[i].req, r)) /\ r # Nothing
      BY <1>2, <2>3, <3>1, <3>2 DEF recv_resp, Pending
    <3>4. /\ worker[i].pc \in {"zombie", "gone"} /\ ~r.restored
          /\ (r.success <=> fate[i] = "done")
          /\ r.type = IF Req(i).type = "OTHER" THEN "EMPTY" ELSE Req(i).type
          /\ r \in Responses /\ i \notin Range(backlog)
      BY <1>1, <3>2, <3>3 DEF ServiceInv, ConnInv, Conns
    <3>5. Over(i) /\ (r.success <=> fate[i] = "done")
      BY <3>4 DEF Over
    <3>6. CASE Req(i).type = "OTHER"
      <4>1. Result(conn[i].req, r) = "EINVAL"
        BY <3>4, <3>6 DEF Result
      <4> QED BY <3>3, <3>6, <4>1
    <3>7. CASE Req(i).type # "OTHER" /\ ~r.success
      <4>1. r.type = conn[i].req.type /\ r.type # "EMPTY"
        BY <1>1, <3>4, <3>7 DEF Req, Conns, Requests
      <4>2. Result(conn[i].req, r) = "EBADE"
        BY <3>7, <4>1 DEF Result
      <4> QED BY <3>3, <3>5, <3>7, <4>2
    <3>8. CASE Req(i).type # "OTHER" /\ r.success
      <4>1. r.type = conn[i].req.type /\ r.type # "EMPTY"
        BY <1>1, <3>4, <3>8 DEF Req, Conns, Requests
      <4>2. Result(conn[i].req, r) \in {"ok", "pid"}
        BY <3>4, <3>8, <4>1 DEF Result
      <4> QED BY <3>1, <3>3, <3>5, <3>8, <4>2
    <3> QED BY <3>6, <3>7, <3>8
  <2> QED BY <2>1, <2>2, <2>3
<1>4. /\ res' = [res EXCEPT ![c] = [id |-> i, val |-> v]]
      /\ lib' = [lib EXCEPT ![c] = Idle(lib[c].n)] /\ conn' = Left(conn, c)
      /\ UNCHANGED <<prog, task, by, from, imgs>>
  BY <1>2, <1>3 DEF Return, taskVars
<1>5. res'[c].id = i /\ res'[c].val = v /\ res'[c] \in Results
  BY <1>1, <1>2, <1>3, <1>4 DEF TypeOK, Results, Calls
<1>6. ResInv(c)' /\ RightAnswer(c)'
  <2>1. DOMAIN conn' = DOMAIN conn /\ conn'[i].req = conn[i].req /\ i # 0
    BY <1>1, <1>4, LeftEffect
  <2>2. (Over(i) => Over(i)') /\ fate' = fate /\ from' = from /\ worker' = worker
    BY <1>1, <1>4 DEF Over, serverVars
  <2>3. ResInv(c)'
    BY <1>3, <1>5, <2>1, <2>2 DEF ResInv
  <2>4. RightAnswer(c)'
    BY <1>3, <1>5, <2>1, <2>2 DEF RightAnswer, Req
  <2> QED BY <2>3, <2>4
<1> QED BY <1>1, <1>2, <1>4, <1>5, <1>6, ClientLeaves

LEMMA ExitKeeps ==
  ASSUME ServiceInv, NEW c \in Clients, Exit(c)
  PROVE  ServiceInv'
<1>1. /\ task[c] = "run" /\ lib' = [lib EXCEPT ![c] = Idle(lib[c].n)]
      /\ conn' = Left(conn, c) /\ task' = [task EXCEPT ![c] = "dead"]
      /\ UNCHANGED <<prog, by, from, imgs, res, serverVars, worker, fate>>
  BY DEF Exit
<1> QED BY <1>1, ClientLeaves

-----------------------------------------------------------------------------
(* The workers *)

\* What a step of one worker that leaves the connections alone preserves.
LEMMA WorkerFrame ==
  ASSUME ServiceInv, NEW i \in DOMAIN conn,
         worker[i].pc \notin {"none", "answer", "zombie", "gone"},
         worker' \in [Ids -> Workers], \A j \in Ids : j # i => worker'[j] = worker[j],
         \A j \in Ids : j # i => fate'[j] = fate[j],
         UNCHANGED <<conn, backlog>>
  PROVE  /\ KeptConns /\ KeptFates /\ DOMAIN conn \subseteq Ids
         /\ \A j \in DOMAIN conn : j # i =>
              WorkerInv(j)' /\ (lib' = lib => ConnInv(j)')
         /\ Target(i) \in Clients /\ Req(i) \in Requests
<1>1. TypeOK /\ DOMAIN conn \subseteq Ids /\ fate[i] = "none" /\ conn[i] \in Conns
  BY ConnIds DEF ServiceInv, WorkerInv
<1>2. KeptConns /\ KeptFates
  BY <1>1 DEF KeptConns, KeptFates, Over
<1>3. Target(i) \in Clients /\ Req(i) \in Requests
  BY <1>1 DEF Target, Req, Client, Conns, Requests
<1>4. \A j \in DOMAIN conn : j # i => WorkerInv(j)' /\ (lib' = lib => ConnInv(j)')
  BY <1>1 DEF ServiceInv, WorkerInv, ConnInv, Req, self_dump
<1> QED BY <1>1, <1>2, <1>3, <1>4

\* A task in the hands of one worker is not in the hands of another.
LEMMA TraceFrame ==
  ASSUME ServiceInv, KeptConns, NEW i \in DOMAIN conn, NEW t \in Clients,
         \A j \in Ids : j # i => worker'[j] = worker[j],
         \A c \in Clients : c # t => task'[c] = task[c] /\ by'[c] = by[c],
         task[t] \in {"run", "dead"} \/ by[t] = i
  PROVE  \A j \in DOMAIN conn : j # i => TraceInv(j)'
<1> SUFFICES ASSUME NEW j \in DOMAIN conn, j # i PROVE TraceInv(j)'
  OBVIOUS
<1>1. TypeOK /\ TraceInv(j) /\ j \in Ids
  BY ConnIds DEF ServiceInv
<1>2. worker'[j] = worker[j] /\ Target(j)' = Target(j)
  BY <1>1 DEF KeptConns, Target, Req, Client
<1>3. Target(j) \in Clients
  BY <1>1, ConnIds DEF Target, Req, Client, Conns, Requests
<1>4. worker[j].pc = "open" => worker[j].im.task \in Clients
  <2>1. worker[j].im \in Images \cup {NoImage}
    BY <1>1 DEF TypeOK, Workers
  <2> QED BY <1>1, <2>1, ImageTyped DEF TraceInv, Images
<1> QED BY <1>1, <1>2, <1>3, <1>4 DEF TraceInv

LEMMA WorkKeeps ==
  ASSUME ServiceInv, NEW i \in DOMAIN conn, cr_service_work(i)
  PROVE  ServiceInv'
<1>1. /\ TypeOK /\ WorkerInv(i) /\ ConnInv(i) /\ i \in Ids /\ worker[i].pc = "recv"
      /\ fate[i] = "none" /\ ~worker[i].ok
  BY ConnIds DEF ServiceInv, WorkerInv, cr_service_work
<1>2. PICK type \in recv_criu_msg(i), l \in {"check", "seize", "restore", "answer"} :
        /\ Step(i, l)
        /\ l = "check" => type = "CHECK"
        /\ l = "seize" => type = "DUMP"
        /\ l = "restore" => type = "RESTORE"
        /\ fate' \in {fate, [fate EXCEPT ![i] = "failed"]}
        /\ l # "answer" => fate' = fate
  BY DEF cr_service_work
<1>3. \/ conn[i].sent /\ type = Req(i).type
      \/ ~conn[i].sent /\ ~conn[i].client /\ type = "none"
  BY <1>2 DEF recv_criu_msg
<1>4. /\ worker' \in [Ids -> Workers] /\ worker'[i].pc = l
      /\ worker'[i].ok = worker[i].ok /\ worker'[i].im = worker[i].im
      /\ \A j \in Ids : j # i => worker'[j] = worker[j]
  BY <1>1, <1>2, StepEffect DEF WorkerPcs
<1>5. /\ fate' \in [Ids -> {"none", "done", "failed"}] /\ fate'[i] # "done"
      /\ (l # "answer" => fate'[i] = "none") /\ \A j \in Ids : j # i => fate'[j] = fate[j]
  BY <1>1, <1>2 DEF TypeOK
<1>6. UNCHANGED <<prog, task, by, from, imgs, lib, res, conn, server, backlog>>
  BY DEF cr_service_work, taskVars, serverVars
<1>7. TypeOK'
  BY <1>1, <1>4, <1>5, <1>6 DEF TypeOK
<1>8. /\ KeptConns /\ KeptFates /\ DOMAIN conn \subseteq Ids
      /\ \A j \in DOMAIN conn : j # i => WorkerInv(j)' /\ ConnInv(j)'
  BY <1>1, <1>4, <1>5, <1>6, WorkerFrame
<1>9. \A c \in Clients : CallInv(c)' /\ ResInv(c)' /\ RightAnswer(c)'
  BY <1>6, <1>7, <1>8, CallFrame, ResFrame DEF ServiceInv, CallInv
<1>10. WorkerInv(i)' /\ ConnInv(i)'
  BY <1>1, <1>2, <1>3, <1>4, <1>5, <1>6 DEF WorkerInv, ConnInv, Req, self_dump
<1>11. \A j \in DOMAIN conn : TraceInv(j)'
  BY <1>2, <1>4, <1>6, <1>8 DEF ServiceInv, TraceInv, Target, Req, Client
<1>12. /\ \A d \in Dirs : ImageInv(imgs[d])'
       /\ \A j \in Ids : ImageInv(worker[j].im)'
  BY SMTT(30), <1>1, <1>4, <1>6, <1>8, ImageFrame DEF ServiceInv, ImageInv, Req
<1> QED
  BY <1>4, <1>5, <1>6, <1>7, <1>8, <1>9, <1>10, <1>11, <1>12
     DEF ServiceInv, AnswersAreRight

LEMMA CheckKeeps ==
  ASSUME ServiceInv, NEW i \in DOMAIN conn, check(i)
  PROVE  ServiceInv'
<1>1. /\ TypeOK /\ WorkerInv(i) /\ ConnInv(i) /\ i \in Ids /\ worker[i].pc = "check"
      /\ fate[i] = "none" /\ conn[i].sent /\ Req(i).type = "CHECK"
  BY ConnIds DEF ServiceInv, WorkerInv, check
<1>2. PICK ok \in BOOLEAN :
        /\ worker' = [worker EXCEPT ![i].pc = "answer", ![i].ok = ok]
        /\ fate' = [fate EXCEPT ![i] = IF ok THEN "done" ELSE "failed"]
  BY DEF check
<1>3. /\ worker' \in [Ids -> Workers] /\ worker'[i].pc = "answer"
      /\ worker'[i].ok = ok /\ worker'[i].im = worker[i].im
      /\ \A j \in Ids : j # i => worker'[j] = worker[j]
  BY ZenonT(60), <1>1, <1>2 DEF TypeOK, Workers, WorkerPcs
<1>4. /\ fate' \in [Ids -> {"none", "done", "failed"}] /\ (fate'[i] = "done" <=> ok)
      /\ \A j \in Ids : j # i => fate'[j] = fate[j]
  BY <1>1, <1>2 DEF TypeOK
<1>5. UNCHANGED <<prog, task, by, from, imgs, lib, res, conn, server, backlog>>
  BY DEF check, taskVars, serverVars
<1>6. TypeOK'
  BY <1>1, <1>3, <1>4, <1>5 DEF TypeOK
<1>7. /\ KeptConns /\ KeptFates /\ DOMAIN conn \subseteq Ids
      /\ \A j \in DOMAIN conn : j # i => WorkerInv(j)' /\ ConnInv(j)'
  BY <1>1, <1>3, <1>4, <1>5, WorkerFrame
<1>8. \A c \in Clients : CallInv(c)' /\ ResInv(c)' /\ RightAnswer(c)'
  BY <1>5, <1>6, <1>7, CallFrame, ResFrame DEF ServiceInv, CallInv
<1>9. WorkerInv(i)' /\ ConnInv(i)'
  BY <1>1, <1>3, <1>4, <1>5 DEF WorkerInv, ConnInv, Req, self_dump
<1>10. \A j \in DOMAIN conn : TraceInv(j)'
  BY <1>3, <1>5, <1>7 DEF ServiceInv, TraceInv, Target, Req, Client
<1>11. /\ \A d \in Dirs : ImageInv(imgs[d])'
       /\ \A j \in Ids : ImageInv(worker[j].im)'
  BY SMTT(30), <1>1, <1>3, <1>5, <1>7, ImageFrame DEF ServiceInv, ImageInv, Req
<1> QED
  BY <1>3, <1>4, <1>5, <1>6, <1>7, <1>8, <1>9, <1>10, <1>11
     DEF ServiceInv, AnswersAreRight

LEMMA SeizeKeeps ==
  ASSUME ServiceInv, NEW i \in DOMAIN conn, seize(i)
  PROVE  ServiceInv'
<1>1. /\ TypeOK /\ WorkerInv(i) /\ ConnInv(i) /\ i \in Ids /\ worker[i].pc = "seize"
      /\ fate[i] = "none" /\ ~worker[i].ok /\ conn[i].sent /\ Req(i).type = "DUMP"
  BY ConnIds DEF ServiceInv, WorkerInv, seize
<1>2. PICK t : t = Target(i)
  OBVIOUS
<1>3. PICK l \in {"dump", "answer"} :
        /\ Step(i, l)
        /\ l = "dump" => /\ task[t] = "run" /\ task' = [task EXCEPT ![t] = "frozen"]
                         /\ by' = [by EXCEPT ![t] = i] /\ fate' = fate
        /\ l = "answer" => fate' = [fate EXCEPT ![i] = "failed"] /\ UNCHANGED <<task, by>>
  BY <1>2 DEF seize
<1>4. /\ worker' \in [Ids -> Workers] /\ worker'[i].pc = l
      /\ worker'[i].ok = worker[i].ok /\ worker'[i].im = worker[i].im
      /\ \A j \in Ids : j # i => worker'[j] = worker[j]
  BY <1>1, <1>3, StepEffect DEF WorkerPcs
<1>5. /\ fate' \in [Ids -> {"none", "done", "failed"}] /\ fate'[i] # "done"
      /\ (l = "dump" => fate'[i] = "none") /\ \A j \in Ids : j # i => fate'[j] = fate[j]
  BY <1>1, <1>3 DEF TypeOK
<1>6. UNCHANGED <<prog, from, lib, res, conn, server, backlog>>
  BY DEF seize, serverVars
<1>7. /\ KeptConns /\ KeptFates /\ DOMAIN conn \subseteq Ids /\ t \in Clients
      /\ Req(i) \in Requests
      /\ \A j \in DOMAIN conn : j # i => WorkerInv(j)' /\ ConnInv(j)'
  BY <1>1, <1>2, <1>4, <1>5, <1>6, WorkerFrame
<1>8. /\ task' \in [Clients -> {"run", "frozen", "dead", "forked"}]
      /\ by' \in [Clients -> 0..MaxConns]
      /\ \A c \in Clients : task[c] # "run" \/ c # t => task'[c] = task[c] /\ by'[c] = by[c]
      /\ l = "dump" => task'[t] = "frozen" /\ by'[t] = i
      /\ \A c \in Clients : task'[c] \in {"dead", "forked"} => task'[c] = task[c]
  <2>1. i \in 0..MaxConns
    BY <1>1, ServiceAssumption DEF Ids
  <2>2. CASE l = "dump"
    <3>1. /\ task' = [task EXCEPT ![t] = "frozen"] /\ by' = [by EXCEPT ![t] = i]
          /\ task[t] = "run"
      BY <1>3, <2>2
    <3>2. /\ task' \in [Clients -> {"run", "frozen", "dead", "forked"}]
          /\ task'[t] = "frozen" /\ \A c \in Clients : c # t => task'[c] = task[c]
      BY <1>1, <1>7, <3>1 DEF TypeOK
    <3>3. /\ by' \in [Clients -> 0..MaxConns]
          /\ by'[t] = i /\ \A c \in Clients : c # t => by'[c] = by[c]
      BY <1>1, <1>7, <2>1, <3>1 DEF TypeOK
    <3> QED BY <1>7, <3>1, <3>2, <3>3
  <2>3. CASE l = "answer"
    BY <1>1, <1>3, <2>3 DEF TypeOK
  <2> QED BY <2>2, <2>3
<1>9. /\ imgs' \in [Dirs -> Images \cup {NoImage}]
      /\ \A d \in Dirs : imgs'[d] = imgs[d] \/ imgs'[d] = NoImage
  BY <1>1 DEF seize, TypeOK
<1>10. TypeOK'
  BY <1>1, <1>4, <1>5, <1>6, <1>8, <1>9 DEF TypeOK
<1>11. \A c \in Clients : CallInv(c)' /\ ResInv(c)' /\ RightAnswer(c)'
  BY <1>6, <1>7, <1>8, <1>10, CallFrame, ResFrame DEF ServiceInv, CallInv
<1>12. WorkerInv(i)' /\ ConnInv(i)'
  BY <1>1, <1>3, <1>4, <1>5, <1>6 DEF WorkerInv, ConnInv, Req, self_dump
<1>13. \A j \in DOMAIN conn : TraceInv(j)'
  <2>1. TraceInv(i)'
    BY <1>2, <1>3, <1>4, <1>6, <1>8 DEF TraceInv, Target, Req, Client
  <2>2. \A j \in DOMAIN conn : j # i => TraceInv(j)'
    <3>1. CASE l = "dump"
      BY <1>3, <1>4, <1>7, <1>8, <3>1, TraceFrame
    <3>2. CASE l = "answer"
      BY <1>3, <1>4, <1>6, <1>7, <3>2 DEF ServiceInv, TraceInv, Target, Req, Client
    <3> QED BY <3>1, <3>2
  <2> QED BY <2>1, <2>2
<1>14. /\ \A d \in Dirs : ImageInv(imgs[d])'
       /\ \A j \in Ids : ImageInv(worker[j].im)'
  BY SMTT(30), <1>1, <1>4, <1>7, <1>9, ImageFrame DEF ServiceInv, ImageInv, Req, NoImage
<1> QED
  BY <1>4, <1>5, <1>6, <1>7, <1>10, <1>11, <1>12, <1>13, <1>14
     DEF ServiceInv, AnswersAreRight

LEMMA DumpKeeps ==
  ASSUME ServiceInv, NEW i \in DOMAIN conn, dump_one_task(i)
  PROVE  ServiceInv'
<1>1. /\ TypeOK /\ WorkerInv(i) /\ ConnInv(i) /\ i \in Ids /\ worker[i].pc = "dump"
      /\ fate[i] = "none" /\ ~worker[i].ok /\ conn[i].sent /\ Req(i).type = "DUMP"
  BY ConnIds DEF ServiceInv, WorkerInv, dump_one_task
<1>2. PICK t : t = Target(i)
  OBVIOUS
<1>3. UNCHANGED <<prog, task, by, from, lib, res, conn, server, backlog, fate>>
  BY DEF dump_one_task, serverVars
<1>4. /\ worker' \in [Ids -> Workers] /\ worker'[i].pc = "switch"
      /\ worker'[i].im = worker[i].im
      /\ \A j \in Ids : j # i => worker'[j] = worker[j]
  <2>1. CASE worker' = [worker EXCEPT ![i].pc = "switch", ![i].ok = TRUE]
    BY <1>1, <2>1, WorkerEffect
  <2>2. CASE Step(i, "switch")
    BY <1>1, <2>2, StepEffect DEF WorkerPcs
  <2> QED BY <2>1, <2>2 DEF dump_one_task
<1>5. /\ KeptConns /\ KeptFates /\ DOMAIN conn \subseteq Ids /\ t \in Clients
      /\ Req(i) \in Requests
      /\ \A j \in DOMAIN conn : j # i => WorkerInv(j)' /\ ConnInv(j)'
  BY <1>1, <1>2, <1>3, <1>4, WorkerFrame
<1>6. lib[t] \in Calls /\ CallInv(t)
  BY <1>1, <1>5 DEF TypeOK, ServiceInv
\* What is written of the task's own call.
<1>7. ASSUME NEW s \in dump_one_unix_fd(i, t)
      PROVE  s \in Socks /\ (s = "service" => lib[t].id = i /\ lib[t].pc = "recv")
  <2>1. CASE SockState(t) = "connected"
    <3>1. s = "service" /\ lib[t].sk = i
      BY <1>7, <2>1 DEF dump_one_unix_fd, dump_external_sockets
    <3>2. lib[t].sk # 0
      BY <1>1, <3>1, ConnIds
    <3>3. lib[t].id = i /\ lib[t].pc = "recv"
      BY <1>1, <1>6, <3>1, <3>2 DEF CallInv, Calls
    <3> QED BY <3>1, <3>3 DEF Socks
  <2>2. CASE SockState(t) # "connected"
    BY <1>7, <2>2 DEF dump_one_unix_fd, SockState, Socks
  <2> QED BY <2>1, <2>2
<1>8. \/ imgs' = imgs
      \/ \E x : /\ imgs' = [imgs EXCEPT ![Req(i).dir] = x] /\ x \in Images
                /\ x.id = i /\ x.task = t /\ worker'[i].ok
                /\ (x.sock = "service" => x.lib.id = i /\ x.lib.pc = "recv")
  <2>1. CASE imgs' = imgs
    BY <2>1
  <2>2. CASE imgs' # imgs
    <3>1. PICK s \in dump_one_unix_fd(i, t) :
            /\ imgs' = [imgs EXCEPT ![Req(i).dir] =
                 [done |-> TRUE, task |-> t, sock |-> s, lib |-> lib[t], id |-> i]]
            /\ worker' = [worker EXCEPT ![i].pc = "switch", ![i].ok = TRUE]
      BY <1>2, <2>2 DEF dump_one_task
    <3>2. PICK x : x = [done |-> TRUE, task |-> t, sock |-> s, lib |-> lib[t], id |-> i]
      OBVIOUS
    <3>3. x \in Images /\ x.id = i /\ x.task = t
            /\ (x.sock = "service" => x.lib.id = i /\ x.lib.pc = "recv")
      BY <1>1, <1>5, <1>6, <1>7, <3>2 DEF Images
    <3>4. worker'[i].ok
      BY <1>1, <3>1 DEF TypeOK, Workers
    <3> QED BY <3>1, <3>2, <3>3, <3>4
  <2> QED BY <2>1, <2>2
<1>9. /\ imgs' \in [Dirs -> Images \cup {NoImage}]
      /\ \A d \in Dirs :
           \/ imgs'[d] = imgs[d]
           \/ /\ imgs'[d].id = i /\ imgs'[d].task = t /\ worker'[i].ok
              /\ (imgs'[d].sock = "service" => imgs'[d].lib.id = i /\ imgs'[d].lib.pc = "recv")
  <2>1. imgs \in [Dirs -> Images \cup {NoImage}]
    BY <1>1 DEF TypeOK
  <2>2. CASE imgs' = imgs
    BY <2>1, <2>2
  <2>3. CASE imgs' # imgs
    <3>1. PICK x : /\ imgs' = [imgs EXCEPT ![Req(i).dir] = x] /\ x \in Images
                   /\ x.id = i /\ x.task = t /\ worker'[i].ok
                   /\ (x.sock = "service" => x.lib.id = i /\ x.lib.pc = "recv")
      BY <1>8, <2>3
    <3>2. imgs' \in [Dirs -> Images \cup {NoImage}]
      BY <2>1, <3>1
    <3>3. \A d \in Dirs : imgs'[d] = imgs[d] \/ imgs'[d] = x
      BY <2>1, <3>1
    <3> QED BY <3>1, <3>2, <3>3
  <2> QED BY <2>2, <2>3
<1>10. TypeOK'
  BY <1>1, <1>3, <1>4, <1>9 DEF TypeOK
<1>11. \A c \in Clients : CallInv(c)' /\ ResInv(c)' /\ RightAnswer(c)'
  BY <1>3, <1>5, <1>10, CallFrame, ResFrame DEF ServiceInv, CallInv
<1>12. WorkerInv(i)' /\ ConnInv(i)'
  BY <1>1, <1>3, <1>4 DEF WorkerInv, ConnInv, Req, self_dump
<1>13. \A j \in DOMAIN conn : TraceInv(j)'
  BY <1>1, <1>3, <1>4, <1>5 DEF ServiceInv, TraceInv, Target, Req, Client
<1>14. \A j \in DOMAIN conn : worker[j].pc = "switch" => worker'[j] = worker[j]
  BY <1>1, <1>4, <1>5
<1>15. \A j \in Ids : ImageInv(worker[j].im)'
  BY SMTT(30), <1>4, <1>5, <1>14, ImageFrame DEF ServiceInv, ImageInv, Req
<1>16. \A d \in Dirs : ImageInv(imgs[d])'
  <2> SUFFICES ASSUME NEW d \in Dirs PROVE ImageInv(imgs[d])'
    OBVIOUS
  <2>1. CASE imgs'[d] = imgs[d]
    BY <1>5, <1>14, <2>1, ImageFrame DEF ServiceInv, ImageInv, Req
  <2>2. CASE imgs'[d] # imgs[d]
    BY <1>1, <1>2, <1>3, <1>4, <1>9, <2>2 DEF ImageInv, Req, Target, Client
  <2> QED BY <2>1, <2>2
<1> QED
  BY <1>3, <1>4, <1>5, <1>10, <1>11, <1>12, <1>13, <1>15, <1>16
     DEF ServiceInv, AnswersAreRight

LEMMA SwitchKeeps ==
  ASSUME ServiceInv, NEW i \in DOMAIN conn, pstree_switch_state(i)
  PROVE  ServiceInv'
<1>1. /\ TypeOK /\ WorkerInv(i) /\ ConnInv(i) /\ TraceInv(i) /\ i \in Ids
      /\ worker[i].pc = "switch"
      /\ fate[i] = "none" /\ conn[i].sent /\ Req(i).type = "DUMP"
      /\ conn[i] \in Conns /\ DOMAIN conn \subseteq Ids
      /\ \A j \in DOMAIN conn : conn[j] \in Conns
  BY ConnIds DEF ServiceInv, WorkerInv, pstree_switch_state
<1>2. PICK t : t = Target(i)
  OBVIOUS
<1>3. t \in Clients /\ task[t] = "frozen" /\ by[t] = i /\ CallInv(t)
  BY <1>1, <1>2 DEF Target, Req, Client, Conns, Requests, TraceInv, ServiceInv
<1>4. PICK kill \in BOOLEAN : kill <=> (worker[i].ok /\ ~Req(i).leave)
  OBVIOUS
<1>5. UNCHANGED <<prog, from, res, server, backlog, imgs>>
  BY DEF pstree_switch_state, serverVars
<1>6. /\ worker' \in [Ids -> Workers] /\ worker'[i].pc = "answer"
      /\ worker'[i].ok = worker[i].ok /\ worker'[i].im = worker[i].im
      /\ \A j \in Ids : j # i => worker'[j] = worker[j]
  BY <1>1, StepEffect DEF WorkerPcs, pstree_switch_state
<1>7. /\ fate' \in [Ids -> {"none", "done", "failed"}]
      /\ (fate'[i] = "done" <=> worker[i].ok)
      /\ \A j \in Ids : j # i => fate'[j] = fate[j]
  BY <1>1 DEF TypeOK, pstree_switch_state
<1>8. /\ task' \in [Clients -> {"run", "frozen", "dead", "forked"}]
      /\ task'[t] = IF kill THEN "dead" ELSE "run"
      /\ \A c \in Clients : c # t => task'[c] = task[c]
  BY <1>1, <1>2, <1>3, <1>4 DEF TypeOK, pstree_switch_state
<1>9. /\ by' \in [Clients -> 0..MaxConns]
      /\ \A c \in Clients : c # t => by'[c] = by[c]
  BY <1>1, <1>2, <1>3, Zero DEF TypeOK, pstree_switch_state
\* The client's end goes with a killed client.
<1>10. /\ conn' \in Seq(Conns) /\ Len(conn') = Len(conn) /\ DOMAIN conn' = DOMAIN conn
       /\ \A j \in DOMAIN conn :
            /\ conn'[j].who = conn[j].who /\ conn'[j].req = conn[j].req
            /\ conn'[j].sent = conn[j].sent /\ conn'[j].held = conn[j].held
            /\ conn'[j].client <=> (conn[j].client /\ ~(kill /\ j = lib[t].sk))
            /\ conn'[j].resp = IF kill /\ j = lib[t].sk THEN Nothing ELSE conn[j].resp
  <2>1. CASE kill
    <3>1. conn' = Left(conn, t)
      BY <1>2, <1>4, <2>1 DEF pstree_switch_state
    <3> QED BY <1>1, <1>3, <2>1, <3>1, LeftEffect
  <2>2. CASE ~kill
    <3>1. conn' = conn
      BY <1>2, <1>4, <2>2 DEF pstree_switch_state
    <3> QED BY <1>1, <2>2, <3>1 DEF TypeOK, Conns
  <2> QED BY <2>1, <2>2
<1>11. /\ lib' \in [Clients -> Calls]
       /\ kill => lib'[t].pc = "idle" /\ lib'[t].sk = 0
       /\ ~kill => lib' = lib
       /\ \A d \in Clients : d # t => lib'[d] = lib[d]
       /\ \A d \in Clients : d # t /\ lib[d].sk # 0 =>
            lib[d].sk \in DOMAIN conn /\ conn'[lib[d].sk] = conn[lib[d].sk]
  <2>1. CASE kill
    <3>1. conn' = Left(conn, t) /\ lib' = [lib EXCEPT ![t] = Idle(lib[t].n)]
      BY <1>2, <1>4, <2>1 DEF pstree_switch_state
    <3> QED BY <1>3, <2>1, <3>1, LeaveKeeps
  <2>2. CASE ~kill
    <3>1. conn' = conn /\ lib' = lib
      BY <1>2, <1>4, <2>2 DEF pstree_switch_state
    <3> QED BY <1>1, <2>2, <3>1 DEF TypeOK, ServiceInv, CallInv
  <2> QED BY <2>1, <2>2
<1>12. TypeOK'
  BY <1>1, <1>5, <1>6, <1>7, <1>8, <1>9, <1>10, <1>11 DEF TypeOK
<1>13. KeptConns /\ KeptFates
  BY <1>1, <1>5, <1>6, <1>7, <1>10 DEF KeptConns, KeptFates, Over
<1>14. \A d \in Clients : d # t => CallInv(d)'
  BY <1>5, <1>8, <1>11, <1>12, <1>13, CallFrame DEF ServiceInv, CallInv
<1>15. CallInv(t)'
  <2>1. CASE kill
    BY <1>3, <1>5, <1>10, <1>11, <2>1 DEF CallInv
  <2>2. CASE ~kill
    <3>1. lib[t].sk # 0 => lib[t].sk \in DOMAIN conn
      BY <1>3 DEF CallInv
    <3> QED
      BY <1>3, <1>5, <1>8, <1>10, <1>11, <1>12, <1>13, <2>2, <3>1, CallFrame DEF CallInv
  <2> QED BY <2>1, <2>2
<1>16. \A d \in Clients : ResInv(d)' /\ RightAnswer(d)'
  BY <1>5, <1>13, ResFrame
<1>17. \A j \in DOMAIN conn : WorkerInv(j)'
  BY <1>1, <1>6, <1>7, <1>10 DEF ServiceInv, WorkerInv, Req
<1>18. ASSUME NEW j \in DOMAIN conn PROVE ConnInv(j)'
  <2>1. /\ ConnInv(j) /\ self_dump(j)' = self_dump(j) /\ Req(j)' = Req(j)
        /\ conn[j].who \in Clients
    BY <1>1, <1>10, <1>18 DEF ServiceInv, self_dump, Req, Conns
  <2>2. conn'[j].client => lib'[conn'[j].who].sk = j
    BY <1>10, <1>11, <2>1 DEF ConnInv
  <2>3. /\ conn'[j].resp # Nothing => conn'[j].resp = conn[j].resp
        /\ conn'[j].client => conn[j].client /\ conn'[j].resp = conn[j].resp
    BY <1>10
  <2>4. CASE j # i
    BY <1>1, <1>5, <1>6, <1>7, <1>10, <2>1, <2>2, <2>3, <2>4 DEF ConnInv
  <2>5. CASE j = i
    <3>1. conn'[i].resp = Nothing
      BY <1>1, <2>3, <2>5 DEF ConnInv
    <3>2. fate'[i] = "done" /\ self_dump(i) /\ ~Req(i).leave => ~conn'[i].client
      <4>1. SUFFICES ASSUME fate'[i] = "done", self_dump(i), ~Req(i).leave, conn'[i].client
                     PROVE  FALSE
        OBVIOUS
      <4>2. kill /\ t = conn[i].who
        BY <1>2, <1>4, <1>7, <4>1 DEF self_dump, Target, Client
      <4>3. lib[t].sk = i
        BY <2>3, <2>5, <4>1, <4>2, <1>1 DEF ConnInv
      <4> QED BY <1>10, <4>1, <4>2, <4>3
    <3> QED BY <1>1, <1>5, <1>6, <1>10, <2>1, <2>2, <2>5, <3>1, <3>2 DEF ConnInv
  <2> QED BY <2>4, <2>5
<1>19. \A j \in DOMAIN conn : TraceInv(j)'
  <2>1. \A j \in DOMAIN conn : j # i => TraceInv(j)'
    BY <1>3, <1>6, <1>8, <1>9, <1>13, TraceFrame
  <2>2. TraceInv(i)'
    BY <1>6 DEF TraceInv
  <2> QED BY <2>1, <2>2
<1>20. \A j \in DOMAIN conn : worker[j].pc = "switch" /\ worker[j].ok =>
         worker'[j] = worker[j] \/ fate'[j] = "done"
  BY <1>1, <1>6, <1>7
<1>21. /\ \A d \in Dirs : ImageInv(imgs[d])'
       /\ \A j \in Ids : ImageInv(worker[j].im)'
  BY SMTT(30), <1>5, <1>6, <1>13, <1>20, ImageFrame DEF ServiceInv, ImageInv, Req
<1> QED
  BY <1>1, <1>5, <1>6, <1>7, <1>10, <1>12, <1>14, <1>15, <1>16, <1>17, <1>18, <1>19, <1>21
     DEF ServiceInv, AnswersAreRight

LEMMA RestoreBeginKeeps ==
  ASSUME ServiceInv, NEW i \in DOMAIN conn, restore_begin(i)
  PROVE  ServiceInv'
<1>1. /\ TypeOK /\ WorkerInv(i) /\ ConnInv(i) /\ i \in Ids /\ i \in 0..MaxConns
      /\ worker[i].pc = "restore" /\ fate[i] = "none" /\ ~worker[i].ok
      /\ conn[i].sent /\ Req(i).type = "RESTORE" /\ Req(i).dir \in Dirs
  BY ConnIds, ServiceAssumption
     DEF ServiceInv, WorkerInv, restore_begin, Ids, Conns, Requests, Req
<1>2. PICK im : im = imgs[Req(i).dir]
  OBVIOUS
<1>3. UNCHANGED <<prog, from, lib, res, conn, server, backlog, imgs>>
  BY DEF restore_begin, serverVars
<1>4. CASE Step(i, "answer") /\ fate' = [fate EXCEPT ![i] = "failed"] /\ UNCHANGED <<task, by>>
  <2>1. /\ worker' \in [Ids -> Workers] /\ worker'[i].pc = "answer"
        /\ worker'[i].ok = worker[i].ok /\ worker'[i].im = worker[i].im
        /\ \A j \in Ids : j # i => worker'[j] = worker[j]
    BY <1>1, <1>4, StepEffect DEF WorkerPcs
  <2>2. /\ fate' \in [Ids -> {"none", "done", "failed"}] /\ fate'[i] # "done"
        /\ \A j \in Ids : j # i => fate'[j] = fate[j]
    BY <1>1, <1>4 DEF TypeOK
  <2>3. TypeOK'
    BY <1>1, <1>3, <1>4, <2>1, <2>2 DEF TypeOK
  <2>4. /\ KeptConns /\ KeptFates /\ DOMAIN conn \subseteq Ids
        /\ \A j \in DOMAIN conn : j # i => WorkerInv(j)' /\ ConnInv(j)'
    BY <1>1, <1>3, <2>1, <2>2, WorkerFrame
  <2>5. \A c \in Clients : CallInv(c)' /\ ResInv(c)' /\ RightAnswer(c)'
    BY <1>3, <1>4, <2>3, <2>4, CallFrame, ResFrame DEF ServiceInv, CallInv
  <2>6. WorkerInv(i)' /\ ConnInv(i)'
    BY <1>1, <1>3, <2>1, <2>2 DEF WorkerInv, ConnInv, Req, self_dump
  <2>7. \A j \in DOMAIN conn : TraceInv(j)'
    BY <1>3, <1>4, <2>1, <2>4 DEF ServiceInv, TraceInv, Target, Req, Client
  <2>8. \A j \in DOMAIN conn : worker[j].pc = "switch" => worker'[j] = worker[j]
    BY <1>1, <2>1, <2>4
  <2>9. /\ \A d \in Dirs : ImageInv(imgs[d])'
        /\ \A j \in Ids : ImageInv(worker[j].im)'
    BY <1>3, <2>1, <2>4, <2>8, ImageFrame DEF ServiceInv, ImageInv, Req
  <2> QED
    BY <1>3, <2>1, <2>2, <2>3, <2>4, <2>5, <2>6, <2>7, <2>9 DEF ServiceInv, AnswersAreRight
<1>5. CASE /\ im.done /\ im.sock # "inflight" /\ task[im.task] = "dead"
           /\ task' = [task EXCEPT ![im.task] = "forked"]
           /\ by' = [by EXCEPT ![im.task] = i]
           /\ worker' = [worker EXCEPT ![i].pc = "open", ![i].im = im]
           /\ UNCHANGED fate
  <2>1. im \in Images /\ im.task \in Clients /\ ImageInv(im)
    <3>1. im \in Images \cup {NoImage}
      BY <1>1, <1>2 DEF TypeOK
    <3> QED BY <1>1, <1>2, <1>5, <3>1, ImageTyped DEF ServiceInv, Images
  <2>2. /\ worker' \in [Ids -> Workers] /\ worker'[i].pc = "open"
        /\ worker'[i].ok = worker[i].ok /\ worker'[i].im = im
        /\ \A j \in Ids : j # i => worker'[j] = worker[j]
    BY ZenonT(60), <1>1, <1>5, <2>1 DEF TypeOK, Workers, WorkerPcs
  <2>3. /\ task' \in [Clients -> {"run", "frozen", "dead", "forked"}]
        /\ task'[im.task] = "forked"
        /\ \A c \in Clients : c # im.task => task'[c] = task[c]
    BY <1>1, <1>5, <2>1 DEF TypeOK
  <2>4. /\ by' \in [Clients -> 0..MaxConns] /\ by'[im.task] = i
        /\ \A c \in Clients : c # im.task => by'[c] = by[c]
    BY <1>1, <1>5, <2>1 DEF TypeOK
  <2>5. TypeOK'
    BY <1>1, <1>3, <1>5, <2>2, <2>3, <2>4 DEF TypeOK
  <2>6. /\ KeptConns /\ KeptFates /\ DOMAIN conn \subseteq Ids
        /\ \A j \in DOMAIN conn : j # i => WorkerInv(j)' /\ ConnInv(j)'
    BY <1>1, <1>3, <1>5, <2>2, WorkerFrame
  <2>7. \A c \in Clients : CallInv(c)' /\ ResInv(c)' /\ RightAnswer(c)'
    BY <1>3, <1>5, <2>3, <2>5, <2>6, CallFrame, ResFrame DEF ServiceInv, CallInv
  <2>8. WorkerInv(i)' /\ ConnInv(i)'
    BY <1>1, <1>3, <1>5, <2>2 DEF WorkerInv, ConnInv, Req, self_dump
  <2>9. \A j \in DOMAIN conn : TraceInv(j)'
    <3>1. \A j \in DOMAIN conn : j # i => TraceInv(j)'
      BY <1>5, <2>1, <2>2, <2>3, <2>4, <2>6, TraceFrame
    <3>2. TraceInv(i)'
      BY <1>5, <2>2, <2>3, <2>4 DEF TraceInv
    <3> QED BY <3>1, <3>2
  <2>10. \A j \in DOMAIN conn : worker[j].pc = "switch" => worker'[j] = worker[j]
    BY <1>1, <2>2, <2>6
  <2>11. \A d \in Dirs : ImageInv(imgs[d])'
    BY <1>3, <2>6, <2>10, ImageFrame DEF ServiceInv, ImageInv, Req
  <2>12. \A j \in Ids : ImageInv(worker[j].im)'
    BY <1>3, <2>1, <2>2, <2>6, <2>10, ImageFrame DEF ServiceInv, ImageInv, Req
  <2> QED
    BY <1>3, <1>5, <2>2, <2>5, <2>6, <2>7, <2>8, <2>9, <2>11, <2>12
       DEF ServiceInv, AnswersAreRight
<1> QED BY <1>2, <1>4, <1>5 DEF restore_begin

LEMMA RestoreEndKeeps ==
  ASSUME ServiceInv, NEW i \in DOMAIN conn, restore_end(i)
  PROVE  ServiceInv'
<1>1. /\ TypeOK /\ WorkerInv(i) /\ ConnInv(i) /\ TraceInv(i) /\ i \in Ids
      /\ worker[i].pc = "open" /\ fate[i] = "none" /\ ~worker[i].ok
      /\ conn[i].sent /\ Req(i).type = "RESTORE"
      /\ DOMAIN conn = 1..Len(conn) /\ Len(conn) \in Nat
      /\ \A j \in DOMAIN conn : conn[j] \in Conns
  BY ConnIds DEF ServiceInv, WorkerInv, restore_end
<1>2. PICK im : im = worker[i].im
  OBVIOUS
<1>3. PICK t : t = im.task
  OBVIOUS
<1>4. /\ im \in Images /\ t \in Clients /\ ImageInv(im) /\ im.done /\ im.lib \in Calls
      /\ im.sock \in {"none", "closed", "service"} /\ im.id \in Ids
      /\ task[t] = "forked" /\ by[t] = i
  <2>1. im \in Images \cup {NoImage} /\ im.done
    BY <1>1, <1>2 DEF TypeOK, Workers, TraceInv
  <2>2. im \in Images
    BY <2>1, ImageTyped
  <2> QED BY <1>1, <1>2, <1>3, <2>1, <2>2 DEF ServiceInv, TraceInv, Images, Socks
\* The dump the images are of is over: the task is not frozen.
<1>5. /\ fate[im.id] = "done" /\ im.id \in DOMAIN conn /\ Req(im.id).type = "DUMP"
      /\ im.sock = "service" => im.lib.id = im.id /\ im.lib.pc = "recv"
  <2>1. ~(worker[im.id].pc = "switch")
    BY <1>3, <1>4 DEF ImageInv, ServiceInv, TraceInv
  <2> QED BY <1>4, <2>1 DEF ImageInv
<1>6. CallInv(t) /\ lib[t].pc = "idle" /\ lib[t].sk = 0
  BY <1>4 DEF ServiceInv, CallInv
<1>7. UNCHANGED <<prog, conn, server, backlog, imgs>>
  BY DEF restore_end, serverVars
<1>8. /\ by' \in [Clients -> 0..MaxConns]
      /\ \A c \in Clients : c # t => by'[c] = by[c]
  BY <1>1, <1>2, <1>3, <1>4, Zero DEF TypeOK, restore_end
<1>9. PICK l \in {"run", "dead"} :
        /\ task' = [task EXCEPT ![t] = l]
        /\ fate' = [fate EXCEPT ![i] = IF l = "run" THEN "done" ELSE "failed"]
        /\ l = "dead" => /\ UNCHANGED <<lib, from, res>>
                         /\ worker' = [worker EXCEPT ![i].pc = "answer", ![i].im = NoImage]
        /\ l = "run" =>
             /\ worker' = [worker EXCEPT ![i].pc = "answer", ![i].ok = TRUE, ![i].im = NoImage]
             /\ \E x \in open_unixsk_standalone(im) :
                  /\ lib' = [lib EXCEPT ![t] = x] /\ from' = [from EXCEPT ![t] = im.id]
                  /\ res' = [res EXCEPT ![t] = [id |-> 0, val |-> "none"]]
  BY <1>2, <1>3 DEF restore_end
<1>10. /\ task' \in [Clients -> {"run", "frozen", "dead", "forked"}] /\ task'[t] = l
       /\ \A c \in Clients : c # t => task'[c] = task[c]
  BY <1>1, <1>4, <1>9 DEF TypeOK
<1>11. /\ fate' \in [Ids -> {"none", "done", "failed"}] /\ (fate'[i] = "done" <=> l = "run")
       /\ \A j \in Ids : j # i => fate'[j] = fate[j]
  BY <1>1, <1>9 DEF TypeOK
<1>12. /\ worker' \in [Ids -> Workers] /\ worker'[i].pc = "answer"
       /\ (worker'[i].ok <=> l = "run") /\ worker'[i].im = NoImage
       /\ \A j \in Ids : j # i => worker'[j] = worker[j]
  <2>1. CASE l = "dead"
    <3>1. PICK x : x = [worker[i] EXCEPT !.pc = "answer", !.im = NoImage]
      OBVIOUS
    <3>2. worker[i] \in Workers
      BY <1>1 DEF TypeOK
    <3>3. x \in Workers /\ x.pc = "answer" /\ x.ok = worker[i].ok /\ x.im = NoImage
      BY <3>1, <3>2 DEF Workers, WorkerPcs
    <3>4. worker' = [worker EXCEPT ![i] = x]
      BY <1>1, <1>9, <2>1, <3>1 DEF TypeOK
    <3> QED BY <1>1, <2>1, <3>3, <3>4 DEF TypeOK
  <2>2. CASE l = "run"
    <3>1. PICK x : x = [worker[i] EXCEPT !.pc = "answer", !.ok = TRUE, !.im = NoImage]
      OBVIOUS
    <3>2. worker[i] \in Workers
      BY <1>1 DEF TypeOK
    <3>3. x \in Workers /\ x.pc = "answer" /\ x.ok = TRUE /\ x.im = NoImage
      BY <3>1, <3>2 DEF Workers, WorkerPcs
    <3>4. worker' = [worker EXCEPT ![i] = x]
      BY <1>1, <1>9, <2>2, <3>1 DEF TypeOK
    <3> QED BY <1>1, <2>2, <3>3, <3>4 DEF TypeOK
  <2> QED BY <2>1, <2>2
\* The call the restored task is in.
<1>13. /\ lib' \in [Clients -> Calls] /\ from' \in [Clients -> 0..MaxConns]
       /\ res' \in [Clients -> Results]
       /\ \A c \in Clients : c # t => lib'[c] = lib[c] /\ from'[c] = from[c] /\ res'[c] = res[c]
       /\ lib'[t].sk = 0
       /\ l = "dead" => lib'[t] = lib[t] /\ from'[t] = from[t] /\ res'[t] = res[t]
       /\ l = "run" => /\ from'[t] = im.id /\ res'[t].id = 0 /\ res'[t].val = "none"
                       /\ lib'[t].pc # "idle" => lib'[t].pc = "recv" /\ lib'[t].id = im.id
  <2>1. CASE l = "dead"
    BY <1>1, <1>6, <1>9, <2>1 DEF TypeOK
  <2>2. CASE l = "run"
    <3>1. PICK x \in open_unixsk_standalone(im) :
             /\ lib' = [lib EXCEPT ![t] = x] /\ from' = [from EXCEPT ![t] = im.id]
             /\ res' = [res EXCEPT ![t] = [id |-> 0, val |-> "none"]]
      BY <1>9, <2>2
    <3>2. x \in Calls /\ x.sk = 0 /\ (x.pc # "idle" => x.pc = "recv" /\ x.id = im.id)
      <4>1. CASE im.sock = "none"
        BY <1>4, <3>1, <4>1, Zero DEF open_unixsk_standalone, Idle, Calls
      <4>2. CASE im.sock = "service"
        BY <1>4, <1>5, <3>1, <4>2, Zero DEF open_unixsk_standalone, Calls
      <4>3. CASE im.sock = "closed"
        BY <3>1, <4>3 DEF open_unixsk_standalone
      <4> QED BY <1>4, <4>1, <4>2, <4>3
    <3>3. im.id \in 0..MaxConns
      BY <1>4, ServiceAssumption DEF Ids
    <3>4. [id |-> 0, val |-> "none"] \in Results
      BY Zero DEF Results
    <3>5. /\ lib' \in [Clients -> Calls] /\ lib'[t] = x
          /\ \A c \in Clients : c # t => lib'[c] = lib[c]
      BY <1>1, <1>4, <3>1, <3>2 DEF TypeOK
    <3>6. /\ from' \in [Clients -> 0..MaxConns] /\ from'[t] = im.id
          /\ \A c \in Clients : c # t => from'[c] = from[c]
      BY <1>1, <1>4, <3>1, <3>3 DEF TypeOK
    <3>7. /\ res' \in [Clients -> Results] /\ res'[t] = [id |-> 0, val |-> "none"]
          /\ \A c \in Clients : c # t => res'[c] = res[c]
      BY <1>1, <1>4, <3>1, <3>4 DEF TypeOK
    <3> QED BY <2>2, <3>2, <3>5, <3>6, <3>7
  <2> QED BY <2>1, <2>2
<1>14. TypeOK'
  BY <1>1, <1>7, <1>8, <1>10, <1>11, <1>12, <1>13 DEF TypeOK
<1>15. /\ KeptConns /\ KeptFates /\ DOMAIN conn \subseteq Ids
       /\ \A j \in DOMAIN conn : j # i => WorkerInv(j)'
  BY <1>1, <1>7, <1>11, <1>12, WorkerFrame
<1>16. \A c \in Clients : c # t => CallInv(c)' /\ ResInv(c)' /\ RightAnswer(c)'
  BY SMTT(30), <1>7, <1>10, <1>13, <1>14, <1>15, CallFrame, ResFrame DEF ServiceInv, CallInv
<1>17. CallInv(t)' /\ ResInv(t)' /\ RightAnswer(t)'
  <2>1. CASE l = "dead"
    BY <1>4, <1>6, <1>7, <1>10, <1>13, <1>14, <1>15, <2>1, CallFrame, ResFrame
  <2>2. CASE l = "run"
    <3>1. fate'[im.id] = "done" /\ im.id # 0 /\ im.id <= Len(conn)
      BY <1>1, <1>5, <1>15 DEF KeptFates
    <3>2. CallInv(t)'
      BY <1>5, <1>7, <1>10, <1>13, <2>2, <3>1 DEF CallInv, Req
    <3>3. ResInv(t)' /\ RightAnswer(t)'
      BY <1>13, <2>2 DEF ResInv, RightAnswer
    <3> QED BY <3>2, <3>3
  <2> QED BY <2>1, <2>2
<1>18. WorkerInv(i)'
  BY <1>1, <1>7, <1>11, <1>12 DEF WorkerInv, Req
<1>19. ASSUME NEW j \in DOMAIN conn PROVE ConnInv(j)'
  <2>1. /\ ConnInv(j) /\ self_dump(j)' = self_dump(j) /\ Req(j)' = Req(j)
        /\ conn[j].who \in Clients /\ j # 0
    BY <1>1, <1>7, <1>19 DEF ServiceInv, self_dump, Req, Conns
  <2>2. conn[j].client => lib'[conn[j].who].sk = j
    BY <1>6, <1>13, <2>1 DEF ConnInv
  <2>3. CASE j # i
    BY <1>7, <1>11, <1>12, <1>15, <2>1, <2>2, <2>3 DEF ConnInv
  <2>4. CASE j = i
    BY <1>1, <1>7, <1>12, <2>1, <2>2, <2>4 DEF ConnInv, self_dump
  <2> QED BY <2>3, <2>4
<1>20. \A j \in DOMAIN conn : TraceInv(j)'
  <2>1. \A j \in DOMAIN conn : j # i => TraceInv(j)'
    BY <1>4, <1>8, <1>10, <1>12, <1>15, TraceFrame
  <2>2. TraceInv(i)'
    BY <1>12 DEF TraceInv
  <2> QED BY <2>1, <2>2
<1>21. \A j \in DOMAIN conn : worker[j].pc = "switch" => worker'[j] = worker[j]
  BY <1>1, <1>12, <1>15
<1>22. \A d \in Dirs : ImageInv(imgs[d])'
  BY <1>7, <1>15, <1>21, ImageFrame DEF ServiceInv, ImageInv, Req
<1>23. \A j \in Ids : ImageInv(worker[j].im)'
  <2>1. ImageInv(worker[i].im)'
    BY <1>12 DEF ImageInv, NoImage
  <2>2. \A j \in Ids : j # i => ImageInv(worker[j].im)'
    BY <1>7, <1>12, <1>15, <1>21, ImageFrame DEF ServiceInv, ImageInv, Req
  <2> QED BY <2>1, <2>2
<1> QED
  BY <1>7, <1>11, <1>12, <1>14, <1>15, <1>16, <1>17, <1>18, <1>19, <1>20, <1>22, <1>23
     DEF ServiceInv, AnswersAreRight

LEMMA WorkerExitKeeps ==
  ASSUME ServiceInv, NEW i \in DOMAIN conn, worker_exit(i)
  PROVE  ServiceInv'
<1>1. /\ TypeOK /\ WorkerInv(i) /\ ConnInv(i) /\ i \in Ids /\ worker[i].pc = "answer"
      /\ conn[i] \in Conns /\ DOMAIN conn \subseteq Ids
      /\ \A j \in DOMAIN conn : conn[j] \in Conns
  BY ConnIds DEF ServiceInv, worker_exit
<1>2. UNCHANGED <<prog, task, by, from, imgs, lib, res, backlog, fate>>
  BY DEF worker_exit, taskVars
\* The answer that is written, if there is one.
<1>3. PICK r \in send_criu_msg(i), l \in {"zombie", "gone"} :
        /\ conn' = [conn EXCEPT ![i].resp = r, ![i].held = @ \ {"worker"}]
        /\ worker' = [worker EXCEPT ![i].pc = l, ![i].ok = @ /\ (Answered(i) => r # Nothing)]
  BY DEF worker_exit
<1>4. /\ worker' \in [Ids -> Workers] /\ worker'[i].pc = l
      /\ worker'[i].ok <=> (worker[i].ok /\ (Answered(i) => r # Nothing))
      /\ worker'[i].im = worker[i].im
      /\ \A j \in Ids : j # i => worker'[j] = worker[j]
  <2>1. PICK ok \in BOOLEAN : ok = (worker[i].ok /\ (Answered(i) => r # Nothing))
    OBVIOUS
  <2>2. worker[i] \in Workers /\ l \in WorkerPcs
    BY <1>1 DEF TypeOK, WorkerPcs
  <2>3. PICK x : x = [worker[i] EXCEPT !.pc = l, !.ok = ok]
    OBVIOUS
  <2>4. x \in Workers /\ x.pc = l /\ x.ok = ok /\ x.im = worker[i].im
    BY <2>2, <2>3 DEF Workers
  <2>5. worker' = [worker EXCEPT ![i] = x]
    BY <1>1, <1>3, <2>1, <2>2, <2>3 DEF TypeOK, Workers
  <2> QED BY <1>1, <2>1, <2>4, <2>5 DEF TypeOK
<1>5. /\ server' \in [pc : {"down", "accept", "close"}, sk : 0..MaxConns, hnd : BOOLEAN,
                      sig : BOOLEAN, exits : Nat]
      /\ server'.pc = server.pc /\ server'.sk = server.sk
  BY <1>1 DEF TypeOK, worker_exit
<1>7. /\ r \in Responses \cup {Nothing}
      /\ r # Nothing => Answered(i) /\ conn[i].client
      /\ r # Nothing => /\ r.type = IF Req(i).type = "OTHER" THEN "EMPTY" ELSE Req(i).type
                        /\ r.success = worker[i].ok /\ ~r.restored
  <2>1. Req(i).type \in {"DUMP", "RESTORE", "CHECK", "OTHER"} /\ worker[i].ok \in BOOLEAN
    BY <1>1 DEF TypeOK, Workers, Req, Conns, Requests
  <2>2. PICK q : q = Resp(i)
    OBVIOUS
  <2>3. /\ q \in Responses /\ q.success = worker[i].ok /\ ~q.restored
        /\ q.type = IF Req(i).type = "OTHER" THEN "EMPTY" ELSE Req(i).type
    BY <2>1, <2>2 DEF Resp, Responses
  <2>4. Nothing.type = "none" /\ q.type # "none"
    BY <2>1, <2>3 DEF Nothing
  <2>5. r = Nothing \/ (r = q /\ Answered(i) /\ conn[i].client)
    BY <1>3, <2>2 DEF send_criu_msg
  <2> QED BY <2>3, <2>4, <2>5
<1>8. PICK x : x = [conn[i] EXCEPT !.resp = r, !.held = @ \ {"worker"}]
  OBVIOUS
<1>9. /\ x \in Conns /\ x.who = conn[i].who /\ x.req = conn[i].req
      /\ x.sent = conn[i].sent /\ x.client = conn[i].client /\ x.resp = r
  BY <1>1, <1>7, <1>8 DEF Conns
<1>10. conn' = [conn EXCEPT ![i] = x]
  BY <1>1, <1>3, <1>8 DEF TypeOK, Conns
<1>11. /\ conn' \in Seq(Conns) /\ Len(conn') = Len(conn) /\ DOMAIN conn' = DOMAIN conn
       /\ conn'[i] = x /\ \A j \in DOMAIN conn : j # i => conn'[j] = conn[j]
  BY <1>1, <1>9, <1>10, ConnEffect
<1>12. TypeOK'
  BY <1>1, <1>2, <1>4, <1>5, <1>11 DEF TypeOK
<1>13. KeptConns /\ KeptFates
  BY <1>1, <1>2, <1>4, <1>9, <1>11 DEF KeptConns, KeptFates, Over
<1>14. \A c \in Clients : lib[c].sk # 0 =>
         conn'[lib[c].sk].client /\ conn'[lib[c].sk].sent = conn[lib[c].sk].sent
  BY <1>9, <1>11 DEF ServiceInv, CallInv
<1>15. \A c \in Clients : CallInv(c)' /\ ResInv(c)' /\ RightAnswer(c)'
  BY <1>2, <1>12, <1>13, <1>14, CallFrame, ResFrame
<1>16. \A j \in DOMAIN conn : WorkerInv(j)'
  BY <1>1, <1>2, <1>4, <1>9, <1>11 DEF ServiceInv, WorkerInv, Req
<1>17. \A j \in DOMAIN conn : j # i => ConnInv(j)'
  BY <1>1, <1>2, <1>4, <1>11 DEF ServiceInv, ConnInv, Req, self_dump
<1>18. ConnInv(i)'
  <2>1. self_dump(i)' = self_dump(i) /\ Req(i)' = Req(i) /\ i \notin Range(backlog)
    BY <1>1, <1>9, <1>11 DEF self_dump, Req, ConnInv
  <2>2. conn[i].client /\ fate[i] = "done" /\ worker'[i].ok => r # Nothing
    BY <1>1, <1>4 DEF Answered, ConnInv
  <2>3. worker[i].ok <=> fate[i] = "done"
    BY <1>1 DEF WorkerInv
  <2> QED BY <1>1, <1>2, <1>3, <1>4, <1>7, <1>9, <1>11, <2>1, <2>2, <2>3 DEF ConnInv
<1>19. \A j \in DOMAIN conn : TraceInv(j)'
  BY <1>1, <1>2, <1>3, <1>4, <1>9, <1>11 DEF ServiceInv, TraceInv, Target, Req, Client
<1>20. \A j \in DOMAIN conn : worker[j].pc = "switch" => worker'[j] = worker[j]
  BY <1>1, <1>4
<1>21. \A j \in Ids : worker'[j].im = worker[j].im
  BY <1>4
<1>22. /\ \A d \in Dirs : ImageInv(imgs[d])'
       /\ \A j \in Ids : ImageInv(worker[j].im)'
  BY <1>2, <1>13, <1>20, <1>21, ImageFrame DEF ServiceInv, ImageInv, Req
<1> QED
  BY <1>1, <1>2, <1>4, <1>11, <1>12, <1>15, <1>16, <1>17, <1>18, <1>19, <1>22
     DEF ServiceInv, AnswersAreRight

-----------------------------------------------------------------------------
(* The theorem *)

LEMMA InitServiceInv == Init => ServiceInv
<1> SUFFICES ASSUME Init PROVE ServiceInv
  OBVIOUS
<1>1. /\ conn = << >> /\ backlog = << >> /\ conn \in Seq(Conns) /\ Len(conn) = 0
      /\ DOMAIN conn = {} /\ DOMAIN backlog = {} /\ backlog \in Seq(DOMAIN conn)
  BY DEF Init
<1>2. /\ prog \in Programs /\ task \in [Clients -> {"run", "frozen", "dead", "forked"}]
      /\ by \in [Clients -> 0..MaxConns] /\ from \in [Clients -> 0..MaxConns]
      /\ imgs \in [Dirs -> Images \cup {NoImage}]
      /\ fate \in [Ids -> {"none", "done", "failed"}]
      /\ \A c \in Clients : task[c] = "run" /\ from[c] = 0
      /\ \A d \in Dirs : imgs[d] = NoImage
      /\ \A i \in Ids : fate[i] = "none"
  BY Zero DEF Init
<1>3. /\ lib \in [Clients -> Calls]
      /\ \A c \in Clients : lib[c].pc = "idle" /\ lib[c].sk = 0
  BY Zero DEF Init, Idle, Calls
<1>4. /\ res \in [Clients -> Results]
      /\ \A c \in Clients : res[c].id = 0 /\ res[c].val = "none"
  BY Zero DEF Init, Results
<1>5. /\ worker \in [Ids -> Workers]
      /\ \A i \in Ids : worker[i].pc = "none" /\ ~worker[i].ok /\ worker[i].im = NoImage
  BY DEF Init, Workers, WorkerPcs
<1>6. /\ server \in [pc : {"down", "accept", "close"}, sk : 0..MaxConns, hnd : BOOLEAN,
                     sig : BOOLEAN, exits : Nat]
      /\ server.pc = "down"
  BY Zero DEF Init
<1>7. Len(conn) <= MaxConns
  BY <1>1, ServiceAssumption
<1>8. TypeOK
  BY <1>1, <1>2, <1>3, <1>4, <1>5, <1>6, <1>7 DEF TypeOK
<1>9. \A c \in Clients : CallInv(c) /\ ResInv(c) /\ RightAnswer(c)
  BY <1>1, <1>2, <1>3, <1>4 DEF CallInv, ResInv, RightAnswer
<1>10. NoImage.done = FALSE
  BY DEF NoImage
<1> QED
  BY <1>1, <1>2, <1>5, <1>8, <1>9, <1>10 DEF ServiceInv, AnswersAreRight, ImageInv

LEMMA NextKeeps == ServiceInv /\ [Next]_vars => ServiceInv'
<1> SUFFICES ASSUME ServiceInv, [Next]_vars PROVE ServiceInv'
  OBVIOUS
<1>1. CASE UNCHANGED vars
  <2>1. UNCHANGED <<prog, task, by, from, lib, res, conn, backlog, server, worker, imgs, fate>>
    BY <1>1 DEF vars
  <2>2. TypeOK'
    BY <2>1 DEF ServiceInv, TypeOK
  <2>3. \A c \in Clients : CallInv(c)' /\ ResInv(c)'
    BY <2>1 DEF ServiceInv, CallInv, ResInv, Over, Req, Target, Client
  <2>4. \A i \in DOMAIN conn : WorkerInv(i)' /\ ConnInv(i)'
    BY <2>1 DEF ServiceInv, WorkerInv, ConnInv, Req, self_dump, Client
  <2>5. \A i \in DOMAIN conn : TraceInv(i)'
    BY <2>1 DEF ServiceInv, TraceInv, Target, Req, Client
  <2>6. (\A d \in Dirs : ImageInv(imgs[d])') /\ \A i \in Ids : ImageInv(worker[i].im)'
    BY <2>1 DEF ServiceInv, ImageInv, Req, Target, Client
  <2>7. AnswersAreRight'
    BY <2>1 DEF ServiceInv, AnswersAreRight, RightAnswer, Over, Req, Target, Client
  <2> QED BY <2>1, <2>2, <2>3, <2>4, <2>5, <2>6, <2>7 DEF ServiceInv
<1>2. ASSUME NEW c \in Clients, criu_connect(c) \/ CallStep(c) \/ Exit(c)
      PROVE  ServiceInv'
  BY <1>2, ConnectKeeps, SendKeeps, ReceiveKeeps, ExitKeeps DEF CallStep
<1>3. CASE cr_service_start \/ ServerStep
  BY <1>3, StartKeeps, AcceptKeeps, CloseKeeps, ReapKeeps DEF ServerStep
<1>4. CASE server_exit
  BY <1>4, ServerExitKeeps
<1>5. ASSUME NEW i \in DOMAIN conn, WorkerStep(i) PROVE ServiceInv'
  BY <1>5, WorkKeeps, SeizeKeeps, DumpKeeps, SwitchKeeps, RestoreBeginKeeps,
     RestoreEndKeeps, CheckKeeps, WorkerExitKeeps DEF WorkerStep
<1> QED BY <1>1, <1>2, <1>3, <1>4, <1>5 DEF Next

(* A client of the RPC service is told what came of its request, whatever   *)
(* the number of clients, requests, connections and exits of the server:   *)
(* success only for what was done, 1 from criu_dump() only in the task     *)
(* that was restored from that very dump, an error only when no worker is  *)
(* left that could still do the request and it was not done, or its worker *)
(* could not write the answer                                              *)
(* (cr-service.c:159-193, sk-unix.c:852-867, lib/criu.c:169-241).          *)
THEOREM AnswersRight == Spec => []AnswersAreRight
<1>1. ServiceInv => AnswersAreRight
  BY DEF ServiceInv
<1> QED BY <1>1, InitServiceInv, NextKeeps, PTL DEF Spec

=============================================================================
