---------------------------- MODULE InetSockets ----------------------------
(***************************************************************************)
(* Inet sockets across a dump and a restore (sk-inet.c, sk-tcp.c,          *)
(* netfilter.c): a TCP connection, whose peer is elsewhere and knows       *)
(* nothing of it, and the ports that sockets of several tasks share.       *)
(*                                                                         *)
(* A connection is locked with netfilter rules, put into repair mode and   *)
(* read; the killed task's socket goes without a word.  At restore its     *)
(* sequence numbers and queues are put back, the part that was never sent  *)
(* with repair mode off, and the rules are removed when all tasks are      *)
(* ready.  SO_REUSEADDR is on while sockets are bound, and gets its value  *)
(* back when all users of a port are there.                                *)
(***************************************************************************)
EXTENDS Integers, Sequences, FiniteSets, FiniteSetsExt, SequencesExt

CONSTANTS
  Tables,    \* the sockets of the tasks: functions to [task, kind, port, reuse]
  MaxBytes,  \* bytes the task writes
  PeerBytes, \* and its peer
  SeqBits,   \* width of sequence numbers
  FirstSeq   \* of both directions

\* A port is one of a protocol, and has one listener.  One socket at most is
\* the connection that is followed.
ASSUME InetAssumption ==
  /\ \A tb \in Tables :
       /\ IsFiniteSet(DOMAIN tb)
       /\ \A s \in DOMAIN tb :
            tb[s] \in [task : Nat, kind : {"conn", "listen", "dgram"}, port : Nat, reuse : BOOLEAN]
       /\ \A s, o \in DOMAIN tb : tb[s].port = tb[o].port =>
            /\ tb[s].kind = "dgram" => tb[o].kind = "dgram"
            /\ tb[s].kind = "listen" /\ tb[o].kind = "listen" => s = o
       /\ \A s, o \in DOMAIN tb : tb[s].kind = "conn" /\ tb[o].kind = "conn" => s = o
  /\ MaxBytes \in Nat /\ PeerBytes \in 0..MaxBytes /\ SeqBits \in Nat
  /\ 2 ^ SeqBits \in Nat /\ MaxBytes + 1 < 2 ^ SeqBits /\ FirstSeq \in 0..(2 ^ SeqBits - 1)

VARIABLES
  table,   \* the sockets
  phase,   \* "live", "collected", "locked", "repair", "read" (dump), "rollback", "resumed",
           \* "dead", "restore", "unlocked", "done", "failed"
  conn,    \* the kernel's socket of the connection, or NoConn
  peer,    \* the peer's
  net,     \* a segment of the peer on its way, or Nothing
  locked,  \* the netfilter rules of nf_lock_connection()
  app,     \* bytes the task wrote and read
  image,   \* the TCP_STREAM image
  ks,      \* the restored sockets: bound, listening, reuse
  fast,    \* tb->fastreuse of the ports
  users,   \* port->users
  st,      \* how far each socket is restored
  raced    \* listen() came while a connection was out of repair mode

vars == <<table, phase, conn, peer, net, locked, app, image, ks, fast, users, st, raced>>
tcpVars == <<conn, peer, net, locked, app>>
rstVars == <<ks, fast, users, st, raced>>

-----------------------------------------------------------------------------
(* TCP.  Both ends keep what is not acknowledged (out, the first "sent"     *)
(* bytes of it were sent), from sequence number "una" on, and what is not   *)
(* read yet (in); "rcv" is the next number expected.  The end of the stream *)
(* takes a number like a byte; who received it ("fin") is in CLOSE_WAIT.    *)

Sockets == DOMAIN table
Conns == {s \in Sockets : table[s].kind = "conn"}

Fin == 0
Mod(n) == n % 2 ^ SeqBits
End(una, rcv) == [una |-> una, out |-> << >>, sent |-> 0, rcv |-> rcv, in |-> << >>, fin |-> FALSE, repair |-> FALSE]
NoConn == End(2 ^ SeqBits, 0)
Nothing == << >>
Segment(e, k) ==
  [seq |-> Mod(e.una + k - 1), data |-> IF k <= Len(e.out) THEN <<e.out[k]>> ELSE << >>, ack |-> e.rcv]

\* Data that is not what is expected is only acknowledged.
Receive(e, seg) ==
  LET acked == Mod(seg.ack - e.una)
      a == IF acked <= e.sent
             THEN [e EXCEPT !.una = seg.ack, !.out = SubSeq(@, acked + 1, Len(@)), !.sent = @ - acked] ELSE e
  IN  IF seg.data = << >> \/ seg.seq # e.rcv THEN a
      ELSE IF seg.data = <<Fin>> THEN [a EXCEPT !.rcv = Mod(@ + 1), !.fin = TRUE]
      ELSE [a EXCEPT !.rcv = Mod(@ + 1), !.in = @ \o seg.data]

\* The local end sends and sends again unless it is in repair mode: the first
\* byte after what was sent, the first that is not acknowledged, or an
\* acknowledgment.  What it sends arrives at once; what the peer sends may be
\* on its way for any time.
HasConn == conn # NoConn
Transmit(k) ==
  /\ HasConn /\ ~ conn.repair /\ k \in {1, conn.sent + 1}
  /\ conn' = [conn EXCEPT !.sent = Max({@, Min({k, Len(conn.out)})})]
  /\ peer' = IF locked THEN peer ELSE Receive(peer, Segment(conn, k))
  /\ UNCHANGED <<table, phase, net, locked, app, image, rstVars>>
PeerTransmit(k) ==
  /\ Conns # {} /\ net = Nothing /\ k \in {1, peer.sent + 1}
  /\ peer' = [peer EXCEPT !.sent = Max({@, Min({k, Len(peer.out)})})]
  /\ net' = Segment(peer, k)
  /\ UNCHANGED <<table, phase, conn, locked, app, image, rstVars>>

\* A segment for nobody is answered with a reset.
Arrive ==
  /\ net # Nothing /\ net' = Nothing
  /\ IF locked THEN UNCHANGED <<conn, peer>>
     ELSE IF HasConn THEN conn' = Receive(conn, net) /\ UNCHANGED peer
     ELSE peer' = [peer EXCEPT !.reset = TRUE] /\ UNCHANGED conn
  /\ UNCHANGED <<table, phase, locked, app, image, rstVars>>

\* The tasks and the peer.
Running == phase \in {"live", "resumed", "done"}
Write ==
  /\ phase = "live" /\ HasConn /\ app.wrote < MaxBytes
  /\ app' = [app EXCEPT !.wrote = @ + 1]
  /\ conn' = [conn EXCEPT !.out = Append(@, app.wrote + 1)]
  /\ UNCHANGED <<table, phase, peer, net, locked, image, rstVars>>
Read ==
  /\ Running /\ HasConn /\ conn.in # << >>
  /\ app' = [app EXCEPT !.read = Append(@, Head(conn.in))]
  /\ conn' = [conn EXCEPT !.in = Tail(@)]
  /\ UNCHANGED <<table, phase, peer, net, locked, image, rstVars>>
PeerWrite ==
  /\ Conns # {} /\ ~ peer.closed /\ peer.wrote < PeerBytes
  /\ peer' = [peer EXCEPT !.wrote = @ + 1, !.out = Append(@, peer.wrote + 1)]
  /\ UNCHANGED <<table, phase, conn, net, locked, app, image, rstVars>>

PeerClose ==
  /\ Conns # {} /\ ~ peer.closed
  /\ peer' = [peer EXCEPT !.closed = TRUE, !.out = Append(@, Fin)]
  /\ UNCHANGED <<table, phase, conn, net, locked, app, image, rstVars>>

-----------------------------------------------------------------------------
(* The dump of the connection, its task frozen *)

DumpKeeps == UNCHANGED <<table, peer, net, app, rstVars>>

\* inet_collect_one() learns the state of the socket; it may change until the
\* connection is locked.
can_dump_inet_sk == ~ conn.fin
inet_collect_one ==
  /\ phase = "live" /\ HasConn
  /\ phase' = IF can_dump_inet_sk THEN "collected" ELSE "resumed"
  /\ DumpKeeps /\ UNCHANGED <<conn, locked, image>>
\* The rules for both directions; one that cannot be set takes the other back.
nf_lock_connection ==
  /\ phase = "collected" /\ phase' = "locked" /\ locked' = TRUE
  /\ DumpKeeps /\ UNCHANGED <<conn, image>>
tcp_repair_on ==
  /\ phase = "locked" /\ phase' = "repair" /\ conn' = [conn EXCEPT !.repair = TRUE]
  /\ DumpKeeps /\ UNCHANGED <<locked, image>>

\* The state again and the lengths of the queues, then the queues and the
\* sequence numbers of their ends.  (A connection that was reset would do too;
\* nobody resets this one.)
refresh_inet_sk_any_state == TRUE
refresh_inet_sk == ~ conn.fin
tcp_stream_get_queue == [rcv |-> conn.rcv, write |-> Mod(conn.una + Len(conn.out))]
dump_tcp_conn_state ==
  /\ phase = "repair" /\ refresh_inet_sk /\ phase' = "read"
  /\ image' = [inq_seq |-> tcp_stream_get_queue.rcv, inq |-> conn.in,
               outq_seq |-> tcp_stream_get_queue.write, outq |-> conn.out,
               unsq_len |-> Len(conn.out) - conn.sent]
  /\ DumpKeeps /\ UNCHANGED <<conn, locked>>

\* A failure, of the lock too: before repair mode is on it is undone at once,
\* later by cpt_unlock_tcp_connections(), as after a dump of tasks that go on.
tcp_repair_establised_failed ==
  /\ phase \in {"collected", "locked"} /\ phase' = "resumed" /\ locked' = FALSE
  /\ DumpKeeps /\ UNCHANGED <<conn, image>>
cpt_unlock_tcp_connections ==
  /\ phase \in {"repair", "read"} /\ phase' = "rollback" /\ locked' = FALSE
  /\ DumpKeeps /\ UNCHANGED <<conn, image>>
tcp_unlock_one ==
  /\ phase = "rollback" /\ phase' = "resumed" /\ conn' = [conn EXCEPT !.repair = FALSE]
  /\ DumpKeeps /\ UNCHANGED <<locked, image>>

\* The tasks are killed; a socket that is not in repair mode says goodbye.
Kill ==
  /\ phase = IF Conns = {} THEN "live" ELSE "read"
  /\ phase' = "dead" /\ conn' = NoConn
  /\ peer' = [peer EXCEPT !.fin = HasConn /\ ~ conn.repair]
  /\ UNCHANGED <<table, net, locked, app, image, rstVars>>

-----------------------------------------------------------------------------
(* The restore *)

\* collect_one_inetsk() counts the users of the ports.
Ports == {table[s].port : s \in Sockets}
port_add(p) == Cardinality({s \in Sockets : table[s].port = p})
Collect ==
  /\ phase = "dead" /\ phase' = "restore"
  /\ users' = [p \in Ports |-> port_add(p)]
  /\ fast' = [p \in Ports |-> TRUE]
  /\ ks' = [s \in Sockets |-> [bound |-> FALSE, listening |-> FALSE, reuse |-> 0]]
  /\ st' = [s \in Sockets |-> "none"]
  /\ UNCHANGED <<table, tcpVars, image, raced>>

\* The kernel.  SO_REUSEADDR is 0, 1 or, in repair mode, 2.
Owners(s) == {o \in Sockets \ {s} : ks[o].bound /\ table[o].port = table[s].port}
Conflict(s, reuse) ==
  \E o \in Owners(s) : reuse = 0 \/ ks[o].reuse = 0 \/ ks[o].listening
CanBind(s, reuse) ==
  \/ reuse = 2 \/ ~ Conflict(s, reuse)
  \/ table[s].kind # "dgram" /\ reuse = 1 /\ fast[table[s].port]
Bound(s, reuse) == /\ ks' = [ks EXCEPT ![s] = [@ EXCEPT !.bound = TRUE, !.reuse = reuse]]
                   /\ fast' = [fast EXCEPT ![table[s].port] = @ /\ reuse # 0]

\* Every task opens its sockets one after another, then finishes them.
Before(s) == {o \in Sockets : table[o].task = table[s].task /\ o < s}
Turn(s, step) ==
  /\ phase = "restore" /\ st[s] = step
  /\ \A o \in Before(s) : st[o] \in {"open", "ready"}
Steps(s, step) == st' = [st EXCEPT ![s] = step]
Fail == phase' = "failed" /\ UNCHANGED <<table, tcpVars, image, rstVars>>
RstKeeps == UNCHANGED <<table, phase, peer, net, locked, app, image, raced>>

\* open_inet_sk() of a socket that is not connected.
inet_bind(s) ==
  /\ table[s].kind # "conn" /\ Turn(s, "none")
  /\ IF CanBind(s, 1)
       THEN /\ Bound(s, 1) /\ Steps(s, IF table[s].kind = "listen" THEN "bound" ELSE "open")
            /\ users' = IF table[s].kind = "listen" THEN users ELSE [users EXCEPT ![table[s].port] = @ - 1]
            /\ UNCHANGED conn /\ RstKeeps
       ELSE Fail
listen(s) ==
  /\ Turn(s, "bound")
  /\ IF Conflict(s, 1)
       THEN /\ phase' = "failed" /\ raced' = (\E o \in Owners(s) : st[o] = "sending")
            /\ UNCHANGED <<table, tcpVars, image, ks, fast, users, st>>
       ELSE /\ ks' = [ks EXCEPT ![s].listening = TRUE] /\ fast' = [fast EXCEPT ![table[s].port] = FALSE]
            /\ users' = [users EXCEPT ![table[s].port] = @ - 1]
            /\ Steps(s, "open") /\ UNCHANGED conn /\ RstKeeps

\* restore_one_tcp(): repair mode, the sequence numbers, bind() and connect().
\* What is put into the queues moves the numbers on.
restore_tcp_seqs_ends == [rcv |-> image.inq_seq, una |-> image.outq_seq]
restore_tcp_seqs == [rcv |-> Mod(image.inq_seq - Len(image.inq)), una |-> Mod(image.outq_seq - Len(image.outq))]
restore_tcp_conn_state(s) ==
  /\ table[s].kind = "conn" /\ Turn(s, "none")
  /\ IF CanBind(s, 2)
       THEN /\ Bound(s, 2) /\ Steps(s, "connected")
            /\ conn' = [End(restore_tcp_seqs.una, restore_tcp_seqs.rcv) EXCEPT !.repair = TRUE]
            /\ UNCHANGED users /\ RstKeeps
       ELSE Fail
\* restore_tcp_queues(): what was received, and what was sent, in repair mode ...
send_tcp_queue(s) ==
  /\ Turn(s, "connected") /\ Steps(s, "queues")
  /\ LET sent == Len(image.outq) - image.unsq_len
     IN  conn' = [conn EXCEPT !.rcv = Mod(@ + Len(image.inq)), !.in = image.inq,
                              !.out = SubSeq(image.outq, 1, sent), !.sent = sent]
  /\ UNCHANGED <<ks, fast, users>> /\ RstKeeps
\* ... and the rest without it.
send_unsent(s) ==
  /\ Turn(s, "queues") /\ Steps(s, "sending")
  /\ conn' = [conn EXCEPT !.repair = FALSE, !.out = image.outq]
  /\ ks' = [ks EXCEPT ![s].reuse = 0]
  /\ UNCHANGED <<fast, users>> /\ RstKeeps
repair_again(s) ==
  /\ Turn(s, "sending") /\ Steps(s, "open")
  /\ conn' = [conn EXCEPT !.repair = TRUE]
  /\ ks' = [ks EXCEPT ![s].reuse = 2]
  /\ users' = [users EXCEPT ![table[s].port] = @ - 1]
  /\ UNCHANGED fast /\ RstKeeps

\* post_open_inet_sk(), when everything of the task is open.
PortIsBound_now(s) == TRUE
PortIsBound(s) == users[table[s].port] = 0
post_open_inet_sk(s) ==
  /\ Turn(s, "open") /\ \A o \in Sockets : table[o].task = table[s].task => st[o] \in {"open", "ready"}
  /\ IF table[s].kind = "conn" \/ table[s].reuse THEN UNCHANGED ks
     ELSE PortIsBound(s) /\ ks' = [ks EXCEPT ![s].reuse = 0]
  /\ Steps(s, "ready") /\ UNCHANGED <<conn, fast, users>> /\ RstKeeps

\* criu unlocks the connections when all tasks are ready, and every task then
\* leaves repair mode, rst_tcp_repair_off().
rst_unlock_tcp_connections ==
  /\ phase = "restore" /\ \A s \in Sockets : st[s] = "ready"
  /\ phase' = "unlocked" /\ locked' = FALSE
  /\ UNCHANGED <<table, conn, peer, net, app, image, rstVars>>
rst_tcp_repair_off ==
  /\ phase = "unlocked" /\ phase' = "done"
  /\ conn' = IF Conns = {} THEN conn ELSE [conn EXCEPT !.repair = FALSE]
  /\ ks' = [s \in Sockets |-> IF s \in Conns THEN [ks[s] EXCEPT !.reuse = IF table[s].reuse THEN 1 ELSE 0] ELSE ks[s]]
  /\ UNCHANGED <<table, peer, net, locked, app, image, fast, users, st, raced>>

-----------------------------------------------------------------------------
Init ==
  /\ table \in Tables /\ phase = "live" /\ locked = FALSE /\ raced = FALSE
  /\ conn = IF Conns = {} THEN NoConn ELSE End(FirstSeq, FirstSeq)
  /\ peer = [wrote |-> 0, closed |-> FALSE, reset |-> FALSE,
             una |-> FirstSeq, out |-> << >>, sent |-> 0, rcv |-> FirstSeq, in |-> << >>, fin |-> FALSE]
  /\ net = Nothing
  /\ app = [wrote |-> 0, read |-> << >>]
  /\ image = [inq_seq |-> 0, inq |-> << >>, outq_seq |-> 0, outq |-> << >>, unsq_len |-> 0]
  /\ ks = << >> /\ fast = << >> /\ users = << >> /\ st = << >>

Network ==
  \/ \E k \in 1..(MaxBytes + 1) : Transmit(k) \/ PeerTransmit(k)
  \/ Arrive
DumpStep ==
  \/ inet_collect_one \/ nf_lock_connection \/ tcp_repair_on \/ dump_tcp_conn_state \/ tcp_repair_establised_failed
  \/ cpt_unlock_tcp_connections \/ tcp_unlock_one \/ Kill
RestoreStep ==
  \/ Collect \/ rst_unlock_tcp_connections \/ rst_tcp_repair_off
  \/ \E s \in Sockets : \/ inet_bind(s) \/ listen(s) \/ restore_tcp_conn_state(s) \/ send_tcp_queue(s)
                        \/ send_unsent(s) \/ repair_again(s) \/ post_open_inet_sk(s)
Next == Network \/ Write \/ Read \/ PeerWrite \/ PeerClose \/ DumpStep \/ RestoreStep

\* The kernels send, deliver and send again, the tasks read, and criu and the
\* tasks it restores go on; when to dump, and whether the dump fails, is open.
FairSpec ==
  /\ Init /\ [][Next]_vars
  /\ SF_vars(Transmit(1)) /\ SF_vars(Transmit(conn.sent + 1))
  /\ SF_vars(PeerTransmit(1)) /\ SF_vars(PeerTransmit(peer.sent + 1))
  /\ WF_vars(Arrive) /\ WF_vars(Read)
  /\ WF_vars(RestoreStep)
  /\ WF_vars(phase # "live" /\ DumpStep)

-----------------------------------------------------------------------------
(* Properties *)

Bytes(n) == [k \in 1..n |-> k]
\* The stream is what was written, in order, in both directions and wherever
\* the connection is, and the peer never hears that the socket is gone.
StreamIntact ==
  /\ ~ peer.reset /\ ~ peer.fin
  /\ IsPrefix(peer.in, Bytes(app.wrote))
  /\ IsPrefix(app.read \o conn.in, Bytes(peer.wrote))

\* A connection that survived a dump, or was restored, works again: what was
\* written arrives, and so does the end of the stream.  (No end is lost with a
\* peer that closed after the state of the socket was collected.)
Delivered ==
  (phase \in {"resumed", "done"} /\ Conns # {}) ~>
    (peer.in = Bytes(app.wrote) /\ app.read = Bytes(peer.wrote) /\ conn.fin = peer.closed)

\* Sockets that share a port come back with their own SO_REUSEADDR; nothing
\* fails but a listen() while a connection of the port is out of repair mode.
PortsRestored ==
  /\ phase = "failed" => raced
  /\ phase = "done" =>
       \A s \in Sockets : /\ ks[s].bound
                          /\ ks[s].listening = (table[s].kind = "listen")
                          /\ ks[s].reuse = IF table[s].reuse THEN 1 ELSE 0
=============================================================================
