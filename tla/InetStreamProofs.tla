-------------------------- MODULE InetStreamProofs --------------------------
(***************************************************************************)
(* A connection is not damaged by a dump and a restore: proof of           *)
(* StreamIntact for streams of any length that the sequence numbers tell   *)
(* apart, from any first number, so also for numbers that wrap around.     *)
(***************************************************************************)
EXTENDS InetSockets, SequenceTheorems, TLAPS

-----------------------------------------------------------------------------
(* Sequence numbers *)

M == 2 ^ SeqBits

\* The numbers that the code adds and subtracts are never further apart.
LEMMA ModCases ==
  /\ M \in Nat /\ MaxBytes + 1 < M /\ FirstSeq \in 0..(M - 1)
  /\ \A n \in 0..(M - 1) : Mod(n) = n /\ Mod(n + M) = n /\ Mod(n - M) = n
<1>1. M \in Nat /\ MaxBytes + 1 < M /\ FirstSeq \in 0..(M - 1) /\ M > 0
  BY InetAssumption DEF M
<1>2. ASSUME NEW m \in Nat, m > 0, NEW n \in 0..(m - 1)
      PROVE  n % m = n /\ (n + m) % m = n /\ (n - m) % m = n
  OBVIOUS
<1>3. \A n \in Int : Mod(n) = n % M
  BY DEF Mod, M
<1>4. \A n \in 0..(M - 1) : n % M = n /\ (n + M) % M = n /\ (n - M) % M = n
  BY <1>1, <1>2
<1>5. \A n \in 0..(M - 1) : n \in Int /\ n + M \in Int /\ n - M \in Int
  BY <1>1
<1> QED BY <1>1, <1>3, <1>4, <1>5

-----------------------------------------------------------------------------
(* The inductive invariant.  A byte, or the end of the stream, is known by  *)
(* its position: the first one that was written has position 1.             *)

\* The number that the byte after the first i has.
P(i) == Mod(FirstSeq + i)

\* Positions a + 1 to t of a stream of w bytes: the end comes after them.
Queue(w, a, t) == [k \in 1..(t - a) |-> IF a + k <= w THEN a + k ELSE Fin]

DumpPhases == {"live", "collected", "locked", "repair", "read", "rollback", "resumed"}
RestorePhases == {"restore", "unlocked", "done", "failed"}
TheConn == CHOOSE c \in Conns : TRUE
ConnSteps == {"none", "connected", "queues", "sending", "open", "ready"}
AnySteps == ConnSteps \cup {"bound"}
TcpSteps == {"connected", "queues", "sending"}

EndType == [una : 0..M, out : Seq(Nat), sent : Nat, rcv : 0..M, in : Seq(Nat), fin : BOOLEAN, repair : BOOLEAN]
PeerType == [wrote : 0..PeerBytes, closed : BOOLEAN, reset : BOOLEAN,
             una : 0..M, out : Seq(Nat), sent : Nat, rcv : 0..M, in : Seq(Nat), fin : BOOLEAN]
ImageType == [inq_seq : 0..M, inq : Seq(Nat), outq_seq : 0..M, outq : Seq(Nat), unsq_len : Nat]

\* The local end: the socket, or what the image says of it.
InImage == phase = "dead" \/ (phase \in RestorePhases /\ st[TheConn] \in {"none", "connected", "queues"})
FromImage ==
  [una |-> Mod(image.outq_seq - Len(image.outq)), out |-> image.outq, sent |-> Len(image.outq) - image.unsq_len,
   rcv |-> image.inq_seq, in |-> image.inq, fin |-> FALSE, repair |-> TRUE]
Local == IF InImage THEN FromImage ELSE conn

\* Where the socket is on its way from the dump to the restore.
PhaseInv ==
  /\ phase \in DumpPhases \cup {"dead"} \cup RestorePhases
  /\ phase \in RestorePhases =>
       /\ st \in [Sockets -> AnySteps] /\ st[TheConn] \in ConnSteps
       /\ \A s \in Sockets : st[s] \in TcpSteps => s = TheConn
       /\ phase \in {"unlocked", "done"} => st[TheConn] = "ready"
  /\ phase \in {"locked", "repair", "read", "dead", "restore", "failed"} => locked
  /\ phase \in {"repair", "read"} => conn.repair
  /\ phase = "read" => conn = FromImage
  /\ InImage =>
       IF phase = "dead" \/ st[TheConn] = "none" THEN conn = NoConn
       ELSE IF st[TheConn] = "connected"
         THEN conn = [End(FromImage.una, Mod(image.inq_seq - Len(image.inq))) EXCEPT !.repair = TRUE]
       ELSE conn = [FromImage EXCEPT !.out = SubSeq(image.outq, 1, FromImage.sent)]

\* The task's bytes: a are acknowledged, r are with the peer.
WriteInv(e, a, r) ==
  /\ a <= r /\ r <= a + e.sent /\ a + e.sent <= app.wrote
  /\ e.una = P(a) /\ e.out = Queue(app.wrote, a, app.wrote)
  /\ peer.rcv = P(r) /\ peer.in = Bytes(r)

\* The peer's: b are acknowledged, q are with the local end.
PeerLast == peer.wrote + IF peer.closed THEN 1 ELSE 0
ReadInv(e, b, q) ==
  /\ b <= q /\ q <= b + peer.sent /\ b + peer.sent <= PeerLast
  /\ peer.una = P(b) /\ peer.out = Queue(peer.wrote, b, PeerLast)
  /\ e.rcv = P(q) /\ (e.fin <=> q > peer.wrote)
  /\ app.read \o e.in = Bytes(IF q > peer.wrote THEN peer.wrote ELSE q)

\* A segment that is late: its acknowledgment is old, and so may its data be.
NetInv(r, b) ==
  net # Nothing =>
    \E i \in Nat, j \in 0..r :
      /\ net = [seq |-> P(i), data |-> net.data, ack |-> P(j)]
      /\ \/ net.data = << >>
         \/ i + 1 <= b + peer.sent /\ net.data = <<IF i + 1 <= peer.wrote THEN i + 1 ELSE Fin>>

Carried ==
  /\ app \in [wrote : 0..MaxBytes, read : Seq(Nat)]
  /\ conn \in EndType /\ peer \in PeerType /\ image \in ImageType
  /\ ~ peer.reset /\ ~ peer.fin
  /\ PhaseInv
  /\ \E a, r, b, q \in Nat : WriteInv(Local, a, r) /\ ReadInv(Local, b, q) /\ NetInv(r, b)

\* Without a connection there is no stream.
Idle ==
  /\ phase \in {"live", "dead"} \cup RestorePhases
  /\ phase \in RestorePhases => st \in [Sockets -> AnySteps \ TcpSteps]
  /\ conn = NoConn /\ net = Nothing /\ app = [wrote |-> 0, read |-> << >>]
  /\ peer \in PeerType /\ peer.in = << >> /\ ~ peer.reset /\ ~ peer.fin

StreamInv ==
  /\ table \in Tables
  /\ IF Conns = {} THEN Idle ELSE Carried

-----------------------------------------------------------------------------
(* Positions and their numbers *)

LEMMA Number ==
  \A i \in 0..(M - 1) : /\ P(i) = IF FirstSeq + i < M THEN FirstSeq + i ELSE FirstSeq + i - M
                        /\ P(i) \in 0..(M - 1)
<1> SUFFICES ASSUME NEW i \in 0..(M - 1)
             PROVE  P(i) = (IF FirstSeq + i < M THEN FirstSeq + i ELSE FirstSeq + i - M) /\ P(i) \in 0..(M - 1)
  OBVIOUS
<1>1. CASE FirstSeq + i < M
  <2>1. FirstSeq + i \in 0..(M - 1)
    BY <1>1, ModCases
  <2> QED BY <1>1, <2>1, ModCases DEF P
<1>2. CASE ~ (FirstSeq + i < M)
  <2>1. FirstSeq + i - M \in 0..(M - 1) /\ (FirstSeq + i - M) + M = FirstSeq + i
    BY <1>2, ModCases
  <2>2. Mod((FirstSeq + i - M) + M) = FirstSeq + i - M
    BY <2>1, ModCases
  <2> QED BY <1>2, <2>1, <2>2 DEF P
<1> QED BY <1>1, <1>2

LEMMA SameNumber == \A i, j \in 0..(M - 1) : P(i) = P(j) => i = j
BY Number, ModCases

\* k positions on, and back.
LEMMA Onwards ==
  ASSUME NEW i \in Nat, NEW k \in Nat, i + k < M
  PROVE  Mod(P(i) + k) = P(i + k) /\ Mod(P(i + k) - k) = P(i)
<1>1. i \in 0..(M - 1) /\ i + k \in 0..(M - 1) /\ M \in Nat /\ FirstSeq \in 0..(M - 1)
  BY ModCases
<1>2. /\ P(i) = IF FirstSeq + i < M THEN FirstSeq + i ELSE FirstSeq + i - M
      /\ P(i + k) = IF FirstSeq + (i + k) < M THEN FirstSeq + (i + k) ELSE FirstSeq + (i + k) - M
      /\ P(i) \in 0..(M - 1) /\ P(i + k) \in 0..(M - 1)
  BY <1>1, Number
<1>3. P(i) + k = P(i + k) \/ P(i) + k = P(i + k) + M
  BY <1>1, <1>2
<1>4. P(i + k) - k = P(i) \/ P(i + k) - k = P(i) - M
  BY <1>1, <1>2
<1>5. Mod(P(i) + k) = P(i + k)
  BY <1>2, <1>3, ModCases
<1>6. Mod(P(i + k) - k) = P(i)
  BY <1>2, <1>4, ModCases
<1> QED BY <1>5, <1>6

\* How far an acknowledgment of j is from a.
LEMMA Distance ==
  ASSUME NEW a \in 0..(M - 1), NEW j \in 0..(M - 1)
  PROVE  Mod(P(j) - P(a)) = IF j >= a THEN j - a ELSE M + j - a
<1>1. M \in Nat /\ FirstSeq \in 0..(M - 1)
  BY ModCases
<1>2. /\ P(a) = IF FirstSeq + a < M THEN FirstSeq + a ELSE FirstSeq + a - M
      /\ P(j) = IF FirstSeq + j < M THEN FirstSeq + j ELSE FirstSeq + j - M
      /\ P(a) \in 0..(M - 1) /\ P(j) \in 0..(M - 1)
  BY Number
<1>3. CASE j >= a
  <2>1. j - a \in 0..(M - 1) /\ (P(j) - P(a) = j - a \/ P(j) - P(a) = (j - a) - M)
    BY <1>1, <1>2, <1>3
  <2>2. Mod(j - a) = j - a /\ Mod((j - a) - M) = j - a
    BY <2>1, ModCases
  <2> QED BY <1>3, <2>1, <2>2
<1>4. CASE ~ (j >= a)
  <2> DEFINE d == M + j - a
  <2>1. d \in 0..(M - 1) /\ (P(j) - P(a) = d \/ P(j) - P(a) = d - M)
    BY <1>1, <1>2, <1>4
  <2>2. Mod(d) = d /\ Mod(d - M) = d
    BY <2>1, ModCases
  <2> QED BY <1>4, <2>1, <2>2
<1> QED BY <1>3, <1>4

-----------------------------------------------------------------------------
(* Queues *)

LEMMA QueueType ==
  ASSUME NEW w \in Nat, NEW a \in Nat, NEW t \in Nat, a <= t
  PROVE  /\ Queue(w, a, t) \in Seq(Nat) /\ Len(Queue(w, a, t)) = t - a
         /\ \A k \in 1..(t - a) : Queue(w, a, t)[k] = IF a + k <= w THEN a + k ELSE Fin
<1>1. t - a \in Nat /\ \A k \in 1..(t - a) : (IF a + k <= w THEN a + k ELSE Fin) \in Nat
  BY DEF Fin
<1> QED BY <1>1, IsASeq, LenProperties DEF Queue

LEMMA BytesType ==
  ASSUME NEW n \in Nat
  PROVE  Bytes(n) \in Seq(Nat) /\ Len(Bytes(n)) = n /\ \A k \in 1..n : Bytes(n)[k] = k
BY IsASeq DEF Bytes

\* What an acknowledgment of c bytes leaves.
LEMMA QueueTail ==
  ASSUME NEW w \in Nat, NEW a \in Nat, NEW t \in Nat, NEW c \in Nat, a <= c, c <= t
  PROVE  SubSeq(Queue(w, a, t), c - a + 1, Len(Queue(w, a, t))) = Queue(w, c, t)
<1> DEFINE s == Queue(w, a, t)
           u == SubSeq(s, c - a + 1, Len(s))
           v == Queue(w, c, t)
<1>0. a <= t
  OBVIOUS
<1>1. /\ s \in Seq(Nat) /\ Len(s) = t - a
      /\ \A k \in 1..(t - a) : s[k] = IF a + k <= w THEN a + k ELSE Fin
  BY <1>0, QueueType
<1>2. /\ v \in Seq(Nat) /\ Len(v) = t - c
      /\ \A k \in 1..(t - c) : v[k] = IF c + k <= w THEN c + k ELSE Fin
  BY QueueType
<1>3. u \in Seq(Nat) /\ Len(u) = t - c /\ \A k \in 1..Len(u) : u[k] = s[c - a + k]
  <2> HIDE DEF s
  <2> QED BY <1>1, SubSeqProperties
<1>4. \A k \in 1..Len(u) : u[k] = v[k]
  <2> HIDE DEF u, s, v
  <2> QED BY <1>1, <1>2, <1>3
<1> HIDE DEF u, v
<1>5. u = v
  BY <1>2, <1>3, <1>4, SeqEqual
<1> QED BY <1>5 DEF u, v

\* What is written comes at the end.
LEMMA QueueGrows ==
  ASSUME NEW w \in Nat, NEW x \in Nat, NEW a \in Nat, NEW v \in Nat, a <= w, w <= x,
         v = IF w + 1 <= x THEN w + 1 ELSE Fin
  PROVE  Append(Queue(w, a, w), v) = Queue(x, a, w + 1)
<1> DEFINE s == Queue(w, a, w)
           u == Append(s, v)
           z == Queue(x, a, w + 1)
<1>0. w + 1 \in Nat /\ a <= w + 1
  OBVIOUS
<1>1. /\ s \in Seq(Nat) /\ Len(s) = w - a /\ \A k \in 1..(w - a) : s[k] = a + k
  <2>1. /\ s \in Seq(Nat) /\ Len(s) = w - a
        /\ \A k \in 1..(w - a) : s[k] = IF a + k <= w THEN a + k ELSE Fin
    BY ONLY QueueType, a \in Nat, w \in Nat, a <= w
  <2> HIDE DEF s
  <2> QED BY <2>1
<1>2. /\ z \in Seq(Nat) /\ Len(z) = w + 1 - a
      /\ \A k \in 1..(w + 1 - a) : z[k] = IF a + k <= x THEN a + k ELSE Fin
  <2>1. PICK t : t = w + 1
    OBVIOUS
  <2>2. /\ Queue(x, a, t) \in Seq(Nat) /\ Len(Queue(x, a, t)) = t - a
        /\ \A k \in 1..(t - a) : Queue(x, a, t)[k] = IF a + k <= x THEN a + k ELSE Fin
    <3>1. t \in Nat /\ a <= t
      BY <2>1
    <3> QED BY ONLY QueueType, a \in Nat, x \in Nat, <3>1
  <2> QED BY <2>1, <2>2
<1>3. u \in Seq(Nat) /\ Len(u) = w - a + 1 /\ \A k \in 1..Len(u) : u[k] = IF k <= w - a THEN s[k] ELSE v
  <2> HIDE DEF s
  <2>1. /\ u \in Seq(Nat) /\ Len(u) = Len(s) + 1
        /\ \A k \in 1..Len(s) : u[k] = s[k]
        /\ u[Len(s) + 1] = v
    BY <1>1, AppendProperties
  <2> HIDE DEF u
  <2> QED BY <1>1, <2>1
<1>4. \A k \in 1..Len(u) : u[k] = z[k]
  <2> HIDE DEF u, s, z
  <2> QED BY SMTT(30), <1>1, <1>2, <1>3
<1> HIDE DEF u, z
<1>5. u = z
  BY <1>2, <1>3, <1>4, SeqEqual
<1> QED BY <1>5 DEF u, z

LEMMA Associative == \A s, t, u \in Seq(Nat) : (s \o t) \o u = s \o (t \o u)
BY SMTT(30), ConcatAssociative

LEMMA BytesGrow ==
  ASSUME NEW n \in Nat
  PROVE  Bytes(n) \o <<n + 1>> = Bytes(n + 1)
<1> DEFINE u == Bytes(n) \o <<n + 1>>
           v == Bytes(n + 1)
<1>1. Bytes(n) \in Seq(Nat) /\ Len(Bytes(n)) = n /\ \A k \in 1..n : Bytes(n)[k] = k
  BY BytesType
<1>2. v \in Seq(Nat) /\ Len(v) = n + 1 /\ \A k \in 1..(n + 1) : v[k] = k
  BY BytesType
<1>3. <<n + 1>> \in Seq(Nat) /\ Len(<<n + 1>>) = 1 /\ <<n + 1>>[1] = n + 1
  OBVIOUS
<1>4. u \in Seq(Nat) /\ Len(u) = n + 1 /\ \A k \in 1..Len(u) : u[k] = IF k <= n THEN Bytes(n)[k] ELSE <<n + 1>>[k - n]
  BY <1>1, <1>3, ConcatProperties
<1>5. \A k \in 1..Len(u) : u[k] = v[k]
  <2> HIDE DEF u, v
  <2> QED BY <1>1, <1>2, <1>3, <1>4
<1> HIDE DEF u, v
<1>6. u = v
  BY <1>2, <1>4, <1>5, SeqEqual
<1> QED BY <1>6 DEF u, v

LEMMA FirstBytes ==
  ASSUME NEW s \in Seq(Nat), NEW t \in Seq(Nat), NEW m \in Nat, s \o t = Bytes(m)
  PROVE  \E l \in Nat : l <= m /\ s = Bytes(l)
<1>1. Len(Bytes(m)) = m /\ \A k \in 1..m : Bytes(m)[k] = k
  BY BytesType
<1>2. PICK l \in Nat, n \in Nat : l = Len(s) /\ n = Len(t)
  BY LenProperties
<1>3. l + n = m /\ \A k \in 1..l : (s \o t)[k] = s[k]
  <2>1. Len(s \o t) = Len(s) + Len(t) /\ \A k \in 1..Len(s) : (s \o t)[k] = s[k]
    OBVIOUS
  <2> QED BY <1>1, <1>2, <2>1
<1>4. Bytes(l) \in Seq(Nat) /\ Len(Bytes(l)) = l /\ \A k \in 1..l : Bytes(l)[k] = k
  BY BytesType
<1>5. \A k \in 1..l : s[k] = Bytes(l)[k]
  BY <1>1, <1>2, <1>3, <1>4
<1>6. s = Bytes(l)
  BY <1>2, <1>4, <1>5, SeqEqual
<1> QED BY <1>2, <1>3, <1>6

LEMMA BytesPrefix ==
  ASSUME NEW m \in Nat, NEW n \in Nat, m <= n
  PROVE  IsPrefix(Bytes(m), Bytes(n))
<1> DEFINE u == SubSeq(Bytes(m), 1, m)
           v == SubSeq(Bytes(n), 1, m)
<1>1. Bytes(m) \in Seq(Nat) /\ Len(Bytes(m)) = m /\ \A k \in 1..m : Bytes(m)[k] = k
  BY BytesType
<1>2. Bytes(n) \in Seq(Nat) /\ Len(Bytes(n)) = n /\ \A k \in 1..n : Bytes(n)[k] = k
  BY BytesType
<1>3. u \in Seq(Nat) /\ Len(u) = m /\ \A k \in 1..m : u[k] = Bytes(m)[k]
  BY <1>1, SubSeqProperties
<1>4. v \in Seq(Nat) /\ Len(v) = m /\ \A k \in 1..m : v[k] = Bytes(n)[k]
  BY <1>2, SubSeqProperties
<1> HIDE DEF u, v
<1>5. u = v
  BY <1>1, <1>2, <1>3, <1>4, SeqEqual
<1> QED BY <1>1, <1>2, <1>5 DEF IsPrefix, u, v

-----------------------------------------------------------------------------
(* A segment arrives *)

\* An acknowledgment of j takes what it covers off the queue, and one that is
\* older than the last one does nothing.
LEMMA AckMoves ==
  ASSUME NEW w \in Nat, NEW t \in Nat, NEW a \in Nat, NEW j \in Nat,
         a <= t, t < M, j <= t, Mod(P(j) - P(a)) <= t - a
  PROVE  /\ Mod(P(j) - P(a)) = j - a /\ a <= j
         /\ SubSeq(Queue(w, a, t), j - a + 1, Len(Queue(w, a, t))) = Queue(w, j, t)
<1>1. a \in 0..(M - 1) /\ j \in 0..(M - 1) /\ M \in Nat
  BY ModCases
<1>2. Mod(P(j) - P(a)) = IF j >= a THEN j - a ELSE M + j - a
  BY <1>1, Distance
<1>3. a <= j
  BY <1>1, <1>2
<1> QED BY ZenonT(60), <1>2, <1>3, QueueTail

\* What Receive() makes of the acknowledgment.
Acked(e, ack) ==
  IF Mod(ack - e.una) <= e.sent
    THEN [e EXCEPT !.una = ack, !.out = SubSeq(@, Mod(ack - e.una) + 1, Len(@)), !.sent = @ - Mod(ack - e.una)] ELSE e

LEMMA ReceiveIs ==
  ASSUME NEW e, NEW seg
  PROVE  Receive(e, seg) =
           IF seg.data = << >> \/ seg.seq # e.rcv THEN Acked(e, seg.ack)
           ELSE IF seg.data = <<Fin>> THEN [Acked(e, seg.ack) EXCEPT !.rcv = Mod(@ + 1), !.fin = TRUE]
           ELSE [Acked(e, seg.ack) EXCEPT !.rcv = Mod(@ + 1), !.in = @ \o seg.data]
BY DEF Receive, Acked

LEMMA AckedEnd ==
  ASSUME NEW w \in Nat, NEW t \in Nat, NEW a \in Nat, NEW j \in Nat, NEW e \in EndType,
         a + e.sent <= t, t < M, j <= a + e.sent, e.una = P(a), e.out = Queue(w, a, t)
  PROVE  \E y \in EndType, c \in Nat :
           /\ y = Acked(e, P(j))
           /\ y.una = P(c) /\ y.out = Queue(w, c, t) /\ c + y.sent = a + e.sent
           /\ a <= c /\ (c = a \/ c = j)
           /\ y.rcv = e.rcv /\ y.in = e.in /\ (y.fin <=> e.fin) /\ (y.repair <=> e.repair)
<1>0. e.sent \in Nat /\ e.out \in Seq(Nat) /\ M \in Nat /\ P(j) \in 0..(M - 1)
  <2>1. j \in 0..(M - 1)
    BY ModCases DEF EndType
  <2> QED BY <2>1, ModCases, Number DEF EndType
<1>1. CASE ~ (Mod(P(j) - e.una) <= e.sent)
  BY <1>1 DEF Acked
<1>2. CASE Mod(P(j) - e.una) <= e.sent
  <2>1. /\ Mod(P(j) - e.una) = j - a /\ a <= j
        /\ SubSeq(e.out, j - a + 1, Len(e.out)) = Queue(w, j, t)
    <3>1. a <= t /\ j <= t /\ Mod(P(j) - P(a)) <= t - a
      <4>1. j \in 0..(M - 1) /\ a \in 0..(M - 1)
        BY <1>0
      <4>2. Mod(P(j) - P(a)) \in Int
        <5>1. Mod(P(j) - P(a)) = IF j >= a THEN j - a ELSE M + j - a
          BY ONLY <4>1, Distance
        <5> QED BY <1>0, <5>1
      <4> QED BY <1>0, <1>2, <4>2
    <3>2. /\ Mod(P(j) - P(a)) = j - a /\ a <= j
          /\ SubSeq(Queue(w, a, t), j - a + 1, Len(Queue(w, a, t))) = Queue(w, j, t)
      BY ONLY <3>1, AckMoves, w \in Nat, t \in Nat, a \in Nat, j \in Nat, t < M
    <3> QED BY <3>2
  <2>2. PICK y : y = [e EXCEPT !.una = P(j), !.out = Queue(w, j, t), !.sent = e.sent - (j - a)]
    OBVIOUS
  <2>3. y = Acked(e, P(j))
    BY <1>2, <2>1, <2>2 DEF Acked
  <2>4. Queue(w, j, t) \in Seq(Nat) /\ e.sent - (j - a) \in Nat /\ P(j) \in 0..M
    <3>1. j <= t /\ e.sent - (j - a) \in Nat /\ P(j) \in 0..M
      BY <1>0, <2>1
    <3>2. Queue(w, j, t) \in Seq(Nat)
      BY ONLY <3>1, QueueType, w \in Nat, j \in Nat, t \in Nat
    <3> QED BY <3>1, <3>2
  <2>5. /\ y \in EndType
        /\ y.una = P(j) /\ y.out = Queue(w, j, t) /\ y.sent = e.sent - (j - a)
        /\ y.rcv = e.rcv /\ y.in = e.in /\ (y.fin <=> e.fin) /\ (y.repair <=> e.repair)
    BY <2>2, <2>4 DEF EndType
  <2>6. j + y.sent = a + e.sent
    BY <1>0, <2>1, <2>5
  <2> QED BY <2>1, <2>3, <2>5, <2>6
<1> QED BY <1>1, <1>2

LEMMA AckedPeer ==
  ASSUME NEW w \in Nat, NEW t \in Nat, NEW a \in Nat, NEW j \in Nat, NEW e \in PeerType,
         a + e.sent <= t, t < M, j <= a + e.sent, e.una = P(a), e.out = Queue(w, a, t)
  PROVE  \E c \in Nat, y \in PeerType :
           /\ y = Acked(e, P(j))
           /\ y.una = P(c) /\ y.out = Queue(w, c, t) /\ c + y.sent = a + e.sent
           /\ a <= c /\ (c = a \/ c = j)
           /\ y.rcv = e.rcv /\ y.in = e.in /\ y.wrote = e.wrote
           /\ (y.fin <=> e.fin) /\ (y.closed <=> e.closed) /\ (y.reset <=> e.reset)
<1>0. e.sent \in Nat /\ e.out \in Seq(Nat) /\ M \in Nat /\ P(j) \in 0..(M - 1)
  <2>1. j \in 0..(M - 1)
    BY ModCases DEF PeerType
  <2> QED BY <2>1, ModCases, Number DEF PeerType
<1>1. CASE ~ (Mod(P(j) - e.una) <= e.sent)
  BY <1>1 DEF Acked
<1>2. CASE Mod(P(j) - e.una) <= e.sent
  <2>1. /\ Mod(P(j) - e.una) = j - a /\ a <= j
        /\ SubSeq(e.out, j - a + 1, Len(e.out)) = Queue(w, j, t)
    <3>1. a <= t /\ j <= t /\ Mod(P(j) - P(a)) <= t - a
      <4>1. j \in 0..(M - 1) /\ a \in 0..(M - 1)
        BY <1>0
      <4>2. Mod(P(j) - P(a)) \in Int
        <5>1. Mod(P(j) - P(a)) = IF j >= a THEN j - a ELSE M + j - a
          BY ONLY <4>1, Distance
        <5> QED BY <1>0, <5>1
      <4> QED BY <1>0, <1>2, <4>2
    <3>2. /\ Mod(P(j) - P(a)) = j - a /\ a <= j
          /\ SubSeq(Queue(w, a, t), j - a + 1, Len(Queue(w, a, t))) = Queue(w, j, t)
      BY ONLY <3>1, AckMoves, w \in Nat, t \in Nat, a \in Nat, j \in Nat, t < M
    <3> QED BY <3>2
  <2>2. PICK y : y = [e EXCEPT !.una = P(j), !.out = Queue(w, j, t), !.sent = e.sent - (j - a)]
    OBVIOUS
  <2>3. y = Acked(e, P(j))
    BY <1>2, <2>1, <2>2 DEF Acked
  <2>4. Queue(w, j, t) \in Seq(Nat) /\ e.sent - (j - a) \in Nat /\ P(j) \in 0..M
    <3>1. j <= t /\ e.sent - (j - a) \in Nat /\ P(j) \in 0..M
      BY <1>0, <2>1
    <3>2. Queue(w, j, t) \in Seq(Nat)
      BY ONLY <3>1, QueueType, w \in Nat, j \in Nat, t \in Nat
    <3> QED BY <3>1, <3>2
  <2>5. /\ y \in PeerType
        /\ y.una = P(j) /\ y.out = Queue(w, j, t) /\ y.sent = e.sent - (j - a)
        /\ y.rcv = e.rcv /\ y.in = e.in /\ y.wrote = e.wrote
        /\ (y.fin <=> e.fin) /\ (y.closed <=> e.closed) /\ (y.reset <=> e.reset)
    BY <2>2, <2>4 DEF PeerType
  <2>6. j + y.sent = a + e.sent
    BY <1>0, <2>1, <2>5
  <2> QED BY <2>1, <2>3, <2>5, <2>6
<1> QED BY <1>1, <1>2

LEMMA Bounds ==
  ASSUME app \in [wrote : 0..MaxBytes, read : Seq(Nat)], peer \in PeerType
  PROVE  /\ app.wrote \in Nat /\ app.wrote < M - 1 /\ M \in Nat
         /\ peer.wrote \in Nat /\ PeerLast \in Nat /\ PeerLast < M
         /\ peer.wrote <= PeerLast /\ PeerLast <= peer.wrote + 1
         /\ peer.sent \in Nat /\ (PeerLast > peer.wrote <=> peer.closed)
         /\ app.read \in Seq(Nat)
<1>1. MaxBytes \in Nat /\ PeerBytes \in 0..MaxBytes /\ M \in Nat /\ MaxBytes + 1 < M
  BY InetAssumption, ModCases
<1>2. app.wrote \in 0..MaxBytes /\ peer.wrote \in 0..PeerBytes /\ peer.sent \in Nat /\ peer.closed \in BOOLEAN
      /\ app.read \in Seq(Nat)
  BY DEF PeerType
<1> QED BY <1>1, <1>2 DEF PeerLast

\* The peer's segment, however old, changes the local end as it should.
LEMMA ConnReceives ==
  ASSUME Carried, NEW a \in Nat, NEW r \in Nat, NEW b \in Nat, NEW q \in Nat,
         WriteInv(conn, a, r), ReadInv(conn, b, q), NetInv(r, b), net # Nothing
  PROVE  \E e \in EndType, c, p \in Nat :
           /\ e = Receive(conn, net) /\ (e.repair <=> conn.repair)
           /\ WriteInv(e, c, r) /\ ReadInv(e, b, p)
<1>1. /\ app.wrote \in Nat /\ app.wrote < M - 1 /\ M \in Nat
      /\ peer.wrote \in Nat /\ PeerLast \in Nat /\ PeerLast < M
      /\ peer.wrote <= PeerLast /\ PeerLast <= peer.wrote + 1
      /\ peer.sent \in Nat /\ app.read \in Seq(Nat)
  BY Bounds DEF Carried
<1>2. conn \in EndType /\ conn.sent \in Nat /\ conn.in \in Seq(Nat) /\ conn.fin \in BOOLEAN
  BY DEF Carried, EndType
<1>3. /\ a <= r /\ r <= a + conn.sent /\ a + conn.sent <= app.wrote
      /\ conn.una = P(a) /\ conn.out = Queue(app.wrote, a, app.wrote)
      /\ peer.rcv = P(r) /\ peer.in = Bytes(r)
  BY DEF WriteInv
<1>4. /\ b <= q /\ q <= b + peer.sent /\ b + peer.sent <= PeerLast
      /\ peer.una = P(b) /\ peer.out = Queue(peer.wrote, b, PeerLast)
      /\ conn.rcv = P(q) /\ (conn.fin <=> q > peer.wrote)
      /\ app.read \o conn.in = Bytes(IF q > peer.wrote THEN peer.wrote ELSE q)
  BY <1>2 DEF ReadInv
<1>5. PICK i \in Nat, j \in 0..r :
        /\ net.seq = P(i) /\ net.ack = P(j)
        /\ \/ net.data = << >>
           \/ i + 1 <= b + peer.sent /\ net.data = <<IF i + 1 <= peer.wrote THEN i + 1 ELSE Fin>>
  BY DEF NetInv
<1>6. PICK y \in EndType, c \in Nat :
        /\ y = Acked(conn, P(j))
        /\ y.una = P(c) /\ y.out = Queue(app.wrote, c, app.wrote) /\ c + y.sent = a + conn.sent
        /\ a <= c /\ (c = a \/ c = j)
        /\ y.rcv = conn.rcv /\ y.in = conn.in /\ (y.fin <=> conn.fin) /\ (y.repair <=> conn.repair)
  <2>1. j \in Nat /\ j <= a + conn.sent /\ app.wrote < M
    BY SMTT(30), <1>1, <1>2, <1>3
  <2>2. /\ a + conn.sent <= app.wrote /\ conn.una = P(a) /\ conn.out = Queue(app.wrote, a, app.wrote)
        /\ conn \in EndType /\ app.wrote \in Nat
    BY <1>1, <1>2, <1>3
  <2>3. PICK w \in Nat, e \in EndType : w = app.wrote /\ e = conn
    BY <2>2
  <2>4. \E y \in EndType, c \in Nat :
           /\ y = Acked(e, P(j))
           /\ y.una = P(c) /\ y.out = Queue(w, c, w) /\ c + y.sent = a + e.sent
           /\ a <= c /\ (c = a \/ c = j)
           /\ y.rcv = e.rcv /\ y.in = e.in /\ (y.fin <=> e.fin) /\ (y.repair <=> e.repair)
    <3>1. /\ j \in Nat /\ j <= a + e.sent /\ w < M
          /\ a + e.sent <= w /\ e.una = P(a) /\ e.out = Queue(w, a, w)
      BY <2>1, <2>2, <2>3
    <3> QED BY ONLY SMTT(30), <3>1, AckedEnd, a \in Nat, w \in Nat, e \in EndType
  <2> QED BY <2>3, <2>4
<1>7. WriteInv(y, c, r) /\ y.sent \in Nat
  <2>1. c <= r /\ r <= c + y.sent /\ c + y.sent <= app.wrote /\ y.sent \in Nat
    BY SMTT(30), <1>1, <1>2, <1>3, <1>6 DEF EndType
  <2> QED BY <1>3, <1>6, <2>1 DEF WriteInv
<1>8. CASE net.data = << >> \/ net.seq # conn.rcv
  <2>1. Receive(conn, net) = y
    BY <1>5, <1>6, <1>8, ReceiveIs
  <2>2. ReadInv(y, b, q)
    BY <1>4, <1>6 DEF ReadInv, EndType
  <2> QED BY <1>6, <1>7, <2>1, <2>2
<1>9. CASE net.data # << >> /\ net.seq = conn.rcv
  <2>1. i + 1 <= b + peer.sent /\ net.data = <<IF i + 1 <= peer.wrote THEN i + 1 ELSE Fin>>
    BY <1>5, <1>9
  <2>2. i = q
    <3>1. i \in 0..(M - 1) /\ q \in 0..(M - 1)
      BY SMTT(30), <1>1, <1>4, <2>1
    <3> QED BY <1>4, <1>5, <1>9, <3>1, SameNumber
  <2>3. Mod(y.rcv + 1) = P(q + 1) /\ P(q + 1) \in 0..M
    <3>1. q + 1 < M /\ q + 1 \in 0..(M - 1)
      BY SMTT(30), <1>1, <1>4, <2>1, <2>2
    <3> QED BY SMTT(30), <1>1, <1>4, <1>6, <3>1, Onwards, Number
  <2>4. CASE q + 1 > peer.wrote
    <3>1. q = peer.wrote
      BY SMTT(30), <1>1, <1>4, <2>1, <2>2, <2>4
    <3>2. net.data = <<Fin>>
      BY <1>1, <2>1, <2>2, <2>4
    <3>3. PICK e : e = [y EXCEPT !.rcv = P(q + 1), !.fin = TRUE]
      OBVIOUS
    <3>4. e = Receive(conn, net)
      <4>1. Receive(conn, net) = [Acked(conn, net.ack) EXCEPT !.rcv = Mod(@ + 1), !.fin = TRUE]
        BY <1>9, <3>2, ReceiveIs
      <4> QED BY <1>5, <1>6, <2>3, <3>3, <4>1
    <3>5. /\ e \in EndType /\ e.rcv = P(q + 1) /\ e.fin = TRUE
          /\ e.una = y.una /\ e.out = y.out /\ e.sent = y.sent /\ e.in = y.in /\ (e.repair <=> y.repair)
      BY <2>3, <3>3 DEF EndType
    <3>6. WriteInv(e, c, r)
      BY <1>7, <3>5 DEF WriteInv
    <3>7. ReadInv(e, b, q + 1)
      <4>1. b <= q + 1 /\ q + 1 <= b + peer.sent /\ q + 1 > peer.wrote /\ ~ (q > peer.wrote)
        BY <1>1, <1>4, <2>1, <2>2, <3>1
      <4>2. app.read \o e.in = Bytes(peer.wrote)
        BY <1>4, <1>6, <3>1, <3>5, <4>1
      <4> QED BY <1>4, <3>5, <4>1, <4>2 DEF ReadInv
    <3> QED BY <1>6, <3>4, <3>5, <3>6, <3>7
  <2>5. CASE ~ (q + 1 > peer.wrote)
    <3>1. q + 1 <= peer.wrote /\ net.data = <<q + 1>> /\ ~ (q > peer.wrote)
      BY <1>1, <2>1, <2>2, <2>5
    <3>2. net.data # <<Fin>>
      BY <3>1 DEF Fin
    <3>3. PICK e : e = [y EXCEPT !.rcv = P(q + 1), !.in = conn.in \o <<q + 1>>]
      OBVIOUS
    <3>4. e = Receive(conn, net)
      <4>1. Receive(conn, net) = [Acked(conn, net.ack) EXCEPT !.rcv = Mod(@ + 1), !.in = @ \o net.data]
        BY <1>9, <3>2, ReceiveIs
      <4> QED BY <1>5, <1>6, <2>3, <3>1, <3>3, <4>1
    <3>5. <<q + 1>> \in Seq(Nat)
      OBVIOUS
    <3>6. conn.in \o <<q + 1>> \in Seq(Nat)
      BY <1>2, <3>5, ConcatProperties
    <3>7. /\ e \in EndType /\ e.rcv = P(q + 1) /\ e.in = conn.in \o <<q + 1>>
          /\ e.una = y.una /\ e.out = y.out /\ e.sent = y.sent
          /\ (e.fin <=> y.fin) /\ (e.repair <=> y.repair)
      BY <2>3, <3>3, <3>6 DEF EndType
    <3>8. WriteInv(e, c, r)
      BY <1>7, <3>7 DEF WriteInv
    <3>9. ReadInv(e, b, q + 1)
      <4>1. b <= q + 1 /\ q + 1 <= b + peer.sent /\ ~ (q + 1 > peer.wrote)
        BY <1>1, <1>4, <2>1, <2>2, <3>1
      <4>2. app.read \o e.in = Bytes(q + 1)
        <5>1. (app.read \o conn.in) \o <<q + 1>> = app.read \o (conn.in \o <<q + 1>>)
          <6>1. app.read \in Seq(Nat) /\ conn.in \in Seq(Nat)
            BY <1>1, <1>2
          <6> QED BY <6>1, <3>5, Associative
        <5>2. app.read \o conn.in = Bytes(q)
          BY <1>4, <3>1
        <5> QED BY <3>7, <5>1, <5>2, BytesGrow
      <4>3. e.fin <=> q + 1 > peer.wrote
        BY <1>4, <1>6, <3>1, <3>7, <4>1 DEF EndType
      <4> QED BY <1>4, <3>7, <4>1, <4>2, <4>3 DEF ReadInv
    <3>10. q + 1 \in Nat
      OBVIOUS
    <3> QED BY <1>6, <3>4, <3>7, <3>8, <3>9, <3>10
  <2> QED BY <2>4, <2>5
<1> QED BY <1>8, <1>9

-----------------------------------------------------------------------------
(* A segment is sent *)

LEMMA SentMoves ==
  ASSUME NEW s \in Nat, NEW n \in Nat, NEW k \in Nat, s <= n
  PROVE  /\ Max({s, Min({k, n})}) \in Nat /\ s <= Max({s, Min({k, n})}) /\ Max({s, Min({k, n})}) <= n
         /\ k <= n => k <= Max({s, Min({k, n})})
<1>1. PICK m : m = Min({k, n})
  OBVIOUS
<1>2. m \in {k, n} /\ m <= k /\ m <= n
  <2>1. \E x \in {k, n} : \A y \in {k, n} : x <= y
    OBVIOUS
  <2> QED BY <1>1, <2>1 DEF Min
<1>3. PICK z : z = Max({s, m})
  OBVIOUS
<1>4. z \in {s, m} /\ z >= s /\ z >= m
  <2>1. \E x \in {s, m} : \A y \in {s, m} : x >= y
    BY <1>2
  <2> QED BY <1>3, <2>1 DEF Max
<1>5. z \in Nat /\ s <= z /\ z <= n /\ (k <= n => k <= z)
  BY <1>2, <1>4
<1> QED BY <1>1, <1>3, <1>5

\* What is sent has its number, and what was received with it.
LEMMA SegmentIs ==
  ASSUME NEW w \in Nat, NEW t \in Nat, NEW a \in Nat, NEW k \in Nat,
         NEW e, k >= 1, a + k - 1 <= t, a <= t, t < M, e.una = P(a), e.out = Queue(w, a, t)
  PROVE  Segment(e, k) = [seq |-> P(a + k - 1), ack |-> e.rcv,
                          data |-> IF a + k <= t THEN <<IF a + k <= w THEN a + k ELSE Fin>> ELSE << >>]
<1>1. PICK h \in Nat : h = k - 1
  OBVIOUS
<1>2. a + h < M /\ a + h = a + k - 1 /\ M \in Nat
  BY <1>1, ModCases
<1>3. Mod(P(a) + h) = P(a + h)
  BY <1>2, Onwards
<1>4. P(a) \in Int
  <2>1. a \in 0..(M - 1)
    BY <1>2
  <2> QED BY <2>1, <1>2, Number
<1>5. P(a) + k - 1 = P(a) + h
  BY <1>1, <1>4
<1>6. Mod(e.una + k - 1) = P(a + k - 1)
  BY <1>2, <1>3, <1>5
<1>7. Len(e.out) = t - a /\ \A i \in 1..(t - a) : e.out[i] = IF a + i <= w THEN a + i ELSE Fin
  <2>1. Len(Queue(w, a, t)) = t - a /\ \A i \in 1..(t - a) : Queue(w, a, t)[i] = IF a + i <= w THEN a + i ELSE Fin
    BY ONLY a <= t, QueueType, a \in Nat, w \in Nat, t \in Nat
  <2> QED BY <2>1
<1>8. (IF k <= Len(e.out) THEN <<e.out[k]>> ELSE << >>)
        = IF a + k <= t THEN <<IF a + k <= w THEN a + k ELSE Fin>> ELSE << >>
  <2>1. CASE a + k <= t
    BY <1>2, <1>7, <2>1
  <2>2. CASE ~ (a + k <= t)
    BY <1>2, <1>7, <2>2
  <2> QED BY <2>1, <2>2
<1> QED BY <1>6, <1>8 DEF Segment

\* The socket counts what it sends.
LEMMA ConnSends ==
  ASSUME Carried, NEW a \in Nat, NEW r \in Nat, NEW b \in Nat, NEW q \in Nat,
         WriteInv(conn, a, r), ReadInv(conn, b, q), NEW k \in {1, conn.sent + 1},
         conn' = [conn EXCEPT !.sent = Max({@, Min({k, Len(conn.out)})})]
  PROVE  /\ conn' \in EndType /\ conn'.sent >= conn.sent /\ a + conn'.sent <= app.wrote
         /\ a + k <= app.wrote => k <= conn'.sent
         /\ conn'.una = conn.una /\ conn'.out = conn.out /\ conn'.rcv = conn.rcv /\ conn'.in = conn.in
         /\ (conn'.fin <=> conn.fin) /\ (conn'.repair <=> conn.repair)
<1>1. conn \in EndType /\ conn.sent \in Nat /\ k \in Nat /\ app.wrote \in Nat
  <2>1. conn \in EndType /\ app \in [wrote : 0..MaxBytes, read : Seq(Nat)] /\ peer \in PeerType
    BY DEF Carried
  <2>2. conn.sent \in Nat
    BY <2>1 DEF EndType
  <2> QED BY <2>1, <2>2, Bounds
<1>2. a + conn.sent <= app.wrote /\ conn.out = Queue(app.wrote, a, app.wrote)
  BY DEF WriteInv
<1>3. Len(conn.out) = app.wrote - a /\ app.wrote - a \in Nat
  <2>1. a <= app.wrote
    BY <1>1, <1>2
  <2> QED BY <1>1, <1>2, <2>1, QueueType
<1>4. PICK z : z = Max({conn.sent, Min({k, Len(conn.out)})})
  OBVIOUS
<1>5. z \in Nat /\ conn.sent <= z /\ z <= app.wrote - a /\ (k <= app.wrote - a => k <= z)
  <2>1. PICK s \in Nat, n \in Nat : s = conn.sent /\ n = app.wrote - a
    BY <1>1, <1>3
  <2>2. s <= n
    BY <1>1, <1>2, <2>1
  <2>3. z = Max({s, Min({k, n})})
    BY <1>3, <1>4, <2>1
  <2>4. z \in Nat /\ s <= z /\ z <= n /\ (k <= n => k <= z)
    BY <1>1, <2>2, <2>3, SentMoves
  <2> QED BY <2>1, <2>4
<1>6. conn' = [conn EXCEPT !.sent = z]
  BY <1>4
<1>7. /\ conn' \in EndType /\ conn'.sent = z
      /\ conn'.una = conn.una /\ conn'.out = conn.out /\ conn'.rcv = conn.rcv /\ conn'.in = conn.in
      /\ (conn'.fin <=> conn.fin) /\ (conn'.repair <=> conn.repair)
  BY <1>1, <1>5, <1>6 DEF EndType
<1> QED BY <1>1, <1>5, <1>7

\* What the local end sends changes the peer as it should.
LEMMA PeerReceives ==
  ASSUME Carried, NEW a \in Nat, NEW r \in Nat, NEW b \in Nat, NEW q \in Nat,
         WriteInv(conn, a, r), ReadInv(conn, b, q), NetInv(r, b), NEW k \in {1, conn.sent + 1},
         conn' = [conn EXCEPT !.sent = Max({@, Min({k, Len(conn.out)})})],
         peer' = Receive(peer, Segment(conn, k)), UNCHANGED <<app, net>>
  PROVE  /\ peer' \in PeerType /\ ~ peer'.reset /\ ~ peer'.fin
         /\ \E u, c \in Nat : WriteInv(conn, a, u)' /\ ReadInv(conn, c, q)' /\ NetInv(u, c)'
<1>1. /\ app.wrote \in Nat /\ app.wrote < M - 1 /\ M \in Nat
      /\ peer.wrote \in Nat /\ PeerLast \in Nat /\ PeerLast < M
      /\ peer.sent \in Nat
  BY Bounds DEF Carried
<1>2. /\ conn \in EndType /\ conn.sent \in Nat /\ k \in Nat /\ k >= 1
      /\ peer \in PeerType /\ ~ peer.reset /\ ~ peer.fin
  <2>1. conn \in EndType /\ peer \in PeerType /\ ~ peer.reset /\ ~ peer.fin
    BY DEF Carried
  <2>2. conn.sent \in Nat
    BY <2>1 DEF EndType
  <2> QED BY <2>1, <2>2
<1>3. /\ a <= r /\ r <= a + conn.sent /\ a + conn.sent <= app.wrote
      /\ conn.una = P(a) /\ conn.out = Queue(app.wrote, a, app.wrote)
      /\ peer.rcv = P(r) /\ peer.in = Bytes(r)
  BY DEF WriteInv
<1>4. /\ b <= q /\ q <= b + peer.sent /\ b + peer.sent <= PeerLast
      /\ peer.una = P(b) /\ peer.out = Queue(peer.wrote, b, PeerLast)
      /\ conn.rcv = P(q) /\ (conn.fin <=> q > peer.wrote)
      /\ app.read \o conn.in = Bytes(IF q > peer.wrote THEN peer.wrote ELSE q)
  BY DEF ReadInv
<1>5. /\ conn' \in EndType /\ conn'.sent >= conn.sent /\ a + conn'.sent <= app.wrote
      /\ a + k <= app.wrote => k <= conn'.sent
      /\ conn'.una = conn.una /\ conn'.out = conn.out /\ conn'.rcv = conn.rcv /\ conn'.in = conn.in
      /\ (conn'.fin <=> conn.fin)
  BY ConnSends
<1>6. conn'.sent \in Nat
  BY <1>5 DEF EndType
<1>7. PICK seg : seg = Segment(conn, k)
  OBVIOUS
<1>8. /\ seg.seq = P(a + k - 1) /\ seg.ack = P(q) /\ a + k - 1 \in Nat /\ a + k - 1 <= app.wrote
      /\ seg.data = IF a + k <= app.wrote THEN <<a + k>> ELSE << >>
  <2>1. PICK w \in Nat, s \in Nat : w = app.wrote /\ s = conn.sent
    BY <1>1, <1>2
  <2>2. a + s <= w /\ w < M /\ conn.out = Queue(w, a, w) /\ conn.sent = s /\ k \in {1, s + 1} /\ conn.una = P(a)
    BY <1>1, <1>3, <2>1
  <2>3. /\ Segment(conn, k).seq = P(a + k - 1) /\ Segment(conn, k).ack = conn.rcv
        /\ Segment(conn, k).data = IF a + k <= w THEN <<IF a + k <= w THEN a + k ELSE Fin>> ELSE << >>
        /\ a + k - 1 <= w /\ a + k - 1 \in Nat
    <3>1. a + k - 1 <= w /\ a <= w /\ w < M /\ a + k - 1 \in Nat
      BY <1>2, <2>2
    <3>2. Segment(conn, k) = [seq |-> P(a + k - 1), ack |-> conn.rcv,
                              data |-> IF a + k <= w THEN <<IF a + k <= w THEN a + k ELSE Fin>> ELSE << >>]
      BY SMTT(30), <1>2, <2>2, <3>1, SegmentIs
    <3> QED BY <3>1, <3>2
  <2> QED BY <1>4, <1>7, <2>1, <2>3
<1>9. PICK y \in PeerType, c \in Nat :
        /\ y = Acked(peer, P(q))
        /\ y.una = P(c) /\ y.out = Queue(peer.wrote, c, PeerLast) /\ c + y.sent = b + peer.sent
        /\ b <= c /\ (c = b \/ c = q)
        /\ y.rcv = peer.rcv /\ y.in = peer.in /\ y.wrote = peer.wrote
        /\ (y.fin <=> peer.fin) /\ (y.closed <=> peer.closed) /\ (y.reset <=> peer.reset)
  <2>1. PICK w \in Nat, t \in Nat, e \in PeerType : w = peer.wrote /\ t = PeerLast /\ e = peer
    BY <1>1, <1>2
  <2>2. \E y \in PeerType, c \in Nat :
        /\ y = Acked(e, P(q))
        /\ y.una = P(c) /\ y.out = Queue(w, c, t) /\ c + y.sent = b + e.sent
        /\ b <= c /\ (c = b \/ c = q)
        /\ y.rcv = e.rcv /\ y.in = e.in /\ y.wrote = e.wrote
        /\ (y.fin <=> e.fin) /\ (y.closed <=> e.closed) /\ (y.reset <=> e.reset)
    <3>1. b + e.sent <= t /\ t < M /\ q <= b + e.sent /\ e.una = P(b) /\ e.out = Queue(w, b, t)
      BY <1>1, <1>4, <2>1
    <3> QED BY ONLY <3>1, AckedPeer, w \in Nat, t \in Nat, b \in Nat, q \in Nat, e \in PeerType, SMTT(60)
  <2> QED BY <2>1, <2>2
<1>10. y.sent \in Nat /\ c <= q /\ q <= c + y.sent
  <2>1. y.sent \in Nat
    BY <1>9 DEF PeerType
  <2> QED BY <1>1, <1>4, <1>9, <2>1
\* Whatever the peer makes of the data.
<1>11. ASSUME NEW u \in Nat, r <= u, u <= a + conn'.sent,
              peer' \in PeerType, peer'.rcv = P(u), peer'.in = Bytes(u),
              peer'.una = y.una, peer'.out = y.out, peer'.sent = y.sent, peer'.wrote = y.wrote,
              peer'.closed <=> y.closed, peer'.reset <=> y.reset, peer'.fin <=> y.fin
       PROVE  /\ peer' \in PeerType /\ ~ peer'.reset /\ ~ peer'.fin
              /\ WriteInv(conn, a, u)' /\ ReadInv(conn, c, q)' /\ NetInv(u, c)'
  <2>1. WriteInv(conn, a, u)'
    <3>1. a <= u
      BY <1>3, <1>11
    <3> QED BY <1>3, <1>5, <1>11, <3>1 DEF WriteInv
  <2>2. PeerLast' = PeerLast
    BY <1>9, <1>11 DEF PeerLast
  <2>3. ReadInv(conn, c, q)'
    BY <1>4, <1>5, <1>9, <1>10, <1>11, <2>2 DEF ReadInv
  <2>4. NetInv(u, c)'
    <3>1. b + peer.sent = c + peer'.sent /\ peer'.wrote = peer.wrote /\ 0..r \in SUBSET (0..u)
      BY <1>9, <1>11
    <3> QED BY <3>1 DEF NetInv
  <2> QED BY <1>2, <1>9, <1>11, <2>1, <2>3, <2>4
<1>12. CASE seg.data = << >> \/ seg.seq # peer.rcv
  <2>1. peer' = y
    BY <1>7, <1>8, <1>9, <1>12, ReceiveIs
  <2>2. r <= a + conn'.sent
    BY <1>2, <1>3, <1>5, <1>6
  <2>3. peer'.rcv = P(r) /\ peer'.in = Bytes(r)
    BY <1>3, <1>9, <2>1
  <2>4. peer' \in PeerType /\ r <= r
    BY <1>9, <2>1
  <2>5. /\ peer' \in PeerType /\ ~ peer'.reset /\ ~ peer'.fin
        /\ WriteInv(conn, a, r)' /\ ReadInv(conn, c, q)' /\ NetInv(r, c)'
    BY <1>11, <2>1, <2>2, <2>3, <2>4
  <2> QED BY <2>5
<1>13. CASE seg.data # << >> /\ seg.seq = peer.rcv
  <2>1. a + k <= app.wrote /\ seg.data = <<a + k>>
    BY <1>8, <1>13
  <2>2. a + k - 1 = r
    <3>1. a + k - 1 \in 0..(M - 1)
      BY <1>1, <1>8
    <3>2. r \in 0..(M - 1)
      BY <1>1, <1>2, <1>3
    <3> QED BY <1>3, <1>8, <1>13, <3>1, <3>2, SameNumber
  <2>3. r + 1 = a + k /\ seg.data = <<r + 1>> /\ seg.data # <<Fin>>
    BY <1>2, <2>1, <2>2 DEF Fin
  <2>4. Mod(y.rcv + 1) = P(r + 1) /\ P(r + 1) \in 0..M
    <3>1. r + 1 < M /\ r + 1 \in 0..(M - 1)
      BY <1>1, <2>1, <2>3
    <3> QED BY SMTT(30), <1>1, <1>3, <1>9, <3>1, Onwards, Number
  <2>5. y.in \o <<r + 1>> = Bytes(r + 1) /\ Bytes(r + 1) \in Seq(Nat)
    <3>1. r + 1 \in Nat
      OBVIOUS
    <3>2. Bytes(r) \o <<r + 1>> = Bytes(r + 1)
      BY BytesGrow
    <3>3. Bytes(r + 1) \in Seq(Nat)
      BY <3>1, BytesType
    <3> QED BY <1>3, <1>9, <3>2, <3>3
  <2>6. peer' = [y EXCEPT !.rcv = P(r + 1), !.in = Bytes(r + 1)]
    <3>1. Receive(peer, seg) = [Acked(peer, seg.ack) EXCEPT !.rcv = Mod(@ + 1), !.in = @ \o seg.data]
      BY <1>13, <2>3, ReceiveIs
    <3>2. Receive(peer, seg) = [y EXCEPT !.rcv = Mod(@ + 1), !.in = @ \o <<r + 1>>]
      BY <1>8, <1>9, <2>3, <3>1
    <3> QED BY <1>7, <2>4, <2>5, <3>2
  <2>7. /\ peer' \in PeerType /\ peer'.rcv = P(r + 1) /\ peer'.in = Bytes(r + 1)
        /\ peer'.una = y.una /\ peer'.out = y.out /\ peer'.sent = y.sent /\ peer'.wrote = y.wrote
        /\ (peer'.closed <=> y.closed) /\ (peer'.reset <=> y.reset) /\ (peer'.fin <=> y.fin)
    BY <2>4, <2>5, <2>6 DEF PeerType
  <2>8. r + 1 \in Nat /\ r <= r + 1 /\ r + 1 <= a + conn'.sent
    BY <1>2, <1>5, <1>6, <2>1, <2>3
  <2>9. /\ peer' \in PeerType /\ ~ peer'.reset /\ ~ peer'.fin
        /\ WriteInv(conn, a, r + 1)' /\ ReadInv(conn, c, q)' /\ NetInv(r + 1, c)'
    BY <1>11, <2>7, <2>8
  <2> QED BY <2>8, <2>9
<1> QED BY <1>12, <1>13

\* The peer counts what it sends, and its segment is on its way.
LEMMA PeerSends ==
  ASSUME Carried, NEW e, NEW a \in Nat, NEW r \in Nat, NEW b \in Nat, NEW q \in Nat,
         WriteInv(e, a, r), ReadInv(e, b, q), NEW k \in {1, peer.sent + 1},
         peer' = [peer EXCEPT !.sent = Max({@, Min({k, Len(peer.out)})})],
         net' = Segment(peer, k), UNCHANGED app
  PROVE  /\ peer' \in PeerType /\ ~ peer'.reset /\ ~ peer'.fin /\ NetInv(r, b)'
         /\ peer'.sent >= peer.sent /\ b + peer'.sent <= PeerLast
         /\ peer'.una = peer.una /\ peer'.out = peer.out /\ peer'.rcv = peer.rcv /\ peer'.in = peer.in
         /\ peer'.wrote = peer.wrote /\ PeerLast' = PeerLast
<1>1. peer \in PeerType /\ peer.sent \in Nat /\ ~ peer.reset /\ ~ peer.fin
      /\ peer.wrote \in Nat /\ PeerLast \in Nat /\ PeerLast < M /\ k \in Nat /\ k >= 1
  <2>1. app \in [wrote : 0..MaxBytes, read : Seq(Nat)] /\ peer \in PeerType /\ ~ peer.reset /\ ~ peer.fin
    BY DEF Carried
  <2> QED BY <2>1, Bounds
<1>2. /\ b + peer.sent <= PeerLast /\ peer.una = P(b) /\ peer.out = Queue(peer.wrote, b, PeerLast) /\ peer.rcv = P(r)
  BY DEF ReadInv, WriteInv
<1>3. PICK w \in Nat, t \in Nat, s \in Nat, n \in Nat : w = peer.wrote /\ t = PeerLast /\ s = peer.sent /\ n = t - b
  BY <1>1, <1>2
<1>4. s <= n /\ b <= t /\ b + k - 1 <= t /\ t < M /\ b + k - 1 \in Nat
  BY SMTT(30), <1>1, <1>2, <1>3
<1>5. Len(peer.out) = n
  <2>1. Len(Queue(w, b, t)) = t - b
    BY <1>4, QueueType
  <2> QED BY <1>2, <1>3, <2>1
<1>6. PICK z : z = Max({s, Min({k, n})})
  OBVIOUS
<1>7. z \in Nat /\ s <= z /\ z <= n /\ (k <= n => k <= z)
  BY <1>1, <1>4, <1>6, SentMoves
<1>8. peer' = [peer EXCEPT !.sent = z]
  BY <1>3, <1>5, <1>6
<1>9. /\ peer' \in PeerType /\ peer'.sent = z
      /\ peer'.una = peer.una /\ peer'.out = peer.out /\ peer'.rcv = peer.rcv /\ peer'.in = peer.in
      /\ peer'.wrote = peer.wrote /\ (peer'.closed <=> peer.closed)
      /\ ~ peer'.reset /\ ~ peer'.fin
  BY <1>1, <1>7, <1>8 DEF PeerType
<1>10. PeerLast' = PeerLast
  BY <1>9 DEF PeerLast
<1>11. net' = [seq |-> P(b + k - 1), ack |-> P(r),
               data |-> IF b + k <= t THEN <<IF b + k <= w THEN b + k ELSE Fin>> ELSE << >>]
  <2>1. Segment(peer, k) = [seq |-> P(b + k - 1), ack |-> peer.rcv,
               data |-> IF b + k <= t THEN <<IF b + k <= w THEN b + k ELSE Fin>> ELSE << >>]
    <3>1. peer.una = P(b) /\ peer.out = Queue(w, b, t) /\ k \in Nat /\ k >= 1
      BY <1>1, <1>2, <1>3
    <3> QED BY SMTT(30), <1>4, <3>1, SegmentIs
  <2> QED BY <1>2, <2>1
<1>12. NetInv(r, b)'
  <2>1. PICK i \in Nat : i = b + k - 1 /\ i + 1 = b + k
    BY <1>1, <1>4
  <2>2. /\ net'.seq = P(i) /\ net'.ack = P(r)
        /\ net' = [seq |-> P(i), data |-> net'.data, ack |-> P(r)]
        /\ net'.data = IF i + 1 <= t THEN <<IF i + 1 <= w THEN i + 1 ELSE Fin>> ELSE << >>
    BY <1>11, <2>1
  <2>3. i + 1 <= t => i + 1 <= b + peer'.sent
    BY SMTT(30), <1>1, <1>3, <1>7, <1>9, <2>1
  <2>4. r \in 0..r
    OBVIOUS
  <2>5. \/ net'.data = << >>
        \/ i + 1 <= b + peer'.sent /\ net'.data = <<IF i + 1 <= peer'.wrote THEN i + 1 ELSE Fin>>
    BY <1>3, <1>9, <2>2, <2>3
  <2> QED BY <2>2, <2>4, <2>5 DEF NetInv
<1> QED BY <1>1, <1>3, <1>7, <1>9, <1>10, <1>12

-----------------------------------------------------------------------------
(* Steps that leave the local end where it is *)

LEMMA TheConnIs ==
  ASSUME table \in Tables, Conns # {}
  PROVE  TheConn \in Conns /\ TheConn \in Sockets /\ \A c \in Conns : c = TheConn
<1>1. TheConn \in Conns
  BY DEF TheConn
<1>2. \A c, d \in Conns : c = d
  BY InetAssumption DEF Conns, Sockets
<1> QED BY <1>1, <1>2 DEF Conns

LEMMA PlaceStays ==
  ASSUME Carried, UNCHANGED <<table, phase, st, image, locked>>,
         conn' = conn \/ (~ InImage /\ phase # "read" /\ (conn'.repair <=> conn.repair))
  PROVE  /\ PhaseInv' /\ InImage' = InImage /\ TheConn' = TheConn
         /\ conn' = conn => Local' = Local
         /\ ~ InImage => Local' = conn' /\ Local = conn
<1>1. TheConn' = TheConn /\ Sockets' = Sockets
  BY DEF TheConn, Conns, Sockets
<1>2. FromImage' = FromImage /\ InImage' = InImage
  BY <1>1 DEF FromImage, InImage
<1>3. PhaseInv
  BY DEF Carried
<1>4. PhaseInv'
  <2>1. CASE conn' = conn
    BY <1>1, <1>2, <1>3, <2>1 DEF PhaseInv
  <2>2. CASE ~ InImage /\ phase # "read" /\ (conn'.repair <=> conn.repair)
    BY <1>1, <1>2, <1>3, <2>2 DEF PhaseInv
  <2> QED BY <2>1, <2>2
<1> QED BY <1>1, <1>2, <1>4 DEF Local

\* A socket that can send, or has something to read, is the local end.
LEMMA SocketIsLocal ==
  ASSUME Carried, ~ locked \/ (HasConn /\ ~ conn.repair)
  PROVE  ~ InImage /\ Local = conn
<1>1. PhaseInv
  BY DEF Carried
<1>2. SUFFICES ASSUME InImage PROVE FALSE
  BY DEF Local
<1>3. phase \in {"dead", "restore", "failed"}
  BY <1>1, <1>2 DEF PhaseInv, InImage, RestorePhases
<1>4. locked
  BY <1>1, <1>3 DEF PhaseInv
<1>5. CASE conn = NoConn
  BY <1>4, <1>5 DEF HasConn
<1>6. CASE conn = [End(FromImage.una, Mod(image.inq_seq - Len(image.inq))) EXCEPT !.repair = TRUE]
  BY <1>4, <1>6 DEF End
<1>7. CASE conn = [FromImage EXCEPT !.out = SubSeq(image.outq, 1, FromImage.sent)]
  BY <1>4, <1>7 DEF FromImage
<1> QED BY <1>1, <1>2, <1>5, <1>6, <1>7 DEF PhaseInv

-----------------------------------------------------------------------------
(* The network, the tasks and the peer *)

\* Nothing but the local end and what it has sent is new to the peer.
LEMMA TransmitKeeps ==
  ASSUME Carried, NEW k, Transmit(k)
  PROVE  Carried'
<1>1. ~ InImage /\ Local = conn
  BY SocketIsLocal DEF Transmit
<1>2. PICK a, r, b, q \in Nat : WriteInv(conn, a, r) /\ ReadInv(conn, b, q) /\ NetInv(r, b)
  BY <1>1 DEF Carried
<1>3. /\ k \in {1, conn.sent + 1} /\ conn' = [conn EXCEPT !.sent = Max({@, Min({k, Len(conn.out)})})]
      /\ peer' = IF locked THEN peer ELSE Receive(peer, Segment(conn, k))
      /\ UNCHANGED <<table, phase, net, locked, app, image, st>> /\ ~ conn.repair
  BY DEF Transmit, rstVars
<1>4. /\ conn' \in EndType /\ conn'.sent >= conn.sent /\ a + conn'.sent <= app.wrote
      /\ conn'.una = conn.una /\ conn'.out = conn.out /\ conn'.rcv = conn.rcv /\ conn'.in = conn.in
      /\ (conn'.fin <=> conn.fin) /\ (conn'.repair <=> conn.repair)
  BY <1>2, <1>3, ConnSends
<1>5. phase # "read"
  BY <1>3 DEF Carried, PhaseInv
<1>6. PhaseInv' /\ Local' = conn'
  BY <1>1, <1>3, <1>4, <1>5, PlaceStays
<1>7. peer' \in PeerType /\ ~ peer'.reset /\ ~ peer'.fin
      /\ \E u, c \in Nat : WriteInv(conn, a, u)' /\ ReadInv(conn, c, q)' /\ NetInv(u, c)'
  <2>1. CASE locked
    <3>1. UNCHANGED <<app, peer, net>>
      BY <1>3, <2>1
    <3>2. WriteInv(conn, a, r)'
      <4>1. conn.sent \in Nat /\ conn'.sent \in Nat
        BY <1>4 DEF EndType, Carried
      <4> QED BY <1>2, <1>4, <3>1, <4>1 DEF WriteInv
    <3>3. ReadInv(conn, b, q)'
      BY <1>2, <1>4, <3>1 DEF ReadInv, PeerLast
    <3>4. NetInv(r, b)'
      BY <1>2, <3>1 DEF NetInv
    <3> QED BY <3>1, <3>2, <3>3, <3>4 DEF Carried
  <2>2. CASE ~ locked
    <3>1. peer' = Receive(peer, Segment(conn, k)) /\ UNCHANGED <<app, net>>
      BY <1>3, <2>2
    <3> QED BY <1>2, <1>3, <3>1, PeerReceives
  <2> QED BY <2>1, <2>2
<1>8. \E d, u, c, p \in Nat : WriteInv(Local, d, u)' /\ ReadInv(Local, c, p)' /\ NetInv(u, c)'
  <2>1. PICK u, c \in Nat : WriteInv(conn, a, u)' /\ ReadInv(conn, c, q)' /\ NetInv(u, c)'
    BY <1>7
  <2> QED BY <1>6, <2>1 DEF WriteInv, ReadInv
<1> QED BY <1>3, <1>4, <1>6, <1>7, <1>8 DEF Carried

LEMMA PeerTransmitKeeps ==
  ASSUME Carried, NEW k, PeerTransmit(k)
  PROVE  Carried'
<1>1. /\ k \in {1, peer.sent + 1} /\ peer' = [peer EXCEPT !.sent = Max({@, Min({k, Len(peer.out)})})]
      /\ net' = Segment(peer, k)
      /\ UNCHANGED <<table, phase, conn, locked, app, image, st>>
  BY DEF PeerTransmit, rstVars
<1>2. PhaseInv' /\ Local' = Local
  BY <1>1, PlaceStays
<1>3. PICK a, r, b, q \in Nat : WriteInv(Local, a, r) /\ ReadInv(Local, b, q) /\ NetInv(r, b)
  BY DEF Carried
<1>4. /\ peer' \in PeerType /\ ~ peer'.reset /\ ~ peer'.fin /\ NetInv(r, b)'
      /\ peer'.sent >= peer.sent /\ b + peer'.sent <= PeerLast
      /\ peer'.una = peer.una /\ peer'.out = peer.out /\ peer'.rcv = peer.rcv /\ peer'.in = peer.in
      /\ peer'.wrote = peer.wrote /\ PeerLast' = PeerLast
  BY <1>1, <1>3, PeerSends
<1>5. WriteInv(Local, a, r)'
  BY <1>1, <1>2, <1>3, <1>4 DEF WriteInv
<1>6. ReadInv(Local, b, q)'
  <2>1. peer.sent \in Nat /\ peer'.sent \in Nat
    BY <1>4 DEF Carried, PeerType
  <2> QED BY <1>1, <1>2, <1>3, <1>4, <2>1 DEF ReadInv
<1> QED BY <1>1, <1>2, <1>4, <1>5, <1>6 DEF Carried

LEMMA ArriveKeeps == ASSUME Carried, Arrive PROVE Carried'
<1>1. UNCHANGED <<table, phase, locked, app, image, st>> /\ net # Nothing /\ net' = Nothing
  BY DEF Arrive, rstVars
<1>2. \A r, b : NetInv(r, b)'
  BY <1>1 DEF NetInv
<1>3. CASE locked
  <2>1. UNCHANGED <<conn, peer>>
    BY <1>3 DEF Arrive
  <2>2. PhaseInv' /\ Local' = Local
    BY <1>1, <2>1, PlaceStays
  <2>3. PICK a, r, b, q \in Nat : WriteInv(Local, a, r) /\ ReadInv(Local, b, q)
    BY DEF Carried
  <2>4. WriteInv(Local, a, r)' /\ ReadInv(Local, b, q)'
    BY <1>1, <2>1, <2>2, <2>3 DEF WriteInv, ReadInv, PeerLast
  <2> QED BY <1>1, <1>2, <2>1, <2>2, <2>4 DEF Carried
<1>4. CASE ~ locked
  <2>1. ~ InImage /\ Local = conn
    BY <1>4, SocketIsLocal
  <2>2. PICK a, r, b, q \in Nat : WriteInv(conn, a, r) /\ ReadInv(conn, b, q) /\ NetInv(r, b)
    BY <2>1 DEF Carried
  <2>3. HasConn
    <3>1. /\ a <= r /\ r <= a + conn.sent /\ a + conn.sent <= app.wrote /\ conn.una = P(a) /\ conn.sent \in Nat
      BY <2>2 DEF WriteInv, Carried, EndType
    <3>2. app.wrote \in Nat /\ app.wrote < M - 1 /\ M \in Nat
      BY Bounds DEF Carried
    <3>3. a \in 0..(M - 1)
      BY <3>1, <3>2
    <3>4. conn.una # M
      BY <3>1, <3>2, <3>3, Number
    <3> QED BY <3>4 DEF HasConn, NoConn, End, M
  <2>4. conn' = Receive(conn, net) /\ peer' = peer
    BY <1>4, <2>3 DEF Arrive
  <2>5. PICK e \in EndType, c, p \in Nat :
           /\ e = Receive(conn, net) /\ (e.repair <=> conn.repair)
           /\ WriteInv(e, c, r) /\ ReadInv(e, b, p)
    BY <1>1, <2>2, ConnReceives
  <2>6. phase # "read"
    BY <1>4 DEF Carried, PhaseInv
  <2>7. PhaseInv' /\ Local' = e
    BY <1>1, <2>1, <2>4, <2>5, <2>6, PlaceStays
  <2>8. WriteInv(Local, c, r)' /\ ReadInv(Local, b, p)'
    BY <1>1, <2>4, <2>5, <2>7 DEF WriteInv, ReadInv, PeerLast
  <2> QED BY <1>1, <1>2, <2>4, <2>5, <2>7, <2>8 DEF Carried
<1> QED BY <1>3, <1>4

LEMMA WriteKeeps == ASSUME Carried, Write PROVE Carried'
<1>1. ~ InImage /\ phase # "read"
  BY DEF Write, InImage, RestorePhases
<1>2. /\ app' = [app EXCEPT !.wrote = @ + 1] /\ conn' = [conn EXCEPT !.out = Append(@, app.wrote + 1)]
      /\ app.wrote < MaxBytes
      /\ UNCHANGED <<table, phase, peer, net, locked, image, st>>
  BY DEF Write, rstVars
<1>3. PICK a, r, b, q \in Nat : WriteInv(conn, a, r) /\ ReadInv(conn, b, q) /\ NetInv(r, b)
  BY <1>1 DEF Carried, Local
<1>4. /\ app \in [wrote : 0..MaxBytes, read : Seq(Nat)] /\ conn \in EndType /\ peer \in PeerType
      /\ app.wrote \in Nat /\ conn.sent \in Nat /\ MaxBytes \in Nat
  BY InetAssumption DEF Carried, EndType
<1>5. PICK w \in Nat : w = app.wrote
  BY <1>4
<1>6. /\ app' \in [wrote : 0..MaxBytes, read : Seq(Nat)] /\ app'.wrote = w + 1 /\ app'.read = app.read
  BY <1>2, <1>4, <1>5
<1>7. /\ a <= r /\ r <= a + conn.sent /\ a + conn.sent <= w
      /\ conn.una = P(a) /\ conn.out = Queue(w, a, w)
      /\ peer.rcv = P(r) /\ peer.in = Bytes(r)
  BY <1>3, <1>5 DEF WriteInv
<1>8. Append(conn.out, w + 1) = Queue(w + 1, a, w + 1) /\ Queue(w + 1, a, w + 1) \in Seq(Nat)
  <2>1. PICK x \in Nat : x = w + 1
    OBVIOUS
  <2>2. a <= w /\ w <= x /\ x = (IF w + 1 <= x THEN w + 1 ELSE Fin) /\ a <= x
    BY <1>4, <1>7, <2>1
  <2>3. Append(Queue(w, a, w), x) = Queue(x, a, w + 1)
    BY <2>2, QueueGrows
  <2>4. Queue(x, a, x) \in Seq(Nat)
    BY <2>2, QueueType
  <2> QED BY <1>7, <2>1, <2>3, <2>4
<1>9. /\ conn' \in EndType /\ conn'.out = Queue(w + 1, a, w + 1)
      /\ conn'.una = conn.una /\ conn'.sent = conn.sent /\ conn'.rcv = conn.rcv /\ conn'.in = conn.in
      /\ (conn'.fin <=> conn.fin) /\ (conn'.repair <=> conn.repair)
  <2>1. conn' = [conn EXCEPT !.out = Queue(w + 1, a, w + 1)]
    BY <1>2, <1>5, <1>8
  <2> QED BY <1>4, <1>8, <2>1 DEF EndType
<1>10. PhaseInv' /\ Local' = conn'
  BY <1>1, <1>2, <1>9, PlaceStays
<1>11. WriteInv(Local, a, r)'
  <2>1. a + conn'.sent <= app'.wrote
    BY <1>4, <1>6, <1>7, <1>9
  <2> QED BY <1>2, <1>6, <1>7, <1>9, <1>10, <2>1 DEF WriteInv
<1>12. ReadInv(Local, b, q)'
  BY <1>2, <1>3, <1>6, <1>9, <1>10 DEF ReadInv, PeerLast
<1>13. NetInv(r, b)'
  BY <1>2, <1>3 DEF NetInv
<1> QED BY <1>2, <1>6, <1>9, <1>10, <1>11, <1>12, <1>13 DEF Carried

LEMMA ReadKeeps == ASSUME Carried, Read PROVE Carried'
<1>1. ~ InImage /\ phase # "read"
  BY DEF Read, Running, InImage, RestorePhases, Carried, PhaseInv
<1>2. /\ app' = [app EXCEPT !.read = Append(@, Head(conn.in))] /\ conn' = [conn EXCEPT !.in = Tail(@)]
      /\ conn.in # << >>
      /\ UNCHANGED <<table, phase, peer, net, locked, image, st>>
  BY DEF Read, rstVars
<1>3. PICK a, r, b, q \in Nat : WriteInv(conn, a, r) /\ ReadInv(conn, b, q) /\ NetInv(r, b)
  BY <1>1 DEF Carried, Local
<1>4. /\ app \in [wrote : 0..MaxBytes, read : Seq(Nat)] /\ conn \in EndType
  BY DEF Carried
<1>5. PICK s \in Seq(Nat), t \in Seq(Nat) : s = app.read /\ t = conn.in
  BY <1>4 DEF EndType
<1>6. PICK h \in Nat, l \in Seq(Nat) : h = Head(t) /\ l = Tail(t)
  BY <1>2, <1>5, HeadTailProperties
<1>7. Append(s, h) \in Seq(Nat) /\ Append(s, h) \o l = s \o t
  <2>1. <<h>> \in Seq(Nat) /\ t # << >>
    BY <1>2, <1>5
  <2>2. Append(s, h) = s \o <<h>> /\ Append(s, h) \in Seq(Nat)
    BY AppendIsConcat, AppendProperties
  <2>3. t = <<h>> \o l
    BY <1>6, <2>1
  <2>4. (s \o <<h>>) \o l = s \o (<<h>> \o l)
    BY <2>1, Associative
  <2> QED BY <2>2, <2>3, <2>4
<1>8. /\ app' \in [wrote : 0..MaxBytes, read : Seq(Nat)] /\ app'.wrote = app.wrote /\ app'.read = Append(s, h)
  <2>1. app' = [app EXCEPT !.read = Append(s, h)]
    BY <1>2, <1>5, <1>6
  <2> QED BY <1>4, <1>7, <2>1
<1>9. /\ conn' \in EndType /\ conn'.in = l
      /\ conn'.una = conn.una /\ conn'.out = conn.out /\ conn'.sent = conn.sent /\ conn'.rcv = conn.rcv
      /\ (conn'.fin <=> conn.fin) /\ (conn'.repair <=> conn.repair)
  <2>1. conn' = [conn EXCEPT !.in = l]
    BY <1>2, <1>5, <1>6
  <2> QED BY <1>4, <2>1 DEF EndType
<1>10. PhaseInv' /\ Local' = conn'
  BY <1>1, <1>2, <1>9, PlaceStays
<1>11. WriteInv(Local, a, r)'
  BY <1>2, <1>3, <1>8, <1>9, <1>10 DEF WriteInv
<1>12. ReadInv(Local, b, q)'
  <2>1. app'.read \o conn'.in = app.read \o conn.in
    BY <1>5, <1>7, <1>8, <1>9
  <2> QED BY <1>2, <1>3, <1>9, <1>10, <2>1 DEF ReadInv, PeerLast
<1>13. NetInv(r, b)'
  BY <1>2, <1>3 DEF NetInv
<1> QED BY <1>2, <1>8, <1>9, <1>10, <1>11, <1>12, <1>13 DEF Carried

\* What the peer adds to its queue: x bytes in all, the last one is v.
LEMMA PeerAdds ==
  ASSUME Carried, NEW x \in Nat, NEW v \in Nat, peer.wrote <= x, ~ peer.closed,
         v = IF peer.wrote + 1 <= x THEN peer.wrote + 1 ELSE Fin,
         peer' \in PeerType, peer'.wrote = x, PeerLast' = peer.wrote + 1,
         peer'.out = Append(peer.out, v), peer'.una = peer.una, peer'.sent = peer.sent,
         peer'.rcv = peer.rcv, peer'.in = peer.in, ~ peer'.reset, ~ peer'.fin,
         UNCHANGED <<table, phase, conn, net, locked, app, image, st>>
  PROVE  Carried'
<1>1. PhaseInv' /\ Local' = Local
  BY PlaceStays
<1>2. PICK a, r, b, q \in Nat : WriteInv(Local, a, r) /\ ReadInv(Local, b, q) /\ NetInv(r, b)
  BY DEF Carried
<1>3. peer.wrote \in Nat /\ PeerLast = peer.wrote /\ peer.sent \in Nat
  <2>1. peer.wrote \in 0..PeerBytes /\ PeerBytes \in Nat /\ peer.sent \in Nat
    BY InetAssumption DEF Carried, PeerType
  <2> QED BY <2>1 DEF PeerLast
<1>4. PICK w \in Nat : w = peer.wrote
  BY <1>3
<1>5. /\ b <= q /\ q <= b + peer.sent /\ b + peer.sent <= w
      /\ peer.una = P(b) /\ peer.out = Queue(w, b, w)
      /\ Local.rcv = P(q) /\ (Local.fin <=> q > w)
      /\ app.read \o Local.in = Bytes(IF q > w THEN w ELSE q)
  BY <1>2, <1>3, <1>4 DEF ReadInv
<1>6. WriteInv(Local, a, r)'
  BY <1>1, <1>2 DEF WriteInv
<1>7. ReadInv(Local, b, q)'
  <2>1. b <= w /\ ~ (q > w) /\ ~ (q > x) /\ b + peer.sent <= w + 1
    BY <1>3, <1>4, <1>5
  <2>2. Append(Queue(w, b, w), v) = Queue(x, b, w + 1)
    <3>1. w <= x /\ b <= w /\ v = IF w + 1 <= x THEN w + 1 ELSE Fin
      BY <1>4, <2>1
    <3> QED BY ZenonT(60), <3>1, QueueGrows
  <2> QED BY <1>1, <1>4, <1>5, <2>1, <2>2 DEF ReadInv
<1>8. NetInv(r, b)'
  <2>1. \A i \in Nat : i + 1 <= b + peer.sent => i + 1 <= peer.wrote /\ i + 1 <= peer'.wrote
    BY SMTT(30), <1>3, <1>4, <1>5
  <2> QED BY <1>2, <2>1 DEF NetInv
<1> QED BY <1>1, <1>6, <1>7, <1>8 DEF Carried

LEMMA PeerWriteKeeps == ASSUME Carried, PeerWrite PROVE Carried'
<1>1. /\ ~ peer.closed /\ peer.wrote < PeerBytes
      /\ peer' = [peer EXCEPT !.wrote = @ + 1, !.out = Append(@, peer.wrote + 1)]
      /\ UNCHANGED <<table, phase, conn, net, locked, app, image, st>>
  BY DEF PeerWrite, rstVars
<1>2. peer \in PeerType /\ peer.wrote \in Nat /\ ~ peer.reset /\ ~ peer.fin /\ peer.out \in Seq(Nat) /\ PeerBytes \in Nat
  BY InetAssumption DEF Carried, PeerType
<1>3. PICK x \in Nat : x = peer.wrote + 1
  BY <1>2
<1>4. Append(peer.out, x) \in Seq(Nat) /\ x \in 0..PeerBytes
  BY <1>1, <1>2, <1>3, AppendProperties
<1>5. peer' = [peer EXCEPT !.wrote = x, !.out = Append(peer.out, x)]
  BY <1>1, <1>3
<1>6. /\ peer' \in PeerType /\ peer'.wrote = x /\ peer'.out = Append(peer.out, x) /\ (peer'.closed <=> peer.closed)
      /\ peer'.una = peer.una /\ peer'.sent = peer.sent /\ peer'.rcv = peer.rcv /\ peer'.in = peer.in
      /\ ~ peer'.reset /\ ~ peer'.fin
  BY <1>2, <1>4, <1>5 DEF PeerType
<1>7. PeerLast' = peer.wrote + 1 /\ peer.wrote <= x /\ x = IF peer.wrote + 1 <= x THEN peer.wrote + 1 ELSE Fin
  BY <1>1, <1>2, <1>3, <1>6 DEF PeerLast
<1> QED BY <1>1, <1>6, <1>7, PeerAdds

LEMMA PeerCloseKeeps == ASSUME Carried, PeerClose PROVE Carried'
<1>1. /\ ~ peer.closed /\ peer' = [peer EXCEPT !.closed = TRUE, !.out = Append(@, Fin)]
      /\ UNCHANGED <<table, phase, conn, net, locked, app, image, st>>
  BY DEF PeerClose, rstVars
<1>2. peer \in PeerType /\ peer.wrote \in Nat /\ ~ peer.reset /\ ~ peer.fin /\ peer.out \in Seq(Nat)
  BY InetAssumption DEF Carried, PeerType
<1>3. Append(peer.out, Fin) \in Seq(Nat) /\ Fin \in Nat
  BY <1>2, AppendProperties DEF Fin
<1>4. /\ peer' \in PeerType /\ peer'.wrote = peer.wrote /\ peer'.out = Append(peer.out, Fin) /\ peer'.closed = TRUE
      /\ peer'.una = peer.una /\ peer'.sent = peer.sent /\ peer'.rcv = peer.rcv /\ peer'.in = peer.in
      /\ ~ peer'.reset /\ ~ peer'.fin
  BY <1>1, <1>2, <1>3 DEF PeerType
<1>5. PICK x \in Nat : x = peer.wrote
  BY <1>2
<1>6. PeerLast' = peer.wrote + 1 /\ peer.wrote <= x /\ Fin = IF peer.wrote + 1 <= x THEN peer.wrote + 1 ELSE Fin
  BY <1>2, <1>4, <1>5 DEF PeerLast
<1> QED BY <1>1, <1>3, <1>4, <1>5, <1>6, PeerAdds

-----------------------------------------------------------------------------
(* The dump and the restore: the local end is read into the image and built *)
(* from it again, and is the same at every step.                            *)

LEMMA EndKeeps ==
  ASSUME Carried, UNCHANGED <<net, app>>, peer' = peer, conn' \in EndType, image' \in ImageType, PhaseInv',
         Local'.una = Local.una, Local'.out = Local.out, Local'.sent = Local.sent,
         Local'.rcv = Local.rcv, Local'.in = Local.in, Local'.fin <=> Local.fin
  PROVE  Carried'
<1>1. PICK a, r, b, q \in Nat : WriteInv(Local, a, r) /\ ReadInv(Local, b, q) /\ NetInv(r, b)
  BY DEF Carried
<1>2. WriteInv(Local, a, r)'
  BY <1>1 DEF WriteInv
<1>3. ReadInv(Local, b, q)'
  BY <1>1 DEF ReadInv, PeerLast
<1>4. NetInv(r, b)'
  BY <1>1 DEF NetInv
<1> QED BY <1>2, <1>3, <1>4 DEF Carried

LEMMA EndPlaces ==
  ASSUME Carried, UNCHANGED <<net, app, peer>>, UNCHANGED <<table, image>>, conn' \in EndType, PhaseInv',
         ~ InImage, ~ InImage',
         conn'.una = conn.una, conn'.out = conn.out, conn'.sent = conn.sent,
         conn'.rcv = conn.rcv, conn'.in = conn.in, conn'.fin <=> conn.fin
  PROVE  Carried'
<1>1. Local = conn /\ Local' = conn'
  BY DEF Local
<1>2. image' \in ImageType
  BY DEF Carried
<1> QED BY <1>1, <1>2, EndKeeps

LEMMA RepairChanges ==
  ASSUME NEW e \in EndType, NEW v \in BOOLEAN
  PROVE  /\ [e EXCEPT !.repair = v] \in EndType /\ [e EXCEPT !.repair = v].repair = v
         /\ [e EXCEPT !.repair = v].una = e.una /\ [e EXCEPT !.repair = v].out = e.out
         /\ [e EXCEPT !.repair = v].sent = e.sent /\ [e EXCEPT !.repair = v].rcv = e.rcv
         /\ [e EXCEPT !.repair = v].in = e.in /\ ([e EXCEPT !.repair = v].fin <=> e.fin)
BY DEF EndType

\* Locking, and every way to resume: the socket stays, and so do its numbers.
LEMMA LockKeeps ==
  ASSUME Carried,
         inet_collect_one \/ nf_lock_connection \/ tcp_repair_establised_failed \/ cpt_unlock_tcp_connections
  PROVE  Carried'
<1>1. UNCHANGED <<table, peer, net, app, st, conn, image>>
  BY DEF inet_collect_one, nf_lock_connection, tcp_repair_establised_failed, cpt_unlock_tcp_connections, DumpKeeps, rstVars
<1>2. /\ phase \in DumpPhases /\ phase' \in DumpPhases
      /\ phase' \in {"collected", "resumed", "rollback"} \/ (phase' = "locked" /\ locked')
  BY DEF inet_collect_one, nf_lock_connection, tcp_repair_establised_failed, cpt_unlock_tcp_connections, DumpPhases
<1>3. ~ InImage /\ ~ InImage'
  BY <1>2 DEF InImage, DumpPhases, RestorePhases
<1>4. PhaseInv'
  BY <1>2, <1>3 DEF PhaseInv, DumpPhases, RestorePhases
<1>5. conn' \in EndType
  BY <1>1 DEF Carried
<1> QED BY <1>1, <1>3, <1>4, <1>5, EndPlaces

LEMMA RepairKeeps ==
  ASSUME Carried, tcp_repair_on \/ tcp_unlock_one
  PROVE  Carried'
<1>1. UNCHANGED <<table, peer, net, app, st, locked, image>>
  BY DEF tcp_repair_on, tcp_unlock_one, DumpKeeps, rstVars
<1>2. PICK v \in BOOLEAN :
        /\ conn' = [conn EXCEPT !.repair = v]
        /\ phase \in DumpPhases
        /\ (phase = "locked" /\ phase' = "repair" /\ v) \/ phase' = "resumed"
  BY DEF tcp_repair_on, tcp_unlock_one, DumpPhases
<1>3. ~ InImage /\ ~ InImage'
  BY <1>2 DEF InImage, DumpPhases, RestorePhases
<1>4. /\ conn' \in EndType /\ (conn'.repair <=> v)
      /\ conn'.una = conn.una /\ conn'.out = conn.out /\ conn'.sent = conn.sent
      /\ conn'.rcv = conn.rcv /\ conn'.in = conn.in /\ (conn'.fin <=> conn.fin)
  BY <1>2, RepairChanges DEF Carried
<1>5. PhaseInv'
  <2>1. phase = "locked" => locked
    BY DEF Carried, PhaseInv
  <2> QED BY <1>1, <1>2, <1>3, <1>4, <2>1 DEF PhaseInv, DumpPhases, RestorePhases
<1> QED BY <1>1, <1>3, <1>4, <1>5, EndPlaces

\* What is read is what the socket has: the first number of the queue comes
\* back from its end.
LEMMA DumpReads == ASSUME Carried, dump_tcp_conn_state PROVE Carried'
<1>1. /\ phase = "repair" /\ phase' = "read" /\ ~ conn.fin
      /\ image' = [inq_seq |-> conn.rcv, inq |-> conn.in,
                   outq_seq |-> Mod(conn.una + Len(conn.out)), outq |-> conn.out,
                   unsq_len |-> Len(conn.out) - conn.sent]
      /\ UNCHANGED <<table, peer, net, app, st, conn, locked>>
  BY DEF dump_tcp_conn_state, refresh_inet_sk, tcp_stream_get_queue, DumpKeeps, rstVars
<1>2. ~ InImage /\ ~ InImage'
  BY <1>1 DEF InImage, RestorePhases
<1>3. PICK a, r \in Nat : WriteInv(conn, a, r)
  BY <1>2 DEF Carried, Local
<1>4. /\ conn \in EndType /\ conn.sent \in Nat /\ conn.repair /\ locked
      /\ app.wrote \in Nat /\ app.wrote < M - 1 /\ M \in Nat
  <2>1. /\ conn \in EndType /\ conn.repair /\ locked
        /\ app \in [wrote : 0..MaxBytes, read : Seq(Nat)] /\ peer \in PeerType
    BY <1>1 DEF Carried, PhaseInv
  <2>2. conn.sent \in Nat
    BY <2>1 DEF EndType
  <2> QED BY <2>1, <2>2, Bounds
<1>5. a + conn.sent <= app.wrote /\ conn.una = P(a) /\ conn.out = Queue(app.wrote, a, app.wrote)
  BY <1>3 DEF WriteInv
<1>6. PICK n \in Nat : n = Len(conn.out) /\ a + n = app.wrote /\ conn.sent <= n
  <2>1. PICK w \in Nat : w = app.wrote
    BY <1>4
  <2>2. a <= w
    BY <1>4, <1>5, <2>1
  <2>3. Len(Queue(w, a, w)) = w - a
    BY <2>2, QueueType
  <2> QED BY <1>4, <1>5, <2>1, <2>2, <2>3
<1>7. Mod(P(a) + n) = P(a + n) /\ Mod(P(a + n) - n) = P(a) /\ P(a + n) \in 0..M
  <2>1. a + n < M /\ a + n \in 0..(M - 1)
    BY <1>4, <1>6
  <2>2. P(a + n) \in 0..(M - 1)
    BY <2>1, Number
  <2> QED BY <1>4, <2>1, <2>2, Onwards
<1>8. image' = [inq_seq |-> conn.rcv, inq |-> conn.in,
                outq_seq |-> P(a + n), outq |-> conn.out, unsq_len |-> n - conn.sent]
  BY <1>1, <1>5, <1>6, <1>7
<1>9. image' \in ImageType
  <2>1. n - conn.sent \in Nat
    BY <1>4, <1>6
  <2>2. conn.rcv \in 0..M /\ conn.in \in Seq(Nat) /\ conn.out \in Seq(Nat)
    BY <1>4 DEF EndType
  <2> QED BY <1>7, <1>8, <2>1, <2>2 DEF ImageType
<1>10. FromImage' = conn'
  <2>1. FromImage' = [una |-> P(a), out |-> conn.out, sent |-> conn.sent,
                      rcv |-> conn.rcv, in |-> conn.in, fin |-> FALSE, repair |-> TRUE]
    <3>1. n - (n - conn.sent) = conn.sent
      BY <1>4
    <3> QED BY <1>6, <1>7, <1>8, <3>1 DEF FromImage
  <2> QED BY <1>1, <1>4, <1>5, <2>1 DEF EndType
<1>11. PhaseInv'
  BY <1>1, <1>2, <1>4, <1>10 DEF PhaseInv, DumpPhases, RestorePhases
<1>12. Local = conn /\ Local' = conn'
  BY <1>2 DEF Local
<1>13. conn' \in EndType
  BY <1>1, <1>4
<1> QED BY <1>1, <1>9, <1>11, <1>12, <1>13, EndKeeps

LEMMA KillKeeps == ASSUME Carried, Conns # {}, Kill PROVE Carried'
<1>1. /\ phase = "read" /\ phase' = "dead" /\ conn' = NoConn
      /\ peer' = [peer EXCEPT !.fin = HasConn /\ ~ conn.repair]
      /\ UNCHANGED <<table, net, app, image, locked>>
  BY DEF Kill
<1>2. /\ locked /\ conn.repair /\ conn = FromImage /\ peer \in PeerType /\ ~ peer.fin
  BY <1>1 DEF Carried, PhaseInv
<1>3. peer' = peer
  BY <1>1, <1>2 DEF PeerType
<1>4. ~ InImage /\ InImage' /\ FromImage' = FromImage
  BY <1>1 DEF InImage, FromImage, RestorePhases
<1>5. Local' = Local
  BY <1>2, <1>4 DEF Local
<1>6. PhaseInv'
  BY <1>1, <1>2, <1>4 DEF PhaseInv, DumpPhases, RestorePhases
<1>7. conn' \in EndType
  <2>1. M \in Nat /\ << >> \in Seq(Nat)
    BY ModCases
  <2> QED BY <1>1, <2>1 DEF NoConn, End, EndType, M
<1>8. image' \in ImageType
  BY <1>1 DEF Carried
<1> QED BY <1>1, <1>3, <1>5, <1>6, <1>7, <1>8, EndKeeps

\* What criu does beside the socket of the connection.
LEMMA BesideKeeps ==
  ASSUME Carried, phase \in {"dead", "restore"}, phase' \in {"restore", "failed"},
         UNCHANGED <<peer, net, app>>, UNCHANGED <<table, conn, image, locked>>,
         st' \in [Sockets -> AnySteps], \A s \in Sockets : st'[s] \in TcpSteps => s = TheConn,
         \/ phase = "dead" /\ st'[TheConn] = "none"
         \/ phase = "restore" /\ st'[TheConn] = st[TheConn]
         \/ phase = "restore" /\ st[TheConn] = "open" /\ st'[TheConn] = "ready"
  PROVE  Carried'
<1>1. TheConn' = TheConn /\ Sockets' = Sockets /\ FromImage' = FromImage
  BY DEF TheConn, Conns, Sockets, FromImage
<1>2. locked /\ (phase = "restore" => st[TheConn] \in ConnSteps)
  BY DEF Carried, PhaseInv, RestorePhases
<1>3. InImage' = InImage
  BY <1>1 DEF InImage, RestorePhases
<1>4. Local' = Local
  BY <1>1, <1>3 DEF Local
<1>5. PhaseInv'
  <2>1. InImage' =>
          IF st'[TheConn] = "none" THEN conn = NoConn
          ELSE IF st'[TheConn] = "connected"
            THEN conn = [End(FromImage.una, Mod(image.inq_seq - Len(image.inq))) EXCEPT !.repair = TRUE]
          ELSE conn = [FromImage EXCEPT !.out = SubSeq(image.outq, 1, FromImage.sent)]
    BY <1>3 DEF Carried, PhaseInv, InImage, RestorePhases
  <2>2. st'[TheConn] \in ConnSteps
    BY <1>2 DEF ConnSteps
  <2> QED BY <1>1, <1>2, <2>1, <2>2 DEF PhaseInv, DumpPhases, RestorePhases
<1>6. conn' \in EndType /\ image' \in ImageType
  BY DEF Carried
<1> QED BY <1>4, <1>5, <1>6, EndKeeps

LEMMA CollectCarries == ASSUME Carried, table \in Tables, Conns # {}, Collect PROVE Carried'
<1>1. /\ phase = "dead" /\ phase' = "restore" /\ st' = [s \in Sockets |-> "none"]
      /\ UNCHANGED <<peer, net, app>> /\ UNCHANGED <<table, conn, image, locked>>
  BY DEF Collect, tcpVars
<1>2. /\ st' \in [Sockets -> AnySteps] /\ st'[TheConn] = "none"
      /\ \A s \in Sockets : st'[s] \in TcpSteps => s = TheConn
  BY <1>1, TheConnIs DEF AnySteps, ConnSteps, TcpSteps
<1> QED BY <1>1, <1>2, BesideKeeps

LEMMA OthersKeep ==
  ASSUME Carried, table \in Tables, Conns # {}, NEW s \in Sockets,
         inet_bind(s) \/ listen(s) \/ post_open_inet_sk(s)
  PROVE  Carried'
<1>1. /\ phase = "restore" /\ phase' \in {"restore", "failed"}
      /\ UNCHANGED <<peer, net, app>> /\ UNCHANGED <<table, conn, image, locked>>
  BY DEF inet_bind, listen, post_open_inet_sk, Turn, Fail, RstKeeps, tcpVars, rstVars
<1>2. /\ st \in [Sockets -> AnySteps] /\ st[TheConn] \in ConnSteps /\ TheConn \in Sockets /\ table[TheConn].kind = "conn"
      /\ \A o \in Sockets : st[o] \in TcpSteps => o = TheConn
  BY <1>1, TheConnIs DEF Carried, PhaseInv, RestorePhases, Conns
<1>3. CASE st' = st
  BY <1>1, <1>2, <1>3, BesideKeeps
<1>4. CASE \E x \in {"bound", "open", "ready"} : Steps(s, x) /\ (s # TheConn \/ (st[s] = "open" /\ x = "ready"))
  <2>1. PICK x \in {"bound", "open", "ready"} : st' = [st EXCEPT ![s] = x] /\ (s # TheConn \/ (st[s] = "open" /\ x = "ready"))
    BY <1>4 DEF Steps
  <2>2. /\ st' \in [Sockets -> AnySteps]
        /\ st'[TheConn] = st[TheConn] \/ (st[TheConn] = "open" /\ st'[TheConn] = "ready")
        /\ \A o \in Sockets : st'[o] \in TcpSteps => o = TheConn
    BY <1>2, <2>1 DEF AnySteps, ConnSteps, TcpSteps
  <2> QED BY <1>1, <2>2, BesideKeeps
<1>5. CASE inet_bind(s)
  <2>1. s # TheConn
    BY <1>2, <1>5 DEF inet_bind
  <2>2. st' = st \/ Steps(s, "bound") \/ Steps(s, "open")
    BY <1>5 DEF inet_bind, Fail, rstVars
  <2> QED BY <1>3, <1>4, <2>1, <2>2
<1>6. CASE listen(s)
  <2>1. s # TheConn
    BY <1>2, <1>6 DEF listen, Turn, ConnSteps
  <2>2. st' = st \/ Steps(s, "open")
    BY <1>6 DEF listen
  <2> QED BY <1>3, <1>4, <2>1, <2>2
<1>7. CASE post_open_inet_sk(s)
  <2>1. st[s] = "open" /\ Steps(s, "ready")
    BY <1>7 DEF post_open_inet_sk, Turn
  <2> QED BY <1>4, <2>1
<1> QED BY <1>5, <1>6, <1>7

\* The numbers that are in the image.
LEMMA ImageNumbers ==
  ASSUME Carried, InImage
  PROVE  /\ image.inq_seq \in 0..M /\ FromImage.una \in 0..M /\ FromImage.sent \in Nat
         /\ Mod(image.inq_seq - Len(image.inq)) \in 0..M
         /\ Mod(Mod(image.inq_seq - Len(image.inq)) + Len(image.inq)) = image.inq_seq
         /\ image.outq \in Seq(Nat) /\ image.inq \in Seq(Nat)
         /\ FromImage.sent <= Len(image.outq)
<1>1. PICK a, r, b, q \in Nat : WriteInv(FromImage, a, r) /\ ReadInv(FromImage, b, q)
  BY DEF Carried, Local
<1>2. /\ app.wrote \in Nat /\ app.wrote < M - 1 /\ M \in Nat
      /\ peer.wrote \in Nat /\ PeerLast \in Nat /\ PeerLast < M
      /\ peer.sent \in Nat /\ app.read \in Seq(Nat)
  BY Bounds DEF Carried
<1>3. image.inq \in Seq(Nat) /\ image.outq \in Seq(Nat) /\ image.unsq_len \in Nat
  BY DEF Carried, ImageType
<1>4. /\ FromImage.una = P(a) /\ FromImage.sent = Len(image.outq) - image.unsq_len
      /\ a <= r /\ r <= a + FromImage.sent /\ a + FromImage.sent <= app.wrote
  BY <1>1 DEF WriteInv, FromImage
<1>5. FromImage.sent \in Nat /\ FromImage.sent <= Len(image.outq)
  <2>1. Len(image.outq) \in Nat
    BY <1>3, LenProperties
  <2>2. FromImage.sent \in Int
    BY <1>3, <1>4, <2>1
  <2> QED BY <1>3, <1>4, <2>1, <2>2
<1>6. FromImage.una \in 0..M
  <2>1. a \in 0..(M - 1)
    BY <1>2, <1>4, <1>5
  <2> QED BY <1>2, <1>4, <2>1, Number
<1>7. /\ b <= q /\ q <= b + peer.sent /\ b + peer.sent <= PeerLast
      /\ image.inq_seq = P(q) /\ ~ (q > peer.wrote) /\ app.read \o image.inq = Bytes(q)
  BY <1>1 DEF ReadInv, FromImage
<1>8. PICK n \in Nat : n = Len(image.inq) /\ n <= q
  <2>1. Len(app.read \o image.inq) = Len(app.read) + Len(image.inq)
    BY <1>2, <1>3
  <2>2. Len(Bytes(q)) = q
    BY BytesType
  <2>3. Len(app.read) \in Nat /\ Len(image.inq) \in Nat
    BY <1>2, <1>3, LenProperties
  <2>4. Len(image.inq) <= q
    <3>1. Len(app.read \o image.inq) = q
      BY <1>7, <2>2
    <3>2. q = Len(app.read) + Len(image.inq)
      BY ONLY <2>1, <3>1
    <3>3. PICK m \in Nat, n \in Nat : m = Len(app.read) /\ n = Len(image.inq)
      BY <2>3
    <3>4. q = m + n
      BY <3>2, <3>3
    <3>5. n <= q
      BY ONLY <3>4, m \in Nat, n \in Nat
    <3> QED BY <3>3, <3>5
  <2> QED BY <2>3, <2>4
<1>9. PICK i \in Nat : i + n = q /\ i + n < M /\ i \in 0..(M - 1) /\ q \in 0..(M - 1)
  <2>1. q - n \in Nat /\ (q - n) + n = q /\ q < M
    BY <1>2, <1>7, <1>8
  <2> QED BY <1>2, <2>1
<1>10. Mod(P(q) - n) = P(i) /\ Mod(P(i) + n) = P(q) /\ P(i) \in 0..(M - 1) /\ P(q) \in 0..(M - 1)
  BY <1>9, Onwards, Number
<1>11. /\ image.inq_seq \in 0..M
       /\ Mod(image.inq_seq - Len(image.inq)) \in 0..M
       /\ Mod(Mod(image.inq_seq - Len(image.inq)) + Len(image.inq)) = image.inq_seq
  <2>1. Mod(image.inq_seq - Len(image.inq)) = P(i)
    BY <1>7, <1>8, <1>10
  <2>2. Mod(P(i) + Len(image.inq)) = image.inq_seq
    BY <1>7, <1>8, <1>10
  <2>3. P(i) \in 0..M /\ P(q) \in 0..M
    BY <1>2, <1>10
  <2> QED BY <1>7, <2>1, <2>2, <2>3
<1> QED BY <1>3, <1>5, <1>6, <1>11

\* The socket is built from the image step by step.
LEMMA BuildKeeps ==
  ASSUME Carried, table \in Tables, Conns # {}, phase = "restore", phase' = "restore",
         UNCHANGED <<peer, net, app>>, UNCHANGED <<table, image, locked>>,
         NEW x \in ConnSteps, st' = [st EXCEPT ![TheConn] = x], conn' \in EndType,
         \/ /\ InImage /\ x = "connected"
            /\ conn' = [End(FromImage.una, Mod(image.inq_seq - Len(image.inq))) EXCEPT !.repair = TRUE]
         \/ /\ InImage /\ x = "queues"
            /\ conn' = [FromImage EXCEPT !.out = SubSeq(image.outq, 1, FromImage.sent)]
         \/ /\ x \in {"sending", "open"}
            /\ conn'.una = Local.una /\ conn'.out = Local.out /\ conn'.sent = Local.sent
            /\ conn'.rcv = Local.rcv /\ conn'.in = Local.in /\ (conn'.fin <=> Local.fin)
  PROVE  Carried'
<1>1. TheConn' = TheConn /\ Sockets' = Sockets /\ FromImage' = FromImage /\ TheConn \in Sockets
  BY TheConnIs DEF TheConn, Conns, Sockets, FromImage
<1>2. locked /\ st \in [Sockets -> AnySteps] /\ \A s \in Sockets : st[s] \in TcpSteps => s = TheConn
  BY DEF Carried, PhaseInv, RestorePhases
<1>3. /\ st' \in [Sockets -> AnySteps] /\ st'[TheConn] = x /\ x \in AnySteps
      /\ \A s \in Sockets : st'[s] \in TcpSteps => s = TheConn
  BY <1>1, <1>2 DEF AnySteps
<1>4. InImage' = (x \in {"none", "connected", "queues"})
  BY <1>1, <1>3 DEF InImage, RestorePhases
<1>5. PhaseInv'
  BY <1>1, <1>2, <1>3, <1>4 DEF PhaseInv, DumpPhases, RestorePhases
<1>6. /\ Local'.una = Local.una /\ Local'.out = Local.out /\ Local'.sent = Local.sent
      /\ Local'.rcv = Local.rcv /\ Local'.in = Local.in /\ (Local'.fin <=> Local.fin)
  BY <1>1, <1>4 DEF Local
<1>7. image' \in ImageType
  BY DEF Carried
<1> QED BY <1>5, <1>6, <1>7, EndKeeps

LEMMA ConnectCarries ==
  ASSUME Carried, table \in Tables, Conns # {}, NEW s \in Sockets, restore_tcp_conn_state(s)
  PROVE  Carried'
<1>1. /\ s = TheConn /\ phase = "restore" /\ st[s] = "none" /\ st \in [Sockets -> AnySteps]
      /\ \A o \in Sockets : st[o] \in TcpSteps => o = TheConn
  <2>1. s \in Conns /\ phase = "restore" /\ st[s] = "none"
    BY DEF restore_tcp_conn_state, Turn, Conns
  <2> QED BY <2>1, TheConnIs DEF Carried, PhaseInv, RestorePhases
<1>2. InImage
  BY <1>1 DEF InImage, RestorePhases
<1>3. CASE CanBind(s, 2)
  <2>1. /\ phase' = "restore" /\ UNCHANGED <<peer, net, app>> /\ UNCHANGED <<table, image, locked>>
        /\ st' = [st EXCEPT ![TheConn] = "connected"]
        /\ conn' = [End(restore_tcp_seqs.una, restore_tcp_seqs.rcv) EXCEPT !.repair = TRUE]
    BY <1>1, <1>3 DEF restore_tcp_conn_state, Steps, RstKeeps
  <2>2. conn' = [End(FromImage.una, Mod(image.inq_seq - Len(image.inq))) EXCEPT !.repair = TRUE]
    BY <2>1 DEF restore_tcp_seqs, FromImage
  <2>3. conn' \in EndType
    <3>1. FromImage.una \in 0..M /\ Mod(image.inq_seq - Len(image.inq)) \in 0..M /\ << >> \in Seq(Nat)
      BY <1>2, ImageNumbers
    <3> QED BY <2>2, <3>1 DEF End, EndType
  <2>4. "connected" \in ConnSteps
    BY DEF ConnSteps
  <2> QED BY <1>1, <1>2, <2>1, <2>2, <2>3, <2>4, BuildKeeps
<1>4. CASE ~ CanBind(s, 2)
  <2>1. /\ phase' = "failed" /\ st' = st
        /\ UNCHANGED <<peer, net, app>> /\ UNCHANGED <<table, conn, image, locked>>
    BY <1>4 DEF restore_tcp_conn_state, Fail, tcpVars, rstVars
  <2> QED BY <1>1, <2>1, BesideKeeps
<1> QED BY <1>3, <1>4

LEMMA QueuesCarry ==
  ASSUME Carried, table \in Tables, Conns # {}, NEW s \in Sockets,
         send_tcp_queue(s) \/ send_unsent(s) \/ repair_again(s)
  PROVE  Carried'
<1>1. /\ phase = "restore" /\ phase' = "restore" /\ st[s] \in {"connected", "queues", "sending"}
      /\ UNCHANGED <<peer, net, app>> /\ UNCHANGED <<table, image, locked>>
  BY DEF send_tcp_queue, send_unsent, repair_again, Turn, RstKeeps
<1>2. s = TheConn
  BY <1>1 DEF Carried, PhaseInv, RestorePhases, TcpSteps
<1>3. PhaseInv /\ conn \in EndType /\ image \in ImageType
  BY DEF Carried
<1>4. CASE send_tcp_queue(s)
  <2>1. /\ st[TheConn] = "connected" /\ st' = [st EXCEPT ![TheConn] = "queues"]
        /\ conn' = [conn EXCEPT !.rcv = Mod(@ + Len(image.inq)), !.in = image.inq,
                                !.out = SubSeq(image.outq, 1, FromImage.sent), !.sent = FromImage.sent]
    BY <1>2, <1>4 DEF send_tcp_queue, Turn, Steps, FromImage
  <2>2. InImage
    BY <1>1, <2>1 DEF InImage, RestorePhases
  <2>3. conn = [End(FromImage.una, Mod(image.inq_seq - Len(image.inq))) EXCEPT !.repair = TRUE]
    BY <1>1, <1>3, <2>1, <2>2 DEF PhaseInv
  <2>4. /\ image.inq_seq \in 0..M /\ FromImage.una \in 0..M /\ FromImage.sent \in Nat
        /\ Mod(Mod(image.inq_seq - Len(image.inq)) + Len(image.inq)) = image.inq_seq
        /\ image.outq \in Seq(Nat) /\ image.inq \in Seq(Nat)
        /\ FromImage.sent <= Len(image.outq)
    BY <2>2, ImageNumbers
  <2>5. conn' = [FromImage EXCEPT !.out = SubSeq(image.outq, 1, FromImage.sent)]
    <3>1. conn' = [una |-> FromImage.una, out |-> SubSeq(image.outq, 1, FromImage.sent), sent |-> FromImage.sent,
                   rcv |-> image.inq_seq, in |-> image.inq, fin |-> FALSE, repair |-> TRUE]
      BY <2>1, <2>3, <2>4 DEF End
    <3>2. PICK f : f = FromImage
      OBVIOUS
    <3>3. f = [una |-> f.una, out |-> image.outq, sent |-> f.sent,
               rcv |-> image.inq_seq, in |-> image.inq, fin |-> FALSE, repair |-> TRUE]
      BY <3>2 DEF FromImage
    <3>4. conn' = [f EXCEPT !.out = SubSeq(image.outq, 1, f.sent)]
      <4>1. PICK u, n, x : u = f.una /\ n = f.sent /\ x = SubSeq(image.outq, 1, n)
        OBVIOUS
      <4>2. conn' = [una |-> u, out |-> x, sent |-> n,
                     rcv |-> image.inq_seq, in |-> image.inq, fin |-> FALSE, repair |-> TRUE]
        BY <3>1, <3>2, <4>1
      <4>3. f = [una |-> u, out |-> image.outq, sent |-> n,
                 rcv |-> image.inq_seq, in |-> image.inq, fin |-> FALSE, repair |-> TRUE]
        BY <3>3, <4>1
      <4>4. PICK g : g = [f EXCEPT !.out = x]
        OBVIOUS
      <4>5. g = [una |-> u, out |-> x, sent |-> n,
                 rcv |-> image.inq_seq, in |-> image.inq, fin |-> FALSE, repair |-> TRUE]
        BY ONLY <4>3, <4>4
      <4> QED BY <4>1, <4>2, <4>4, <4>5
    <3> QED BY <3>2, <3>4
  <2>6. conn' \in EndType
    <3>1. SubSeq(image.outq, 1, FromImage.sent) \in Seq(Nat)
      BY <2>4, SubSeqProperties
    <3> QED BY <2>4, <2>5, <3>1 DEF FromImage, EndType
  <2>7. "queues" \in ConnSteps
    BY DEF ConnSteps
  <2> QED BY <1>1, <2>1, <2>2, <2>5, <2>6, <2>7, BuildKeeps
<1>5. CASE send_unsent(s)
  <2>1. /\ st[TheConn] = "queues" /\ st' = [st EXCEPT ![TheConn] = "sending"]
        /\ conn' = [conn EXCEPT !.repair = FALSE, !.out = image.outq]
    BY <1>2, <1>5 DEF send_unsent, Turn, Steps
  <2>2. InImage
    BY <1>1, <2>1 DEF InImage, RestorePhases
  <2>3. conn = [FromImage EXCEPT !.out = SubSeq(image.outq, 1, FromImage.sent)] /\ Local = FromImage
    BY <1>1, <1>3, <2>1, <2>2 DEF PhaseInv, Local
  <2>4. conn' = [FromImage EXCEPT !.repair = FALSE]
    <3>1. PICK f : f = FromImage
      OBVIOUS
    <3>2. f = [una |-> f.una, out |-> image.outq, sent |-> f.sent,
               rcv |-> image.inq_seq, in |-> image.inq, fin |-> FALSE, repair |-> TRUE]
      BY <3>1 DEF FromImage
    <3>3. conn' = [f EXCEPT !.repair = FALSE]
      <4>1. conn = [f EXCEPT !.out = SubSeq(image.outq, 1, f.sent)]
        BY <2>3, <3>1
      <4>2. PICK u, n, x : u = f.una /\ n = f.sent /\ x = SubSeq(image.outq, 1, n)
        OBVIOUS
      <4>3. conn = [f EXCEPT !.out = x]
        BY <4>1, <4>2
      <4>4. f = [una |-> u, out |-> image.outq, sent |-> n,
                 rcv |-> image.inq_seq, in |-> image.inq, fin |-> FALSE, repair |-> TRUE]
        BY <3>2, <4>2
      <4>5. conn = [una |-> u, out |-> x, sent |-> n,
                    rcv |-> image.inq_seq, in |-> image.inq, fin |-> FALSE, repair |-> TRUE]
        BY ONLY <4>3, <4>4
      <4>6. PICK g : g = [f EXCEPT !.repair = FALSE]
        OBVIOUS
      <4>7. g = [una |-> u, out |-> image.outq, sent |-> n,
                 rcv |-> image.inq_seq, in |-> image.inq, fin |-> FALSE, repair |-> FALSE]
        BY ONLY <4>4, <4>6
      <4>8. conn' = [una |-> u, out |-> image.outq, sent |-> n,
                     rcv |-> image.inq_seq, in |-> image.inq, fin |-> FALSE, repair |-> FALSE]
        BY ONLY <2>1, <4>5
      <4> QED BY <4>6, <4>7, <4>8
    <3> QED BY <3>1, <3>3
  <2>5. /\ conn' \in EndType
        /\ conn'.una = Local.una /\ conn'.out = Local.out /\ conn'.sent = Local.sent
        /\ conn'.rcv = Local.rcv /\ conn'.in = Local.in /\ (conn'.fin <=> Local.fin)
    <3>1. /\ image.inq_seq \in 0..M /\ FromImage.una \in 0..M /\ FromImage.sent \in Nat
          /\ image.outq \in Seq(Nat) /\ image.inq \in Seq(Nat)
      BY <2>2, ImageNumbers
    <3> QED BY <2>3, <2>4, <3>1 DEF FromImage, EndType
  <2>6. "sending" \in ConnSteps
    BY DEF ConnSteps
  <2> QED BY <1>1, <2>1, <2>5, <2>6, BuildKeeps
<1>6. CASE repair_again(s)
  <2>1. /\ st[TheConn] = "sending" /\ st' = [st EXCEPT ![TheConn] = "open"]
        /\ \E v \in BOOLEAN : conn' = [conn EXCEPT !.repair = v]
    BY <1>2, <1>6 DEF repair_again, Turn, Steps
  <2>2. Local = conn
    BY <1>1, <2>1 DEF Local, InImage
  <2>3. /\ conn' \in EndType
        /\ conn'.una = Local.una /\ conn'.out = Local.out /\ conn'.sent = Local.sent
        /\ conn'.rcv = Local.rcv /\ conn'.in = Local.in /\ (conn'.fin <=> Local.fin)
    BY <1>3, <2>1, <2>2, RepairChanges
  <2>4. "open" \in ConnSteps
    BY DEF ConnSteps
  <2> QED BY <1>1, <2>1, <2>3, <2>4, BuildKeeps
<1> QED BY <1>4, <1>5, <1>6

LEMMA UnlockCarries ==
  ASSUME Carried, table \in Tables, Conns # {}, rst_unlock_tcp_connections
  PROVE  Carried'
<1>1. /\ phase = "restore" /\ phase' = "unlocked" /\ \A s \in Sockets : st[s] = "ready"
      /\ UNCHANGED <<peer, net, app>> /\ UNCHANGED <<table, image>> /\ UNCHANGED <<conn, st>>
  BY DEF rst_unlock_tcp_connections, rstVars
<1>2. /\ TheConn \in Sockets /\ st[TheConn] = "ready" /\ TheConn' = TheConn /\ Sockets' = Sockets
  BY <1>1, TheConnIs DEF TheConn, Conns, Sockets
<1>3. ~ InImage /\ ~ InImage'
  BY <1>1, <1>2 DEF InImage
<1>4. PhaseInv'
  BY <1>1, <1>2, <1>3 DEF Carried, PhaseInv, DumpPhases, RestorePhases
<1>5. conn' \in EndType
  BY <1>1 DEF Carried
<1> QED BY <1>1, <1>3, <1>4, <1>5, EndPlaces

LEMMA RepairOffCarries ==
  ASSUME Carried, table \in Tables, Conns # {}, rst_tcp_repair_off
  PROVE  Carried'
<1>1. /\ phase = "unlocked" /\ phase' = "done" /\ \E v \in BOOLEAN : conn' = [conn EXCEPT !.repair = v]
      /\ UNCHANGED <<peer, net, app>> /\ UNCHANGED <<table, image>> /\ UNCHANGED st
  BY DEF rst_tcp_repair_off
<1>2. /\ st[TheConn] = "ready" /\ TheConn' = TheConn /\ Sockets' = Sockets
  BY <1>1 DEF Carried, PhaseInv, RestorePhases, TheConn, Conns, Sockets
<1>3. ~ InImage /\ ~ InImage'
  BY <1>1, <1>2 DEF InImage
<1>4. /\ conn' \in EndType
      /\ conn'.una = conn.una /\ conn'.out = conn.out /\ conn'.sent = conn.sent
      /\ conn'.rcv = conn.rcv /\ conn'.in = conn.in /\ (conn'.fin <=> conn.fin)
  BY <1>1, RepairChanges DEF Carried
<1>5. PhaseInv'
  BY <1>1, <1>2, <1>3 DEF Carried, PhaseInv, DumpPhases, RestorePhases
<1> QED BY <1>1, <1>3, <1>4, <1>5, EndPlaces

LEMMA CarriedKeeps ==
  ASSUME Carried, table \in Tables, Conns # {}, Next
  PROVE  Carried'
<1>1. CASE Network
  BY <1>1, TransmitKeeps, PeerTransmitKeeps, ArriveKeeps DEF Network
<1>2. CASE Write \/ Read \/ PeerWrite \/ PeerClose
  BY <1>2, WriteKeeps, ReadKeeps, PeerWriteKeeps, PeerCloseKeeps
<1>3. CASE DumpStep
  BY <1>3, LockKeeps, RepairKeeps, DumpReads, KillKeeps DEF DumpStep
<1>4. CASE RestoreStep
  <2>1. CASE Collect \/ rst_unlock_tcp_connections \/ rst_tcp_repair_off
    BY <2>1, CollectCarries, UnlockCarries, RepairOffCarries
  <2>2. ASSUME NEW s \in Sockets,
               \/ inet_bind(s) \/ listen(s) \/ restore_tcp_conn_state(s) \/ send_tcp_queue(s)
               \/ send_unsent(s) \/ repair_again(s) \/ post_open_inet_sk(s)
        PROVE  Carried'
    BY <2>2, OthersKeep, ConnectCarries, QueuesCarry
  <2> QED BY <1>4, <2>1, <2>2 DEF RestoreStep
<1> QED BY <1>1, <1>2, <1>3, <1>4 DEF Next

\* Sockets without a connection: nothing is sent.
LEMMA IdleKeeps ==
  ASSUME Idle, table \in Tables, Conns = {}, Next
  PROVE  Idle'
<1>1. ~ HasConn /\ \A s \in Sockets : table[s].kind # "conn"
  BY DEF Idle, HasConn, Conns
<1>2. ~ Network
  BY <1>1 DEF Network, Transmit, PeerTransmit, Arrive, Idle
<1>3. ~ (Write \/ Read \/ PeerWrite \/ PeerClose)
  BY <1>1 DEF Write, Read, PeerWrite, PeerClose
<1>4. CASE DumpStep
  <2>1. Kill
    BY <1>1, <1>4 DEF DumpStep, inet_collect_one, nf_lock_connection, tcp_repair_on, dump_tcp_conn_state,
         tcp_repair_establised_failed, cpt_unlock_tcp_connections, tcp_unlock_one, Idle, RestorePhases
  <2>2. /\ phase' = "dead" /\ conn' = NoConn /\ UNCHANGED <<net, app>> /\ peer' = [peer EXCEPT !.fin = FALSE]
    BY <1>1, <2>1 DEF Kill
  <2>3. peer' \in PeerType /\ peer'.in = peer.in /\ (peer'.reset <=> peer.reset) /\ ~ peer'.fin
    BY <2>2 DEF Idle, PeerType
  <2> QED BY <2>2, <2>3 DEF Idle, RestorePhases
<1>5. CASE RestoreStep
  <2>1. /\ phase' \in RestorePhases /\ UNCHANGED <<net, app, peer, table>> /\ Sockets' = Sockets
        /\ Collect \/ phase \in RestorePhases
    BY <1>5 DEF RestoreStep, Collect, rst_unlock_tcp_connections, rst_tcp_repair_off, inet_bind, listen,
         restore_tcp_conn_state, send_tcp_queue, send_unsent, repair_again, post_open_inet_sk,
         Turn, Fail, RstKeeps, tcpVars, RestorePhases, Sockets
  <2>2. conn' = NoConn /\ st' \in [Sockets -> AnySteps \ TcpSteps]
    <3>1. CASE Collect
      BY <3>1 DEF Collect, tcpVars, Idle, AnySteps, ConnSteps, TcpSteps
    <3>2. CASE rst_unlock_tcp_connections \/ rst_tcp_repair_off
      BY <2>1, <3>2 DEF rst_unlock_tcp_connections, rst_tcp_repair_off, rstVars, Idle, RestorePhases
    <3>3. ASSUME NEW s \in Sockets,
                 \/ inet_bind(s) \/ listen(s) \/ restore_tcp_conn_state(s) \/ send_tcp_queue(s)
                 \/ send_unsent(s) \/ repair_again(s) \/ post_open_inet_sk(s)
          PROVE  conn' = NoConn /\ st' \in [Sockets -> AnySteps \ TcpSteps]
      <4>1. phase \in RestorePhases /\ st \in [Sockets -> AnySteps \ TcpSteps] /\ conn = NoConn
        BY <3>3 DEF inet_bind, listen, restore_tcp_conn_state, send_tcp_queue, send_unsent,
             repair_again, post_open_inet_sk, Turn, RestorePhases, Idle
      <4>2. inet_bind(s) \/ listen(s) \/ post_open_inet_sk(s)
        BY <1>1, <3>3, <4>1 DEF restore_tcp_conn_state, send_tcp_queue, send_unsent, repair_again, Turn, TcpSteps
      <4>3. conn' = conn /\ (st' = st \/ \E x \in {"bound", "open", "ready"} : st' = [st EXCEPT ![s] = x])
        BY <4>2 DEF inet_bind, listen, post_open_inet_sk, Steps, Fail, RstKeeps, tcpVars, rstVars
      <4>4. {"bound", "open", "ready"} \in SUBSET (AnySteps \ TcpSteps)
        BY DEF AnySteps, ConnSteps, TcpSteps
      <4> QED BY <4>1, <4>3, <4>4
    <3> QED BY <1>5, <3>1, <3>2, <3>3 DEF RestoreStep
  <2> QED BY <2>1, <2>2 DEF Idle
<1> QED BY <1>2, <1>3, <1>4, <1>5 DEF Next

LEMMA TableStays == ASSUME Next PROVE table' = table /\ Conns' = Conns
<1>1. table' = table
  BY DEF Next, Network, Transmit, PeerTransmit, Arrive, Write, Read, PeerWrite, PeerClose,
     DumpStep, inet_collect_one, nf_lock_connection, tcp_repair_on, dump_tcp_conn_state,
     tcp_repair_establised_failed, cpt_unlock_tcp_connections, tcp_unlock_one, Kill, DumpKeeps,
     RestoreStep, Collect, rst_unlock_tcp_connections, rst_tcp_repair_off, inet_bind, listen,
     restore_tcp_conn_state, send_tcp_queue, send_unsent, repair_again, post_open_inet_sk, Fail, RstKeeps
<1> QED BY <1>1 DEF Conns, Sockets

-----------------------------------------------------------------------------
LEMMA InitStream == ASSUME Init PROVE StreamInv
<1>1. CASE Conns = {}
  <2>1. peer \in PeerType
    <3>1. FirstSeq \in 0..M /\ 0 \in 0..PeerBytes /\ << >> \in Seq(Nat)
      BY ModCases, InetAssumption
    <3> QED BY <3>1 DEF Init, PeerType
  <2> QED BY <1>1, <2>1 DEF Init, StreamInv, Idle, RestorePhases
<1>2. CASE Conns # {}
  <2>1. /\ phase = "live" /\ conn = End(FirstSeq, FirstSeq) /\ net = Nothing
        /\ app = [wrote |-> 0, read |-> << >>]
        /\ image = [inq_seq |-> 0, inq |-> << >>, outq_seq |-> 0, outq |-> << >>, unsq_len |-> 0]
        /\ peer = [wrote |-> 0, closed |-> FALSE, reset |-> FALSE,
                   una |-> FirstSeq, out |-> << >>, sent |-> 0, rcv |-> FirstSeq, in |-> << >>, fin |-> FALSE]
    BY <1>2 DEF Init
  <2>2. FirstSeq \in 0..M /\ 0 \in 0..PeerBytes /\ 0 \in 0..MaxBytes /\ << >> \in Seq(Nat) /\ 0 \in 0..M
    BY ModCases, InetAssumption
  <2>3. conn \in EndType /\ peer \in PeerType /\ image \in ImageType /\ app \in [wrote : 0..MaxBytes, read : Seq(Nat)]
    BY <2>1, <2>2 DEF End, EndType, PeerType, ImageType
  <2>4. ~ InImage /\ Local = conn
    BY <2>1 DEF InImage, RestorePhases, Local
  <2>5. PhaseInv
    BY <2>1, <2>4 DEF PhaseInv, DumpPhases, RestorePhases
  <2>6. P(0) = FirstSeq /\ Queue(0, 0, 0) = << >> /\ Bytes(0) = << >>
    <3>1. 0 \in 0..(M - 1) /\ FirstSeq + 0 = FirstSeq
      BY ModCases
    <3>2. P(0) = FirstSeq
      BY <3>1, ModCases DEF P
    <3>3. Queue(0, 0, 0) \in Seq(Nat) /\ Len(Queue(0, 0, 0)) = 0 /\ Bytes(0) \in Seq(Nat) /\ Len(Bytes(0)) = 0
      BY QueueType, BytesType
    <3> QED BY <3>2, <3>3, EmptySeq
  <2>7. WriteInv(conn, 0, 0)
    BY <2>1, <2>6 DEF WriteInv, End
  <2>8. ReadInv(conn, 0, 0)
    <3>1. PeerLast = 0 /\ app.read \o conn.in = << >>
      BY <2>1, <2>2 DEF PeerLast, End
    <3> QED BY <2>1, <2>6, <3>1 DEF ReadInv, End
  <2>9. NetInv(0, 0)
    BY <2>1 DEF NetInv
  <2> QED BY <1>2, <2>1, <2>3, <2>4, <2>5, <2>7, <2>8, <2>9 DEF StreamInv, Carried, Init
<1> QED BY <1>1, <1>2

LEMMA NextKeepsStream == StreamInv /\ [Next]_vars => StreamInv'
<1> SUFFICES ASSUME StreamInv, [Next]_vars PROVE StreamInv'
  OBVIOUS
<1>1. CASE Next
  BY <1>1, TableStays, CarriedKeeps, IdleKeeps DEF StreamInv
<1>2. CASE UNCHANGED vars
  <2>1. UNCHANGED <<table, phase, conn, peer, net, locked, app, image, st>>
    BY <1>2 DEF vars
  <2>2. Conns' = Conns /\ Sockets' = Sockets
    BY <2>1 DEF Conns, Sockets
  <2>3. Idle => Idle'
    BY <2>1, <2>2 DEF Idle
  <2>4. Carried => Carried'
    <3> SUFFICES ASSUME Carried PROVE Carried'
      OBVIOUS
    <3>1. PhaseInv' /\ Local' = Local
      BY <2>1, PlaceStays
    <3>2. conn' \in EndType /\ image' \in ImageType
      BY <2>1 DEF Carried
    <3> QED BY <2>1, <3>1, <3>2, EndKeeps
  <2> QED BY <2>1, <2>2, <2>3, <2>4 DEF StreamInv
<1> QED BY <1>1, <1>2

LEMMA StreamInvIsEnough == StreamInv => StreamIntact
<1> SUFFICES ASSUME StreamInv PROVE StreamIntact
  OBVIOUS
<1>1. CASE Conns = {}
  <2>1. /\ app.wrote = 0 /\ app.read = << >> /\ conn.in = << >> /\ peer.in = << >> /\ ~ peer.reset /\ ~ peer.fin
        /\ peer.wrote \in 0..PeerBytes
    BY <1>1 DEF StreamInv, Idle, NoConn, End, PeerType
  <2>2. Bytes(0) = << >> /\ << >> \o << >> = << >>
    <3>1. Bytes(0) \in Seq(Nat) /\ Len(Bytes(0)) = 0
      BY BytesType
    <3> QED BY <3>1, EmptySeq
  <2>3. peer.wrote \in Nat /\ 0 <= peer.wrote
    BY <2>1, InetAssumption
  <2>4. IsPrefix(Bytes(0), Bytes(0)) /\ IsPrefix(Bytes(0), Bytes(peer.wrote))
    BY <2>3, BytesPrefix
  <2> QED BY <2>1, <2>2, <2>4 DEF StreamIntact
<1>2. CASE Conns # {}
  <2>1. Carried
    BY <1>2 DEF StreamInv
  <2>2. PICK a, r, b, q \in Nat : WriteInv(Local, a, r) /\ ReadInv(Local, b, q)
    BY <2>1 DEF Carried
  <2>3. /\ app.wrote \in Nat /\ peer.wrote \in Nat /\ app.read \in Seq(Nat)
        /\ ~ peer.reset /\ ~ peer.fin /\ conn.in \in Seq(Nat)
    BY <2>1, Bounds DEF Carried, EndType
  <2>4. IsPrefix(peer.in, Bytes(app.wrote))
    <3>1. peer.in = Bytes(r) /\ r <= a + Local.sent /\ a + Local.sent <= app.wrote
      BY <2>2 DEF WriteInv
    <3>2. Local.sent \in Int
      BY <2>1 DEF Carried, Local, FromImage, EndType, ImageType
    <3>3. r <= app.wrote
      BY <2>3, <3>1, <3>2
    <3> QED BY <2>3, <3>1, <3>3, BytesPrefix
  <2>5. IsPrefix(app.read \o Local.in, Bytes(peer.wrote))
    <3>1. PICK m \in Nat : m <= peer.wrote /\ app.read \o Local.in = Bytes(m)
      BY <2>2, <2>3 DEF ReadInv
    <3> QED BY <2>3, <3>1, BytesPrefix
  <2>6. CASE conn.in = Local.in
    BY <2>3, <2>4, <2>5, <2>6 DEF StreamIntact
  <2>7. CASE conn.in # Local.in
    <3>1. conn.in = << >>
      BY <2>1, <2>7 DEF Carried, PhaseInv, Local, FromImage, NoConn, End
    <3>2. Local.in \in Seq(Nat)
      BY <2>1 DEF Carried, Local, FromImage, EndType, ImageType
    <3>3. PICK m \in Nat : m <= peer.wrote /\ app.read \o Local.in = Bytes(m)
      BY <2>2, <2>3 DEF ReadInv
    <3>4. PICK l \in Nat : l <= m /\ app.read = Bytes(l)
      <4>1. PICK s \in Seq(Nat), t \in Seq(Nat) : s = app.read /\ t = Local.in
        BY <2>3, <3>2
      <4>2. s \o t = Bytes(m)
        BY <3>3, <4>1
      <4>3. \E l \in Nat : l <= m /\ s = Bytes(l)
        BY ZenonT(60), <4>2, FirstBytes
      <4> QED BY <4>1, <4>3
    <3>5. IsPrefix(app.read, Bytes(peer.wrote))
      BY <2>3, <3>3, <3>4, BytesPrefix
    <3>6. app.read \o << >> = app.read
      BY <2>3
    <3> QED BY <2>3, <2>4, <3>1, <3>5, <3>6 DEF StreamIntact
  <2> QED BY <2>6, <2>7
<1> QED BY <1>1, <1>2

\* For streams of any length below 2 ^ SeqBits and from any first number: what
\* the peer got of the task's bytes, and the task of the peer's, is what was
\* written, in order, at any moment of a dump, a rollback and a restore; and no
\* segment ever reaches the host while the socket is gone.
THEOREM StreamStaysIntact == FairSpec => []StreamIntact
<1>1. Init => StreamInv
  BY InitStream
<1>2. StreamInv /\ [Next]_vars => StreamInv'
  BY NextKeepsStream
<1>3. StreamInv => StreamIntact
  BY StreamInvIsEnough
<1> QED BY <1>1, <1>2, <1>3, PTL DEF FairSpec

=============================================================================
