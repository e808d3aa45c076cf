-------------------------- MODULE InetSocketsProofs --------------------------
(***************************************************************************)
(* Sockets that share a port are restored: proof of PortsRestored for any  *)
(* sockets of any tasks.                                                   *)
(***************************************************************************)
EXTENDS InetSockets, FiniteSetTheorems, TLAPS

-----------------------------------------------------------------------------
(* The inductive invariant *)

DumpPhases == {"live", "collected", "locked", "repair", "read", "rollback", "resumed", "dead"}
RestorePhases == {"restore", "unlocked"}
Phases == DumpPhases \cup RestorePhases \cup {"done", "failed"}

Steps0 == {"none", "bound", "connected", "queues", "sending", "open", "ready"}

\* The sockets of a port that are not bound for good yet: port->users.
Pending(p) == {s \in Sockets : table[s].port = p /\ st[s] \notin {"open", "ready"}}

PortTypes ==
  /\ ks \in [Sockets -> [bound : BOOLEAN, listening : BOOLEAN, reuse : 0..2]]
  /\ fast \in [Ports -> BOOLEAN]
  /\ users \in [Ports -> Nat]
  /\ st \in [Sockets -> Steps0]

\* The SO_REUSEADDR of a socket on its way.
ReuseInv(s) ==
  /\ st[s] # "none" <=> ks[s].bound
  /\ ks[s].listening <=> (table[s].kind = "listen" /\ st[s] \in {"open", "ready"})
  /\ table[s].kind = "conn" =>
       /\ st[s] # "bound"
       /\ st[s] \in {"connected", "queues", "open", "ready"} => ks[s].reuse = 2
  /\ table[s].kind # "conn" =>
       /\ st[s] \in {"none", "bound", "open", "ready"}
       /\ st[s] = "bound" => table[s].kind = "listen"
       /\ st[s] \in {"bound", "open"} => ks[s].reuse = 1
       /\ st[s] = "ready" => ks[s].reuse = IF table[s].reuse THEN 1 ELSE 0

\* Nobody refuses to share a port before all its users have it, and only a
\* listener spoils the port for others.
ShareInv(p) ==
  /\ users[p] = Cardinality(Pending(p))
  /\ \A s \in Sockets : table[s].port = p /\ table[s].kind # "conn" /\ ks[s].bound /\ ks[s].reuse = 0 =>
       Pending(p) = {}
  /\ ~ fast[p] => \E s \in Sockets : table[s].port = p /\ ks[s].listening

PortsInv ==
  /\ table \in Tables /\ phase \in Phases
  /\ phase \in RestorePhases =>
       /\ PortTypes
       /\ \A s \in Sockets : ReuseInv(s)
       /\ \A p \in Ports : ShareInv(p)
  /\ phase = "unlocked" => \A s \in Sockets : st[s] = "ready"
  /\ PortsRestored

-----------------------------------------------------------------------------
LEMMA SocketTypes ==
  ASSUME table \in Tables
  PROVE  /\ IsFiniteSet(Sockets)
         /\ \A s \in Sockets : /\ table[s].kind \in {"conn", "listen", "dgram"}
                               /\ table[s].reuse \in BOOLEAN /\ table[s].port \in Ports
         /\ \A s, o \in Sockets : table[s].port = table[o].port =>
              /\ table[s].kind = "dgram" => table[o].kind = "dgram"
              /\ table[s].kind = "listen" /\ table[o].kind = "listen" => s = o
BY InetAssumption DEF Sockets, Ports

LEMMA PendingFinite ==
  ASSUME table \in Tables, NEW p
  PROVE  IsFiniteSet(Pending(p)) /\ Cardinality(Pending(p)) \in Nat
         /\ (Cardinality(Pending(p)) = 0 <=> Pending(p) = {})
<1>1. IsFiniteSet(Sockets) /\ Pending(p) \in SUBSET Sockets
  BY SocketTypes DEF Pending
<1>2. IsFiniteSet(Pending(p))
  BY <1>1, FS_Subset
<1> QED BY <1>2, FS_CardinalityType, FS_EmptySet

\* The network, the tasks that run and the dump do not touch restored sockets.
LEMMA ElsewhereKeeps ==
  ASSUME PortsInv, UNCHANGED <<table, rstVars>>,
         phase' = phase \/ (phase \in DumpPhases /\ phase' \in DumpPhases)
  PROVE  PortsInv'
<1>1. UNCHANGED <<table, ks, fast, users, st, raced>> /\ Sockets' = Sockets /\ Ports' = Ports
  BY DEF rstVars, Sockets, Ports
<1>2. /\ PortTypes' = PortTypes
      /\ \A s \in Sockets : ReuseInv(s)' = ReuseInv(s)
      /\ \A p \in Ports : Pending(p)' = Pending(p)
  BY <1>1 DEF PortTypes, ReuseInv, Pending
<1>3. \A p \in Ports : ShareInv(p)' = ShareInv(p)
  BY <1>1, <1>2 DEF ShareInv
<1>4. CASE phase' = phase
  BY <1>1, <1>2, <1>3, <1>4 DEF PortsInv, PortsRestored
<1>5. CASE phase \in DumpPhases /\ phase' \in DumpPhases
  BY <1>1, <1>5 DEF PortsInv, PortsRestored, DumpPhases, RestorePhases, Phases
<1> QED BY <1>4, <1>5

\* A socket that is bound: it can be, and the port is as good as before.
LEMMA BindSucceeds ==
  ASSUME PortsInv, NEW s \in Sockets, phase = "restore", st[s] = "none",
         table[s].kind # "conn"
  PROVE  CanBind(s, 1)
<1> DEFINE p == table[s].port
<1>1. /\ p \in Ports /\ ShareInv(p) /\ \A o \in Sockets : ReuseInv(o)
      /\ PortTypes /\ table[s].kind \in {"listen", "dgram"}
      /\ s \in Pending(p)
  BY SocketTypes DEF PortsInv, RestorePhases, Pending
<1>2. CASE table[s].kind = "listen"
  <2>1. fast[p]
    <3> SUFFICES ASSUME ~ fast[p] PROVE FALSE
      OBVIOUS
    <3>1. PICK o \in Sockets : table[o].port = p /\ ks[o].listening
      BY <1>1 DEF ShareInv
    <3>2. table[o].kind = "listen" /\ st[o] # "none"
      BY <1>1, <3>1 DEF ReuseInv
    <3> QED BY <1>2, <3>1, <3>2, SocketTypes DEF PortsInv
  <2> QED BY <1>2, <2>1 DEF CanBind
<1>3. CASE table[s].kind = "dgram"
  <2>1. ~ Conflict(s, 1)
    <3> SUFFICES ASSUME NEW o \in Owners(s), ks[o].reuse = 0 \/ ks[o].listening PROVE FALSE
      BY DEF Conflict
    <3>1. o \in Sockets /\ ks[o].bound /\ table[o].port = p
      BY DEF Owners
    <3>2. table[o].kind = "dgram"
      BY <1>3, <3>1, SocketTypes DEF PortsInv
    <3>3. ks[o].reuse = 0
      BY <1>1, <3>1, <3>2 DEF ReuseInv
    <3> QED BY <1>1, <3>1, <3>2, <3>3 DEF ShareInv
  <2> QED BY <2>1 DEF CanBind
<1> QED BY <1>1, <1>2, <1>3

\* listen() fails only beside a connection that is out of repair mode.
LEMMA ListenRaces ==
  ASSUME PortsInv, NEW s \in Sockets, phase = "restore", st[s] = "bound", Conflict(s, 1)
  PROVE  \E o \in Owners(s) : st[o] = "sending"
<1>1. PICK o \in Owners(s) : ks[o].reuse = 0 \/ ks[o].listening
  BY DEF Conflict
<1>2. /\ o \in Sockets /\ o # s /\ ks[o].bound /\ table[o].port = table[s].port
      /\ ReuseInv(o) /\ ReuseInv(s) /\ table[s].port \in Ports /\ ShareInv(table[s].port)
      /\ PortTypes
  BY SocketTypes DEF Owners, PortsInv, RestorePhases
<1>3. table[s].kind = "listen"
  BY <1>2, SocketTypes DEF ReuseInv, PortsInv
<1>4. table[o].kind = "conn"
  BY <1>2, <1>3, SocketTypes DEF PortsInv
<1>5. ks[o].reuse = 0
  BY <1>1, <1>2, <1>4 DEF ReuseInv
<1>6. st[o] = "sending"
  BY <1>2, <1>4, <1>5 DEF ReuseInv, PortTypes, Steps0
<1> QED BY <1>6

-----------------------------------------------------------------------------
(* The restore *)

\* One socket goes on, and is counted out when it is bound for good.
LEMMA SocketMoves ==
  ASSUME PortsInv, phase = "restore", UNCHANGED <<table, phase, raced>>,
         NEW s \in Sockets, NEW to \in Steps0,
         NEW x \in [bound : BOOLEAN, listening : BOOLEAN, reuse : 0..2],
         ks' = [ks EXCEPT ![s] = x], st' = [st EXCEPT ![s] = to],
         st[s] \in {"open", "ready"} => to \in {"open", "ready"},
         users' = IF st[s] \notin {"open", "ready"} /\ to \in {"open", "ready"}
                  THEN [users EXCEPT ![table[s].port] = @ - 1] ELSE users,
         fast' \in [Ports -> BOOLEAN],
         \A q \in Ports : q # table[s].port => fast'[q] = fast[q],
         fast'[table[s].port] = fast[table[s].port] \/ x.listening,
         ks[s].listening => x.listening,
         table[s].kind # "conn" /\ x.bound /\ x.reuse = 0 => Pending(table[s].port) = {},
         ReuseInv(s)'
  PROVE  PortsInv'
<1>0. PICK p : p = table[s].port
  OBVIOUS
<1>1. /\ table \in Tables /\ PortTypes /\ p \in Ports
      /\ \A o \in Sockets : ReuseInv(o) /\ table[o].port \in Ports
      /\ \A q \in Ports : ShareInv(q)
  BY <1>0, SocketTypes DEF PortsInv, RestorePhases
<1>2. Sockets' = Sockets /\ Ports' = Ports
  BY DEF Sockets, Ports
<1>3. /\ ks' \in [Sockets -> [bound : BOOLEAN, listening : BOOLEAN, reuse : 0..2]]
      /\ ks'[s] = x /\ \A o \in Sockets : o # s => ks'[o] = ks[o]
      /\ st' \in [Sockets -> Steps0]
      /\ st'[s] = to /\ \A o \in Sockets : o # s => st'[o] = st[o]
  BY <1>1 DEF PortTypes
<1>4. \A q \in Ports : q # p => Pending(q)' = Pending(q)
  BY <1>0, <1>2, <1>3 DEF Pending
<1>5. Pending(p)' = IF to \in {"open", "ready"} THEN Pending(p) \ {s} ELSE Pending(p)
  BY <1>0, <1>2, <1>3 DEF Pending
<1>6. /\ users' \in [Ports -> Nat] /\ users'[p] = Cardinality(Pending(p)')
      /\ \A q \in Ports : q # p => users'[q] = users[q]
  <2>1. /\ users[p] = Cardinality(Pending(p)) /\ IsFiniteSet(Pending(p))
        /\ Cardinality(Pending(p)) \in Nat /\ (Cardinality(Pending(p)) = 0 <=> Pending(p) = {})
    BY <1>0, <1>1, PendingFinite DEF ShareInv
  <2>2. CASE st[s] \notin {"open", "ready"} /\ to \in {"open", "ready"}
    <3>1. s \in Pending(p)
      BY <1>0, <2>2 DEF Pending
    <3>2. Cardinality(Pending(p)') = Cardinality(Pending(p)) - 1
      BY <1>5, <2>1, <2>2, <3>1, FS_RemoveElement
    <3>3. Cardinality(Pending(p)) # 0
      BY <2>1, <3>1
    <3>4. PICK n \in Nat : n = Cardinality(Pending(p)')
      BY <2>1, <3>2, <3>3
    <3>5. users[p] - 1 = n /\ users' = [users EXCEPT ![p] = users[p] - 1]
      BY <1>0, <2>1, <2>2, <3>2, <3>4
    <3>6. users' = [users EXCEPT ![p] = n]
      BY <3>5
    <3>7. /\ users' \in [Ports -> Nat] /\ users'[p] = n
          /\ \A q \in Ports : q # p => users'[q] = users[q]
      BY <1>1, <3>6 DEF PortTypes
    <3> QED BY <3>4, <3>7
  <2>3. CASE ~ (st[s] \notin {"open", "ready"} /\ to \in {"open", "ready"})
    <3>1. Pending(p)' = Pending(p)
      BY <1>0, <1>5, <2>3 DEF Pending
    <3> QED BY <1>0, <1>1, <2>1, <2>3, <3>1 DEF PortTypes
  <2> QED BY <2>2, <2>3
<1>7. PortTypes'
  BY <1>2, <1>3, <1>6 DEF PortTypes
<1>8. \A o \in Sockets : ReuseInv(o)'
  BY <1>1, <1>3 DEF ReuseInv
<1>9. \A q \in Ports : q # p => ShareInv(q)'
  <2> SUFFICES ASSUME NEW q \in Ports, q # p PROVE ShareInv(q)'
    OBVIOUS
  <2>1. ShareInv(q) /\ \A o \in Sockets : table[o].port = q => ks'[o] = ks[o]
    BY <1>0, <1>1, <1>3
  <2> QED BY <1>0, <1>2, <1>4, <1>6, <2>1 DEF ShareInv
<1>10. ShareInv(p)'
  <2>1. \A o \in Sockets : table[o].port = p /\ table[o].kind # "conn" /\ ks'[o].bound /\ ks'[o].reuse = 0 =>
          Pending(p)' = {}
    BY <1>0, <1>1, <1>3, <1>5 DEF ShareInv
  <2>2. ~ fast'[p] => \E o \in Sockets : table[o].port = p /\ ks'[o].listening
    <3> SUFFICES ASSUME ~ fast'[p] PROVE \E o \in Sockets : table[o].port = p /\ ks'[o].listening
      OBVIOUS
    <3>1. CASE x.listening
      BY <1>0, <1>3, <3>1
    <3>2. CASE ~ x.listening
      <4>1. ~ fast[p]
        BY <1>0, <3>2
      <4>2. PICK o \in Sockets : table[o].port = p /\ ks[o].listening
        BY <1>1, <4>1 DEF ShareInv
      <4> QED BY <1>0, <1>3, <3>2, <4>2
    <3> QED BY <3>1, <3>2
  <2> QED BY <1>0, <1>2, <1>6, <2>1, <2>2 DEF ShareInv
<1>11. PortsRestored' /\ phase' = "restore"
  BY DEF PortsRestored
<1> QED BY <1>0, <1>1, <1>2, <1>7, <1>8, <1>9, <1>10, <1>11 DEF PortsInv, Phases, RestorePhases

LEMMA CollectKeeps == ASSUME PortsInv, Collect PROVE PortsInv'
<1>1. table \in Tables /\ table' = table /\ phase' = "restore"
      /\ Sockets' = Sockets /\ Ports' = Ports
  BY DEF PortsInv, Collect, Sockets, Ports
<1>2. /\ ks' = [s \in Sockets |-> [bound |-> FALSE, listening |-> FALSE, reuse |-> 0]]
      /\ st' = [s \in Sockets |-> "none"] /\ fast' = [p \in Ports |-> TRUE]
      /\ users' = [p \in Ports |-> port_add(p)]
  BY DEF Collect
<1>3. \A p \in Ports : Pending(p)' = {s \in Sockets : table[s].port = p}
  BY <1>1, <1>2 DEF Pending
<1>4. \A p \in Ports : port_add(p) = Cardinality(Pending(p)')
  BY <1>3 DEF port_add
<1>5. \A p \in Ports : Cardinality(Pending(p)') \in Nat
  <2> SUFFICES ASSUME NEW p \in Ports PROVE Cardinality(Pending(p)') \in Nat
    OBVIOUS
  <2>1. Pending(p)' \in SUBSET Sockets
    BY <1>1 DEF Pending
  <2> QED BY <1>1, <2>1, SocketTypes, FS_Subset, FS_CardinalityType
<1>6. PortTypes'
  BY <1>1, <1>2, <1>4, <1>5 DEF PortTypes, Steps0
<1>7. \A s \in Sockets : ReuseInv(s)'
  BY <1>1, <1>2 DEF ReuseInv
<1>8. \A p \in Ports : ShareInv(p)'
  BY <1>1, <1>2, <1>4 DEF ShareInv
<1> QED BY <1>1, <1>6, <1>7, <1>8 DEF PortsInv, Phases, RestorePhases, PortsRestored

LEMMA BoundSocket ==
  ASSUME NEW k \in [bound : BOOLEAN, listening : BOOLEAN, reuse : 0..2],
         NEW b \in BOOLEAN, NEW r \in 0..2, NEW x, x = [k EXCEPT !.bound = b, !.reuse = r]
  PROVE  /\ x \in [bound : BOOLEAN, listening : BOOLEAN, reuse : 0..2]
         /\ x.bound = b /\ x.listening = k.listening /\ x.reuse = r
OBVIOUS

LEMMA BindKeeps == ASSUME PortsInv, NEW s \in Sockets, inet_bind(s) PROVE PortsInv'
<1>1. /\ phase = "restore" /\ st[s] = "none" /\ table[s].kind \in {"listen", "dgram"}
      /\ ReuseInv(s) /\ PortTypes /\ table[s].port \in Ports
  BY SocketTypes DEF inet_bind, Turn, PortsInv, RestorePhases
<1>2. CanBind(s, 1)
  BY <1>1, BindSucceeds
<1>3. PICK to : to = IF table[s].kind = "listen" THEN "bound" ELSE "open"
  OBVIOUS
<1>4. /\ ks' = [ks EXCEPT ![s] = [@ EXCEPT !.bound = TRUE, !.reuse = 1]]
      /\ fast' = [fast EXCEPT ![table[s].port] = @ /\ 1 # 0]
      /\ st' = [st EXCEPT ![s] = to]
      /\ users' = IF table[s].kind = "listen" THEN users ELSE [users EXCEPT ![table[s].port] = @ - 1]
      /\ UNCHANGED <<table, phase, raced>>
  BY <1>2, <1>3 DEF inet_bind, Bound, Steps, RstKeeps
<1>5. PICK x : x = [ks[s] EXCEPT !.bound = TRUE, !.reuse = 1]
  OBVIOUS
<1>6. /\ x \in [bound : BOOLEAN, listening : BOOLEAN, reuse : 0..2]
      /\ x.bound /\ ~ x.listening /\ x.reuse = 1 /\ ks' = [ks EXCEPT ![s] = x]
  <2>1. /\ ks[s] \in [bound : BOOLEAN, listening : BOOLEAN, reuse : 0..2] /\ ~ ks[s].listening
    BY <1>1 DEF PortTypes, ReuseInv
  <2>2. /\ x \in [bound : BOOLEAN, listening : BOOLEAN, reuse : 0..2]
        /\ x.bound = TRUE /\ x.listening = ks[s].listening /\ x.reuse = 1
    <3>1. TRUE \in BOOLEAN /\ 1 \in 0..2
      OBVIOUS
    <3> QED BY <1>5, <2>1, <3>1, BoundSocket
  <2> QED BY <1>4, <1>5, <2>1, <2>2
<1>7. fast' \in [Ports -> BOOLEAN] /\ \A q \in Ports : fast'[q] = fast[q]
  BY <1>1, <1>4 DEF PortTypes
<1>8. to \in Steps0 /\ st'[s] = to /\ ks'[s] = x
  BY <1>1, <1>3, <1>4, <1>6 DEF PortTypes, Steps0
<1>9. ReuseInv(s)'
  BY <1>1, <1>3, <1>4, <1>6, <1>8 DEF ReuseInv
<1>10. users' = IF st[s] \notin {"open", "ready"} /\ to \in {"open", "ready"}
                THEN [users EXCEPT ![table[s].port] = @ - 1] ELSE users
  BY <1>1, <1>3, <1>4
<1>11. /\ st[s] \in {"open", "ready"} => to \in {"open", "ready"}
       /\ fast'[table[s].port] = fast[table[s].port] \/ x.listening
       /\ ks[s].listening => x.listening
       /\ table[s].kind # "conn" /\ x.bound /\ x.reuse = 0 => Pending(table[s].port) = {}
  BY <1>1, <1>6, <1>7 DEF ReuseInv
<1> QED BY <1>1, <1>4, <1>6, <1>7, <1>8, <1>9, <1>10, <1>11, SocketMoves

LEMMA ListenKeeps == ASSUME PortsInv, NEW s \in Sockets, listen(s) PROVE PortsInv'
<1>1. /\ phase = "restore" /\ st[s] = "bound" /\ table[s].kind = "listen"
      /\ ReuseInv(s) /\ PortTypes /\ table[s].port \in Ports
  BY SocketTypes DEF listen, Turn, PortsInv, RestorePhases, ReuseInv
<1>2. CASE Conflict(s, 1)
  <2>1. phase' = "failed" /\ raced' /\ table' = table
    BY <1>1, <1>2, ListenRaces DEF listen
  <2> QED BY <2>1 DEF PortsInv, PortsRestored, Phases, RestorePhases
<1>3. CASE ~ Conflict(s, 1)
  <2>1. /\ ks' = [ks EXCEPT ![s].listening = TRUE] /\ fast' = [fast EXCEPT ![table[s].port] = FALSE]
        /\ users' = [users EXCEPT ![table[s].port] = @ - 1]
        /\ st' = [st EXCEPT ![s] = "open"] /\ UNCHANGED <<table, phase, raced>>
    BY <1>3 DEF listen, Steps, RstKeeps
  <2>2. PICK x : x = [ks[s] EXCEPT !.listening = TRUE]
    OBVIOUS
  <2>3. /\ x \in [bound : BOOLEAN, listening : BOOLEAN, reuse : 0..2]
        /\ x.bound /\ x.listening /\ x.reuse = 1 /\ ks' = [ks EXCEPT ![s] = x]
    BY <1>1, <2>1, <2>2 DEF PortTypes, ReuseInv
  <2>4. fast' \in [Ports -> BOOLEAN] /\ \A q \in Ports : q # table[s].port => fast'[q] = fast[q]
    BY <1>1, <2>1 DEF PortTypes
  <2>5. "open" \in Steps0 /\ st'[s] = "open" /\ ks'[s] = x
    BY <1>1, <2>1, <2>3 DEF PortTypes, Steps0
  <2>6. ReuseInv(s)'
    BY <1>1, <2>1, <2>3, <2>5 DEF ReuseInv
  <2>7. users' = IF st[s] \notin {"open", "ready"} /\ "open" \in {"open", "ready"}
                 THEN [users EXCEPT ![table[s].port] = @ - 1] ELSE users
    BY <1>1, <2>1
  <2>8. /\ st[s] \in {"open", "ready"} => "open" \in {"open", "ready"}
        /\ fast'[table[s].port] = fast[table[s].port] \/ x.listening
        /\ ks[s].listening => x.listening
        /\ table[s].kind # "conn" /\ x.bound /\ x.reuse = 0 => Pending(table[s].port) = {}
    BY <2>3
  <2> QED BY <1>1, <2>1, <2>3, <2>4, <2>5, <2>6, <2>7, <2>8, SocketMoves
<1> QED BY <1>2, <1>3

\* The steps of a connection, and the last one of any socket: one that is bound
\* gets another value of SO_REUSEADDR.
LEMMA ReuseChanges ==
  ASSUME PortsInv, phase = "restore", UNCHANGED <<table, phase, raced, fast>>,
         NEW s \in Sockets, NEW to \in Steps0, NEW r \in 0..2, to # "none",
         st[s] # "none", st' = [st EXCEPT ![s] = to], ks' = [ks EXCEPT ![s].reuse = r],
         st[s] \in {"open", "ready"} => to \in {"open", "ready"},
         table[s].kind = "conn" \/ st[s] = "open",
         table[s].kind = "conn" => to # "bound" /\ (to \in {"connected", "queues", "open", "ready"} => r = 2),
         table[s].kind # "conn" =>
           /\ to = "ready" /\ r = IF table[s].reuse THEN 1 ELSE 0
           /\ r = 0 => Pending(table[s].port) = {},
         users' = IF st[s] \notin {"open", "ready"} /\ to \in {"open", "ready"}
                  THEN [users EXCEPT ![table[s].port] = @ - 1] ELSE users
  PROVE  PortsInv'
<1>1. ReuseInv(s) /\ PortTypes /\ table[s].port \in Ports
  BY SocketTypes DEF PortsInv, RestorePhases
<1>2. PICK x : x = [ks[s] EXCEPT !.reuse = r]
  OBVIOUS
<1>3. /\ x \in [bound : BOOLEAN, listening : BOOLEAN, reuse : 0..2]
      /\ x.bound /\ (x.listening <=> ks[s].listening) /\ x.reuse = r /\ ks' = [ks EXCEPT ![s] = x]
  BY <1>1, <1>2 DEF PortTypes, ReuseInv
<1>4. st'[s] = to /\ ks'[s] = x
  BY <1>1, <1>3 DEF PortTypes
<1>5. ReuseInv(s)'
  BY <1>1, <1>3, <1>4 DEF ReuseInv
<1> QED BY <1>1, <1>3, <1>5, SocketMoves DEF PortTypes

LEMMA ConnectKeeps ==
  ASSUME PortsInv, NEW s \in Sockets, restore_tcp_conn_state(s) PROVE PortsInv'
<1>1. /\ phase = "restore" /\ st[s] = "none" /\ table[s].kind = "conn"
      /\ ReuseInv(s) /\ PortTypes /\ table[s].port \in Ports
  BY SocketTypes DEF restore_tcp_conn_state, Turn, PortsInv, RestorePhases
<1>2. /\ ks' = [ks EXCEPT ![s] = [@ EXCEPT !.bound = TRUE, !.reuse = 2]]
      /\ fast' = [fast EXCEPT ![table[s].port] = @ /\ 2 # 0]
      /\ st' = [st EXCEPT ![s] = "connected"] /\ UNCHANGED <<table, phase, raced, users>>
  BY DEF restore_tcp_conn_state, CanBind, Bound, Steps, RstKeeps
<1>3. PICK x : x = [ks[s] EXCEPT !.bound = TRUE, !.reuse = 2]
  OBVIOUS
<1>4. /\ x \in [bound : BOOLEAN, listening : BOOLEAN, reuse : 0..2]
      /\ x.bound = TRUE /\ x.listening = ks[s].listening /\ x.reuse = 2
  <2>1. ks[s] \in [bound : BOOLEAN, listening : BOOLEAN, reuse : 0..2]
    BY <1>1 DEF PortTypes
  <2>2. TRUE \in BOOLEAN /\ 2 \in 0..2
    OBVIOUS
  <2> QED BY <1>3, <2>1, <2>2, BoundSocket
<1>5. ks' = [ks EXCEPT ![s] = x]
  BY <1>2, <1>3
<1>6. fast' \in [Ports -> BOOLEAN] /\ \A q \in Ports : fast'[q] = fast[q]
  BY <1>1, <1>2 DEF PortTypes
<1>7. "connected" \in Steps0 /\ st'[s] = "connected" /\ ks'[s] = x
  BY <1>1, <1>2, <1>5 DEF PortTypes, Steps0
<1>8. ReuseInv(s)'
  BY <1>1, <1>2, <1>4, <1>7 DEF ReuseInv
<1>9. users' = IF st[s] \notin {"open", "ready"} /\ "connected" \in {"open", "ready"}
               THEN [users EXCEPT ![table[s].port] = @ - 1] ELSE users
  BY <1>2
<1>10. /\ st[s] \in {"open", "ready"} => "connected" \in {"open", "ready"}
       /\ fast'[table[s].port] = fast[table[s].port] \/ x.listening
       /\ ks[s].listening => x.listening
       /\ table[s].kind # "conn" /\ x.bound /\ x.reuse = 0 => Pending(table[s].port) = {}
  BY <1>1, <1>4, <1>6
<1> QED BY <1>1, <1>2, <1>4, <1>5, <1>6, <1>7, <1>8, <1>9, <1>10, SocketMoves

LEMMA QueuesKeep ==
  ASSUME PortsInv, NEW s \in Sockets, send_tcp_queue(s) \/ send_unsent(s) \/ repair_again(s)
  PROVE  PortsInv'
<1>1. /\ phase = "restore" /\ ReuseInv(s) /\ PortTypes /\ table[s].port \in Ports
      /\ st[s] \in {"connected", "queues", "sending"} /\ UNCHANGED <<table, phase, raced, fast>>
      /\ ks[s] \in [bound : BOOLEAN, listening : BOOLEAN, reuse : 0..2]
  BY SocketTypes
     DEF send_tcp_queue, send_unsent, repair_again, Turn, RstKeeps, PortsInv, RestorePhases, PortTypes
<1>2. table[s].kind = "conn"
  BY <1>1 DEF ReuseInv
<1>3. CASE send_tcp_queue(s)
  <2>1. /\ st[s] = "connected" /\ st' = [st EXCEPT ![s] = "queues"] /\ ks' = ks /\ users' = users
        /\ ks[s].reuse = 2
    BY <1>1, <1>2, <1>3 DEF send_tcp_queue, Turn, Steps, ReuseInv
  <2>2. ks' = [ks EXCEPT ![s].reuse = 2]
    BY <1>1, <2>1 DEF PortTypes
  <2> QED BY <1>1, <1>2, <2>1, <2>2, ReuseChanges DEF Steps0
<1>4. CASE send_unsent(s)
  <2>1. /\ st[s] = "queues" /\ st' = [st EXCEPT ![s] = "sending"] /\ users' = users
        /\ ks' = [ks EXCEPT ![s].reuse = 0]
    BY <1>4 DEF send_unsent, Turn, Steps
  <2>2. /\ 0 \in 0..2 /\ "sending" \in Steps0
        /\ users' = IF st[s] \notin {"open", "ready"} /\ "sending" \in {"open", "ready"}
                    THEN [users EXCEPT ![table[s].port] = @ - 1] ELSE users
    BY <2>1 DEF Steps0
  <2> QED BY <1>1, <1>2, <2>1, <2>2, ReuseChanges
<1>5. CASE repair_again(s)
  <2>1. /\ st[s] = "sending" /\ st' = [st EXCEPT ![s] = "open"]
        /\ users' = [users EXCEPT ![table[s].port] = @ - 1]
        /\ ks' = [ks EXCEPT ![s].reuse = 2]
    BY <1>5 DEF repair_again, Turn, Steps
  <2>2. /\ 2 \in 0..2 /\ "open" \in Steps0
        /\ users' = IF st[s] \notin {"open", "ready"} /\ "open" \in {"open", "ready"}
                    THEN [users EXCEPT ![table[s].port] = @ - 1] ELSE users
    BY <2>1 DEF Steps0
  <2> QED BY <1>1, <1>2, <2>1, <2>2, ReuseChanges
<1> QED BY <1>3, <1>4, <1>5

LEMMA PostOpenKeeps == ASSUME PortsInv, NEW s \in Sockets, post_open_inet_sk(s) PROVE PortsInv'
<1>1. /\ phase = "restore" /\ ReuseInv(s) /\ PortTypes /\ table[s].port \in Ports
      /\ st[s] = "open" /\ UNCHANGED <<table, phase, raced, fast, users>>
      /\ st' = [st EXCEPT ![s] = "ready"] /\ "ready" \in Steps0
      /\ ks[s] \in [bound : BOOLEAN, listening : BOOLEAN, reuse : 0..2]
  BY SocketTypes
     DEF post_open_inet_sk, Turn, Steps, RstKeeps, PortsInv, RestorePhases, PortTypes, Steps0
<1>2. users' = IF st[s] \notin {"open", "ready"} /\ "ready" \in {"open", "ready"}
               THEN [users EXCEPT ![table[s].port] = @ - 1] ELSE users
  BY <1>1
<1>3. CASE table[s].kind = "conn"
  <2>1. ks' = ks /\ ks[s].reuse = 2
    BY <1>1, <1>3 DEF post_open_inet_sk, ReuseInv
  <2>2. ks' = [ks EXCEPT ![s].reuse = 2]
    BY <1>1, <2>1 DEF PortTypes
  <2>3. 2 \in 0..2
    OBVIOUS
  <2> QED BY <1>1, <1>3, <1>2, <2>2, <2>3, ReuseChanges
<1>4. CASE table[s].kind # "conn" /\ table[s].reuse
  <2>1. ks' = ks /\ ks[s].reuse = 1
    BY <1>1, <1>4 DEF post_open_inet_sk, ReuseInv
  <2>2. ks' = [ks EXCEPT ![s].reuse = 1]
    BY <1>1, <2>1 DEF PortTypes
  <2>3. /\ 1 \in 0..2 /\ (1 = IF table[s].reuse THEN 1 ELSE 0)
        /\ 1 = 0 => Pending(table[s].port) = {}
    BY <1>4
  <2> QED BY <1>1, <1>4, <1>2, <2>2, <2>3, ReuseChanges
<1>5. CASE table[s].kind # "conn" /\ ~ table[s].reuse
  <2>1. users[table[s].port] = 0 /\ ks' = [ks EXCEPT ![s].reuse = 0]
    BY <1>5 DEF post_open_inet_sk, PortIsBound
  <2>2. ShareInv(table[s].port) /\ table \in Tables
    BY <1>1 DEF PortsInv, RestorePhases
  <2>3. Pending(table[s].port) = {}
    BY <2>1, <2>2, PendingFinite DEF ShareInv
  <2>4. 0 \in 0..2 /\ (0 = IF table[s].reuse THEN 1 ELSE 0)
    BY <1>5
  <2> QED BY <1>1, <1>5, <1>2, <2>1, <2>3, <2>4, ReuseChanges
<1> QED BY <1>3, <1>4, <1>5

LEMMA UnlockKeeps == ASSUME PortsInv, rst_unlock_tcp_connections PROVE PortsInv'
<1>1. /\ phase = "restore" /\ phase' = "unlocked" /\ UNCHANGED <<table, ks, fast, users, st, raced>>
      /\ \A s \in Sockets : st[s] = "ready"
  BY DEF rst_unlock_tcp_connections, rstVars
<1>2. Sockets' = Sockets /\ Ports' = Ports
  BY <1>1 DEF Sockets, Ports
<1>3. /\ PortTypes' = PortTypes
      /\ \A s \in Sockets : ReuseInv(s)' = ReuseInv(s)
      /\ \A p \in Ports : Pending(p)' = Pending(p)
  BY <1>1, <1>2 DEF PortTypes, ReuseInv, Pending
<1>4. \A p \in Ports : ShareInv(p)' = ShareInv(p)
  BY <1>1, <1>2, <1>3 DEF ShareInv
<1> QED BY <1>1, <1>2, <1>3, <1>4 DEF PortsInv, Phases, RestorePhases, PortsRestored

LEMMA RepairOffKeeps == ASSUME PortsInv, rst_tcp_repair_off PROVE PortsInv'
<1>1. /\ phase = "unlocked" /\ phase' = "done" /\ UNCHANGED <<table, st, raced>>
      /\ ks' = [s \in Sockets |-> IF s \in Conns
                 THEN [ks[s] EXCEPT !.reuse = IF table[s].reuse THEN 1 ELSE 0] ELSE ks[s]]
  BY DEF rst_tcp_repair_off
<1>2. Sockets' = Sockets
  BY <1>1 DEF Sockets
<1>3. ASSUME NEW s \in Sockets
      PROVE  /\ ks'[s].bound /\ ks'[s].listening = (table[s].kind = "listen")
             /\ ks'[s].reuse = IF table[s].reuse THEN 1 ELSE 0
  <2>1. /\ ReuseInv(s) /\ st[s] = "ready" /\ PortTypes
        /\ ks[s] \in [bound : BOOLEAN, listening : BOOLEAN, reuse : 0..2]
    BY <1>1, <1>3 DEF PortsInv, RestorePhases, PortTypes
  <2>2. CASE table[s].kind = "conn"
    <3>1. ks'[s] = [ks[s] EXCEPT !.reuse = IF table[s].reuse THEN 1 ELSE 0]
      BY <1>1, <1>3, <2>2 DEF Conns
    <3> QED BY <2>1, <2>2, <3>1 DEF ReuseInv
  <2>3. CASE table[s].kind # "conn"
    <3>1. ks'[s] = ks[s]
      BY <1>1, <1>3, <2>3 DEF Conns
    <3> QED BY <2>1, <2>3, <3>1 DEF ReuseInv
  <2> QED BY <2>2, <2>3
<1> QED BY <1>1, <1>2, <1>3 DEF PortsInv, Phases, RestorePhases, PortsRestored

-----------------------------------------------------------------------------
(* The theorem *)

LEMMA NextKeepsPorts == PortsInv /\ [Next]_vars => PortsInv'
<1> SUFFICES ASSUME PortsInv, [Next]_vars PROVE PortsInv'
  OBVIOUS
<1>1. CASE UNCHANGED vars
  BY <1>1, ElsewhereKeeps DEF vars, rstVars
<1>2. CASE Network \/ Write \/ Read \/ PeerWrite \/ PeerClose
  <2>1. UNCHANGED <<table, phase, rstVars>>
    BY <1>2 DEF Network, Transmit, PeerTransmit, Arrive, Write, Read, PeerWrite, PeerClose
  <2> QED BY <2>1, ElsewhereKeeps
<1>3. CASE DumpStep
  <2>1. UNCHANGED <<table, rstVars>> /\ phase \in DumpPhases /\ phase' \in DumpPhases
    BY <1>3 DEF DumpStep, inet_collect_one, nf_lock_connection, tcp_repair_on, dump_tcp_conn_state,
       tcp_repair_establised_failed, cpt_unlock_tcp_connections, tcp_unlock_one, Kill, DumpKeeps,
       DumpPhases
  <2> QED BY <2>1, ElsewhereKeeps
<1>4. CASE RestoreStep
  BY <1>4, CollectKeeps, UnlockKeeps, RepairOffKeeps, BindKeeps, ListenKeeps, ConnectKeeps,
     QueuesKeep, PostOpenKeeps DEF RestoreStep
<1> QED BY <1>1, <1>2, <1>3, <1>4 DEF Next

(* Whatever sockets of whatever tasks share a port, each is bound again,   *)
(* listens if it did and has its own SO_REUSEADDR at the end: no bind()    *)
(* meets an owner that refuses to share, because SO_REUSEADDR is taken     *)
(* away only when port->users is 0 and only the listener of a port spoils  *)
(* it; the one thing that can fail is a listen() beside a connection that  *)
(* is out of repair mode (sk-inet.c:439-562, sk-tcp.c:523-536).            *)
THEOREM PortsAreRestored == FairSpec => []PortsRestored
<1>1. Init => PortsInv
  BY DEF Init, PortsInv, PortsRestored, Phases, DumpPhases, RestorePhases
<1>2. PortsInv => PortsRestored
  BY DEF PortsInv
<1> QED BY <1>1, <1>2, NextKeepsPorts, PTL DEF FairSpec

=============================================================================
