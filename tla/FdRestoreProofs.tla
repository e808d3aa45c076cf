--------------------------- MODULE FdRestoreProofs ---------------------------
(***************************************************************************)
(* Whatever the files, the descriptors they are in and the order in which  *)
(* the tasks run, nobody finds a descriptor in use and everybody ends up   *)
(* with the files of the image in place.  The lists that criu builds       *)
(* before the fork are summed up in a graph; the invariant says what every *)
(* descriptor, transport and queue holds, given how far each task is in    *)
(* its plan.                                                               *)
(***************************************************************************)
EXTENDS FdRestore, FiniteSetTheorems, WellFoundedInduction, TLAPS

\* No image has a connection in flight: a stream socket that waits to be accepted,
\* with the one that is to accept it.
NoInFlight == \A s \in Systems, f \in Files : f \in s.files /\ Kind[f] = "stream" => Peer[f] \notin s.files

\* A session's leader that shares its table is the one who restores it.
LeaderOwns == \A s \in Systems : s.leader \in s.sharers => \A t \in s.sharers : s.leader <= t

Descriptors == Fds \cup {CTL_TTY}


\* p goes through the members of S, each once.
Enumerates(p, S) ==
  /\ p \in Seq(S)
  /\ \A x \in S : \E i \in 1 .. Len(p) : p[i] = x
  /\ \A i, j \in 1 .. Len(p) : p[i] = p[j] => i = j

\* The first steps of a plan.
DoneBefore(p, k) == {p[i] : i \in 1 .. k - 1}

-----------------------------------------------------------------------------
(* What the lists amount to *)

Graph ==
  [tasks |-> Tasks, sharers |-> Sharers,
   owner |-> [t \in Tasks |-> FdtPid(t)],
   fles |-> Fles(image),
   file |-> [e \in Fles(image) |-> desc(image, e)],
   master |-> [e \in Fles(image) |-> file_master(desc(image, e))],
   makers |-> {e \in Fles(image) : file_master(desc(image, e)) = e /\ create(desc(image, e))},
   ends |-> [e \in Fles(image) |-> {b \in Fles(image) :
              /\ file_master(desc(image, e)) = e /\ create(desc(image, e))
              /\ file_master(desc(image, b)) = b /\ desc(image, b) \in Siblings(desc(image, e))}],
   post |-> {e \in Fles(image) : /\ HasPostOpen(desc(image, e))
                                 /\ e = file_master(desc(image, e)) \/ e[2] = CTL_TTY},
   plan |-> [t \in Tasks |-> plan(t)]]

\* The entries that have a transport, the ones a master sends its file to, and
\* all whom it sends something to.
Wants(g, e) == g.master[e][1] # e[1] \/ (g.master[e] = e /\ e \notin g.makers)
Peers(g, m) == {x \in g.fles : g.master[x] = m /\ x[1] # m[1]}
Targets(g, m) == Peers(g, m) \cup g.ends[m]

\* The steps of a task up to the last file it receives, and the ones after it.
Early(g, t) ==
  {<<"prepare", e>> : e \in {x \in g.fles : x[1] = t /\ Wants(g, x)}}
    \cup {<<"create", e>> : e \in {x \in g.fles : x[1] = t /\ x = g.master[x]}}
    \cup {<<"receive", e>> : e \in {x \in g.fles : x[1] = t /\ g.master[x][1] # x[1]}}
Late(g, t) == {<<"post_create", e>> : e \in {x \in g.post : x[1] = t}}

GoodPlan(g, t) ==
  /\ Enumerates(g.plan[t], Early(g, t) \cup Late(g, t))
  /\ \A i, j \in 1 .. Len(g.plan[t]) :
       i < j /\ g.plan[t][i] \in Late(g, t) => g.plan[t][j] \in Late(g, t)

GoodOwners(g) ==
  /\ g.sharers \subseteq g.tasks
  /\ \A t \in g.tasks : g.owner[t] \in g.tasks /\ g.owner[g.owner[t]] = g.owner[t]
  /\ \A t \in g.tasks \ g.sharers : g.owner[t] = t
  /\ \A t, s \in g.sharers : g.owner[t] \in g.sharers /\ g.owner[t] = g.owner[s]
GoodFles(g) ==
  /\ \A e \in g.fles :
       /\ e = <<e[1], e[2]>> /\ e[1] \in g.tasks /\ g.owner[e[1]] = e[1] /\ e[2] \in Descriptors
       /\ g.file[e] \in Files /\ g.master[e] \in g.fles
       /\ g.file[g.master[e]] = g.file[e]
       /\ e[2] = CTL_TTY => e \in g.post /\ Kind[g.file[e]] = "ptmx"
  /\ \A e, x \in g.fles : g.master[e] = g.master[x] <=> g.file[e] = g.file[x]
  /\ g.post \subseteq g.fles
GoodEnds(g) ==
  /\ g.makers \subseteq g.fles
  /\ \A m \in g.makers : g.master[m] = m
  /\ \A m \in g.fles : \A b \in g.ends[m] :
       b \in g.fles /\ m \in g.makers /\ g.master[b] = b /\ b \notin g.makers
  /\ \A m, n \in g.fles : \A b \in g.ends[m] : b \in g.ends[n] => m = n
Good(g) == GoodOwners(g) /\ GoodFles(g) /\ GoodEnds(g) /\ \A t \in g.tasks : GoodPlan(g, t)

-----------------------------------------------------------------------------
(* How far the tasks are *)

Did(g, t) == DoneBefore(g.plan[t], step[t])
At(g, t) == g.plan[t][step[t]]

\* The masters that are through with their file, and those that are at it.
Created(g) == {m \in g.fles : g.master[m] = m /\ <<"create", m>> \in Did(g, m[1])}
Making(g, where) ==
  {m \in g.fles : g.master[m] = m /\ pc[m[1]] = where /\ At(g, m[1]) = <<"create", m>>}

\* The entries whose transport was opened, whose file is in the descriptor and,
\* of the service descriptors, closed again; the ones who were sent their file.
Prep(g) == {e \in g.fles : <<"prepare", e>> \in Did(g, e[1])}
Hold(g) ==
  {e \in g.fles : IF g.master[e][1] = e[1] THEN g.master[e] \in Created(g) \cup Making(g, "serve")
                  ELSE <<"receive", e>> \in Did(g, e[1])}
Shut(g) == {e \in g.fles : e[2] = CTL_TTY /\ <<"post_create", e>> \in Did(g, e[1])}
Out(g) ==
  {e \in g.fles : \E m \in g.fles :
     /\ e \in Targets(g, m)
     /\ \/ m \in Created(g)
        \/ m \in Making(g, "serve") /\ e \notin ToSet(jobs[m[1]])
        \/ m \in Making(g, "opening") /\ e \in g.ends[m] /\ e \notin ToSet(jobs[m[1]])}

-----------------------------------------------------------------------------
(* The invariant *)

StaticInv ==
  /\ sys \in Systems
  /\ image \in [Owners -> [Fds -> sys.files \cup {NoFile}]]
  /\ heads = [f \in Files |-> fd_info_head(image, f)]

\* rst is there once the tasks are.
Phase ==
  (\A t \in Tasks : pc[t] = "unborn") \/ (rst = Lists /\ \A t \in Tasks : pc[t] # "unborn")

Active == {"loop", "opening", "serve"}
TypeInv(g) ==
  /\ table \in [{t \in g.tasks : g.owner[t] = t} -> [Descriptors -> Files \cup {Free, Transport, Temporary}]]
  /\ inbox \in [g.tasks \X Descriptors -> Files \cup {NoFile}]
  /\ pc \in [g.tasks -> {"unborn", "before", "barrier", "wait", "done"} \cup Active]
  /\ step \in [g.tasks -> Nat \ {0}]
  /\ jobs \in [g.tasks -> Seq(g.fles)]
  /\ temp \in [g.tasks -> Fds \cup {NoFile}]
  /\ fdt_lock \in Nat
  /\ watched \in [Files -> SUBSET Files]
  /\ failed = {}

\* Where the tasks are in their plans, and whom they have yet to send a file to.
AtWork(g, t, m) ==
  /\ m[1] = t /\ g.master[m] = m /\ At(g, t) = <<"create", m>>
  /\ ToSet(jobs[t]) \subseteq IF pc[t] = "opening" THEN g.ends[m] ELSE Peers(g, m)
  /\ pc[t] = "opening" => m \in g.makers
  /\ pc[t] = "serve" => jobs[t] # <<>>
  /\ \A i, j \in 1 .. Len(jobs[t]) : jobs[t][i] = jobs[t][j] => i = j
PcOf(g, t) ==
  /\ pc[t] \in {"unborn", "before", "barrier", "wait"} => step[t] = 1
  /\ pc[t] \in Active => g.owner[t] = t
  /\ pc[t] \in {"barrier", "wait"} => t \in g.sharers
  /\ pc[t] = "done" /\ g.owner[t] = t => step[t] = Len(g.plan[t]) + 1
  /\ pc[t] = "loop" => step[t] <= Len(g.plan[t]) + 1
  /\ pc[t] \in {"opening", "serve"} =>
       step[t] <= Len(g.plan[t]) /\ \E m \in g.fles : AtWork(g, t, m)
PcInv(g) == \A t \in g.tasks : PcOf(g, t)

\* fdt_lock counts the sharers that came to prepare_fds(), and the one that left.
Entered(g) == {s \in g.sharers : pc[s] \notin {"unborn", "before"}}
TableDone(g) == \E s \in g.sharers : g.owner[s] = s /\ pc[s] = "done"
ShareInv(g) ==
  /\ fdt_lock = Cardinality(Entered(g)) + (IF TableDone(g) THEN 1 ELSE 0)
  /\ \A s \in g.sharers : pc[s] \in Active \cup {"wait", "done"} => Entered(g) = g.sharers
  /\ \A s \in g.sharers : pc[s] = "done" => pc[g.owner[s]] = "done"
  /\ \A t \in g.tasks : temp[t] # NoFile => t \in g.sharers /\ pc[t] \in {"before", "done"}
  /\ \A t, s \in g.tasks : temp[t] # NoFile /\ temp[t] = temp[s] => t = s

\* What is in the descriptors: what a sharer uses itself, or what the protocol
\* has left there, given the sets of entries above.
TempAt(g, o, fd) == \E s \in g.sharers : g.owner[s] = o /\ temp[s] # NoFile /\ temp[s] = fd
Content(g, P, H, S, e) ==
  IF e \notin g.fles THEN Free
  ELSE IF e \in H THEN IF e \in S THEN Free ELSE g.file[e]
  ELSE IF e \in P THEN Transport ELSE Free
Tables(g, P, H, S) ==
  \A o \in {t \in g.tasks : g.owner[t] = t}, fd \in Descriptors :
    IF TempAt(g, o, fd) THEN table[o][fd] = Temporary /\ Content(g, P, H, S, <<o, fd>>) = Free
    ELSE table[o][fd] = Content(g, P, H, S, <<o, fd>>)

\* What is queued on the transports.
Queues(g, P, H, O) ==
  /\ real_pid = P
  /\ \A e \in g.fles : inbox[e] = IF e \in O \ H THEN g.file[e] ELSE NoFile
  /\ O \subseteq P
  /\ \A e \in H : Wants(g, e) => e \in O

CttyInv(g) == \A e \in Shut(g) : e[1] \in ctty

Inv0(g) ==
  /\ TypeInv(g) /\ PcInv(g) /\ ShareInv(g)
  /\ Tables(g, Prep(g), Hold(g), Shut(g))
  /\ Queues(g, Prep(g), Hold(g), Out(g))
  /\ CttyInv(g)
Inv == StaticInv /\ Phase /\ \E g \in {Graph} : Inv0(g)

-----------------------------------------------------------------------------
(* Numbers *)

\* A set of numbers has a least one.
LEMMA LeastNat ==
  ASSUME NEW T \in SUBSET Nat, T # {}
  PROVE  \E n \in T : \A m \in T : n <= m
<1>1. PICK n \in T : \A m \in T : <<m, n>> \notin OpToRel(<, Nat)
  BY WFMin, NatLessThanWellFounded
<1>2. \A m \in T : ~ (m < n)
  BY <1>1 DEF OpToRel
<1> QED BY <1>2

\* Induction, over the set of the numbers for which the claim holds.
LEMMA Induct ==
  ASSUME NEW T, 0 \in T, \A n \in Nat : n \in T => n + 1 \in T
  PROVE  Nat \subseteq T
<1> SUFFICES ASSUME ~ (Nat \subseteq T) PROVE FALSE
  OBVIOUS
<1>1. PICK n \in Nat \ T : \A m \in Nat \ T : n <= m
  BY LeastNat
<1>2. n # 0 /\ n - 1 \in Nat /\ n - 1 \in T
  BY <1>1
<1> QED BY <1>2

\* A function on a finite set has a greatest value.
LEMMA FiniteMax ==
  ASSUME NEW S, IsFiniteSet(S), S # {}, NEW f \in [S -> Nat]
  PROVE  \E u \in S : \A w \in S : f[w] <= f[u]
<1> DEFINE Top(R) == \E u \in R : \A w \in R : f[w] <= f[u]
           T == {n \in Nat : \A R \in SUBSET S : Cardinality(R) = n /\ R # {} => Top(R)}
<1>1. \A R \in SUBSET S : IsFiniteSet(R) /\ Cardinality(R) \in Nat
  BY FS_Subset, FS_CardinalityType
<1>2. 0 \in T
  <2>1. \A R \in SUBSET S : Cardinality(R) = 0 => R = {}
    BY <1>1, FS_EmptySet
  <2> QED BY <2>1
<1>3. ASSUME NEW n \in Nat, n \in T PROVE n + 1 \in T
  <2> SUFFICES ASSUME NEW R \in SUBSET S, Cardinality(R) = n + 1 PROVE Top(R)
    OBVIOUS
  <2>1. PICK x : x \in R
    BY <1>1, FS_EmptySet
  <2>2. PICK Q \in SUBSET S : Q = R \ {x} /\ Cardinality(Q) = n
    <3>1. IsFiniteSet(R)
      BY <1>1
    <3>2. Cardinality(R \ {x}) = Cardinality(R) - 1
      BY ONLY <2>1, <3>1, FS_RemoveElement
    <3>3. Cardinality(R \ {x}) = n
      BY <3>2
    <3> QED BY <3>3
  <2>3. CASE Q = {}
    <3>1. \A w \in R : w = x /\ f[w] \in Nat
      BY <2>2, <2>3
    <3> QED BY <2>1, <3>1
  <2>4. CASE Q # {}
    <3>1. Top(Q)
      BY <1>3, <2>2, <2>4
    <3>2. PICK u \in Q : \A w \in Q : f[w] <= f[u]
      BY <3>1
    <3>3. f[u] \in Nat /\ f[x] \in Nat /\ u \in R /\ \A w \in R : f[w] \in Nat /\ (w = x \/ w \in Q)
      BY <2>1, <2>2
    <3>4. CASE f[x] <= f[u]
      <4>1. \A w \in R : f[w] <= f[u]
        BY <3>2, <3>3, <3>4
      <4> QED BY <3>3, <4>1
    <3>5. CASE f[u] <= f[x]
      <4>1. \A w \in R : f[w] <= f[x]
        BY <3>2, <3>3, <3>5
      <4> QED BY <2>1, <4>1
    <3> QED BY <3>3, <3>4, <3>5
  <2> QED BY <2>3, <2>4
<1>4. \A n \in Nat : n \in T
  <2> HIDE DEF T
  <2>1. Nat \subseteq T
    BY <1>2, <1>3, Induct
  <2> QED BY <2>1
<1>5. Cardinality(S) \in T /\ S \in SUBSET S
  BY <1>1, <1>4
<1> QED BY <1>5


-----------------------------------------------------------------------------
(* Lists *)

\* fdinfo_rst_prio() is a strict linear order on entries.
LEMMA PrioOrder ==
  ASSUME NEW a \in Nat \X Nat, NEW b \in Nat \X Nat
  PROVE  /\ ~ fdinfo_rst_prio(a, a)
         /\ ~ (fdinfo_rst_prio(a, b) /\ fdinfo_rst_prio(b, a))
         /\ a # b => fdinfo_rst_prio(a, b) \/ fdinfo_rst_prio(b, a)
         /\ \A c \in Nat \X Nat : fdinfo_rst_prio(a, b) /\ fdinfo_rst_prio(b, c) => fdinfo_rst_prio(a, c)
  BY DEF fdinfo_rst_prio, pid_rst_prio

\* A sorted list of entries has each of them once.
LEMMA SortedEnumerates ==
  ASSUME NEW S, S \subseteq Nat \X Nat, IsFiniteSet(S)
  PROVE  Enumerates(Sorted(S), S)
<1> DEFINE Below(e) == {b \in S : fdinfo_rst_prio(b, e)}
           r == [e \in S |-> Cardinality(Below(e))]
           n == Cardinality(S)
<1>1. n \in Nat
  BY FS_CardinalityType
<1>2. \A e \in S : /\ IsFiniteSet(Below(e)) /\ Cardinality(Below(e)) \in Nat
                   /\ Cardinality(Below(e)) <= n /\ Cardinality(Below(e)) # n
  <2> SUFFICES ASSUME NEW e \in S
               PROVE  /\ IsFiniteSet(Below(e)) /\ Cardinality(Below(e)) \in Nat
                      /\ Cardinality(Below(e)) <= n /\ Cardinality(Below(e)) # n
    OBVIOUS
  <2>1. Below(e) \in SUBSET S /\ e \notin Below(e)
    BY PrioOrder
  <2>2. Below(e) # S
    BY <2>1
  <2> HIDE DEF Below
  <2>3. IsFiniteSet(Below(e)) /\ Cardinality(Below(e)) <= n /\ (n = Cardinality(Below(e)) => S = Below(e))
    BY <2>1, FS_Subset
  <2> QED BY <2>2, <2>3, FS_CardinalityType
<1>3. r \in [S -> 0 .. n - 1]
  <2> HIDE DEF Below, n
  <2>1. \A e \in S : Cardinality(Below(e)) \in 0 .. n - 1
    BY <1>1, <1>2
  <2> QED BY <2>1
<1>4. \A a, b \in S : fdinfo_rst_prio(a, b) => r[a] # r[b]
  <2> SUFFICES ASSUME NEW a \in S, NEW b \in S, fdinfo_rst_prio(a, b) PROVE r[a] # r[b]
    OBVIOUS
  <2>1. Below(a) \in SUBSET Below(b) /\ a \in Below(b) /\ a \notin Below(a)
    BY PrioOrder
  <2>2. Below(a) # Below(b)
    BY <2>1
  <2>3. IsFiniteSet(Below(b)) /\ r[a] = Cardinality(Below(a)) /\ r[b] = Cardinality(Below(b))
    BY <1>2
  <2> HIDE DEF Below, r
  <2>4. Cardinality(Below(b)) = Cardinality(Below(a)) => Below(b) = Below(a)
    BY <2>1, <2>3, FS_Subset
  <2> QED BY <2>2, <2>3, <2>4
<1>5. \A a, b \in S : r[a] = r[b] => a = b
  <2> HIDE DEF r
  <2> QED BY <1>4, PrioOrder
<1>6. \A i \in 1 .. n : \E e \in S : r[e] = i - 1
  <2> HIDE DEF r, n
  <2>1. r \in Injection(S, 0 .. n - 1)
    BY <1>3, <1>5 DEF Injection, IsInjective
  <2>2. IsFiniteSet(0 .. n - 1) /\ Cardinality(0 .. n - 1) = n
    <3>1. 0 \in Int /\ n - 1 \in Int /\ IF 0 > n - 1 THEN n = 0 ELSE n - 1 - 0 + 1 = n
      BY <1>1
    <3>2. IsFiniteSet(0 .. n - 1) /\ Cardinality(0 .. n - 1) = IF 0 > n - 1 THEN 0 ELSE n - 1 - 0 + 1
      BY <3>1, FS_Interval
    <3> QED BY <3>1, <3>2
  <2>3. r \in Surjection(S, 0 .. n - 1)
    <3>1. Cardinality(S) = n
      BY DEF n
    <3> QED BY <2>1, <2>2, <3>1, FS_Injection
  <2> QED BY <1>1, <2>3 DEF Surjection
<1>7. \A i \in 1 .. n : Sorted(S)[i] \in S /\ r[Sorted(S)[i]] = i - 1
  <2> SUFFICES ASSUME NEW i \in 1 .. n PROVE Sorted(S)[i] \in S /\ r[Sorted(S)[i]] = i - 1
    OBVIOUS
  <2>1. Sorted(S)[i] = CHOOSE e \in S : Cardinality(Below(e)) = i - 1
    BY DEF Sorted
  <2>2. \E e \in S : Cardinality(Below(e)) = i - 1
    BY <1>6
  <2>3. Sorted(S)[i] \in S /\ Cardinality(Below(Sorted(S)[i])) = i - 1
    <3> HIDE DEF Below
    <3> QED BY <2>1, <2>2
  <2> QED BY <2>3
<1>8. Sorted(S) \in Seq(S) /\ Len(Sorted(S)) = n
  <2>1. Sorted(S) = [i \in 1 .. n |-> Sorted(S)[i]]
    BY SMTT(30) DEF Sorted
  <2> HIDE DEF n, r
  <2>2. Sorted(S) \in [1 .. n -> S]
    BY <1>7, <2>1
  <2> QED BY <1>1, <2>2
<1>9. \A x \in S : \E i \in 1 .. n : Sorted(S)[i] = x
  <2> HIDE DEF n, r
  <2> SUFFICES ASSUME NEW x \in S PROVE \E i \in 1 .. n : Sorted(S)[i] = x
    OBVIOUS
  <2>1. PICK v \in 0 .. n - 1 : v = r[x]
    BY <1>3
  <2>2. PICK i \in 1 .. n : i - 1 = v
    <3>1. v + 1 \in 1 .. n /\ v + 1 - 1 = v
      BY ONLY <1>1, v \in 0 .. n - 1
    <3> QED BY ONLY <3>1
  <2>3. Sorted(S)[i] \in S /\ r[Sorted(S)[i]] = r[x]
    BY ONLY <1>7, <2>1, <2>2
  <2> QED BY <1>5, <2>3
<1>10. \A i, j \in 1 .. n : Sorted(S)[i] = Sorted(S)[j] => i = j
  <2> HIDE DEF n, r
  <2>1. \A i, j \in 1 .. n : i - 1 = j - 1 => i = j
    BY <1>1
  <2> QED BY <1>7, <2>1
<1> HIDE DEF n, r
<1> QED BY <1>8, <1>9, <1>10 DEF Enumerates

\* One list after another.
LEMMA ConcatEnumerates ==
  ASSUME NEW S, NEW T, NEW p, NEW q, Enumerates(p, S), Enumerates(q, T), S \cap T = {}
  PROVE  /\ Enumerates(p \o q, S \cup T)
         /\ \A i, j \in 1 .. Len(p \o q) : i < j /\ (p \o q)[i] \in T => (p \o q)[j] \in T
<1>1. p \in Seq(S) /\ q \in Seq(T)
  BY DEF Enumerates
<1>2. PICK m \in Nat, n \in Nat : m = Len(p) /\ n = Len(q)
  BY <1>1
<1> DEFINE c == p \o q
<1>3. /\ Len(c) = m + n
      /\ \A i \in 1 .. m : c[i] = p[i] /\ c[i] \in S
      /\ \A i \in 1 .. m + n : i > m => c[i] = q[i - m] /\ i - m \in 1 .. n /\ c[i] \in T
  BY <1>1, <1>2
<1>4. \A i \in 1 .. n : m + i \in 1 .. m + n /\ c[m + i] = q[i]
  BY <1>1, <1>2
<1>5. \A i \in 1 .. m : i \in 1 .. m + n
  BY <1>2
<1>6. c \in Seq(S \cup T)
  <2>1. p \in Seq(S \cup T) /\ q \in Seq(S \cup T)
    <3>1. p \in [1 .. m -> S] /\ q \in [1 .. n -> T]
      BY <1>1, <1>2
    <3>2. p \in [1 .. m -> S \cup T] /\ q \in [1 .. n -> S \cup T]
      BY <3>1
    <3> QED BY <1>2, <3>2
  <2> QED BY <2>1
<1> HIDE DEF c
<1>7. \A x \in S \cup T : \E i \in 1 .. m + n : c[i] = x
  <2> SUFFICES ASSUME NEW x \in S \cup T PROVE \E i \in 1 .. m + n : c[i] = x
    OBVIOUS
  <2>1. CASE x \in S
    <3>1. PICK i \in 1 .. m : p[i] = x
      BY <1>2, <2>1 DEF Enumerates
    <3> QED BY <1>3, <1>5, <3>1
  <2>2. CASE x \in T
    <3>1. PICK i \in 1 .. n : q[i] = x
      BY <1>2, <2>2 DEF Enumerates
    <3> QED BY <1>4, <3>1
  <2> QED BY <2>1, <2>2
<1>8. \A i, j \in 1 .. m + n : c[i] = c[j] => i = j
  <2> SUFFICES ASSUME NEW i \in 1 .. m + n, NEW j \in 1 .. m + n, c[i] = c[j] PROVE i = j
    OBVIOUS
  <2>1. CASE i <= m
    <3>1. i \in 1 .. m /\ c[i] = p[i] /\ c[i] \in S
      BY <1>2, <1>3, <2>1
    <3>2. j <= m
      <4>1. j > m => c[j] \in T
        BY <1>3
      <4> QED BY <1>2, <3>1, <4>1
    <3>3. j \in 1 .. m /\ c[j] = p[j]
      BY <1>2, <1>3, <3>2
    <3> QED BY <1>2, <3>1, <3>3 DEF Enumerates
  <2>2. CASE i > m
    <3>1. i - m \in 1 .. n /\ c[i] = q[i - m] /\ c[i] \in T
      BY <1>2, <1>3, <2>2
    <3>2. j > m
      <4>1. j <= m => j \in 1 .. m
        BY <1>2
      <4>2. j <= m => c[j] \in S
        BY <1>3, <4>1
      <4> QED BY <1>2, <3>1, <4>2
    <3>3. j - m \in 1 .. n /\ c[j] = q[j - m]
      BY <1>2, <1>3, <3>2
    <3>4. i - m = j - m
      BY <1>2, <3>1, <3>3 DEF Enumerates
    <3> QED BY <1>2, <3>4
  <2> QED BY <1>2, <2>1, <2>2
<1>9. \A i, j \in 1 .. m + n : i < j /\ c[i] \in T => c[j] \in T
  <2> SUFFICES ASSUME NEW i \in 1 .. m + n, NEW j \in 1 .. m + n, i < j, c[i] \in T PROVE c[j] \in T
    OBVIOUS
  <2>1. ~ (i \in 1 .. m)
    BY <1>3
  <2>2. j > m
    BY <1>2, <2>1
  <2> QED BY <1>3, <2>2
<1>10. Len(c) = m + n
  BY <1>3
<1>11. c = p \o q
  BY DEF c
<1> QED BY <1>6, <1>7, <1>8, <1>9, <1>10, <1>11 DEF Enumerates

\* The steps for the entries of a list.
LEMMA TagEnumerates ==
  ASSUME NEW S, NEW p, NEW c, Enumerates(p, S)
  PROVE  Enumerates([i \in DOMAIN p |-> <<c, p[i]>>], {<<c, x>> : x \in S})
<1> DEFINE q == [i \in DOMAIN p |-> <<c, p[i]>>]
           T == {<<c, x>> : x \in S}
<1>1. p \in Seq(S) /\ DOMAIN p = 1 .. Len(p) /\ Len(p) \in Nat
  BY DEF Enumerates
<1>2. \A i \in 1 .. Len(p) : p[i] \in S
  BY <1>1
<1>3. q \in [1 .. Len(p) -> T]
  BY <1>1, <1>2
<1>4. q \in Seq(T) /\ Len(q) = Len(p)
  <2> HIDE DEF q, T
  <2> QED BY <1>1, <1>3
<1>5. \A x \in T : \E i \in 1 .. Len(p) : q[i] = x
  <2> SUFFICES ASSUME NEW x \in T PROVE \E i \in 1 .. Len(p) : q[i] = x
    OBVIOUS
  <2>1. PICK y \in S : x = <<c, y>>
    OBVIOUS
  <2>2. PICK i \in 1 .. Len(p) : p[i] = y
    BY DEF Enumerates
  <2> QED BY <1>1, <2>1, <2>2
<1>6. \A i, j \in 1 .. Len(p) : q[i] = q[j] => i = j
  BY <1>1 DEF Enumerates
<1> HIDE DEF q, T
<1>7. Enumerates(q, T)
  BY <1>4, <1>5, <1>6 DEF Enumerates
<1> QED BY <1>7 DEF q, T

\* The first of a list that is not empty is one of its members.
LEMMA EnumeratesHead ==
  ASSUME NEW S, NEW p, Enumerates(p, S)
  PROVE  /\ p = <<>> <=> S = {}
         /\ S # {} => Head(p) \in S
         /\ ToSet(p) = S
<1>1. p \in Seq(S) /\ Len(p) \in Nat /\ DOMAIN p = 1 .. Len(p)
  BY DEF Enumerates
<1>2. \A i \in 1 .. Len(p) : p[i] \in S
  BY <1>1
<1>3. ToSet(p) = S
  BY <1>1, <1>2 DEF ToSet, Enumerates
<1>4. S # {} => Len(p) # 0
  BY <1>1 DEF Enumerates
<1>5. S = {} => Len(p) = 0
  <2> SUFFICES ASSUME Len(p) # 0 PROVE S # {}
    OBVIOUS
  <2>1. 1 \in 1 .. Len(p)
    BY <1>1
  <2> QED BY <1>2, <2>1
<1>6. p = <<>> <=> Len(p) = 0
  BY <1>1
<1>7. Len(p) # 0 => Head(p) = p[1] /\ 1 \in 1 .. Len(p)
  BY <1>1
<1> QED BY <1>2, <1>3, <1>4, <1>5, <1>6, <1>7

\* Sending to the first of a list leaves the others.
LEMMA TailOfList ==
  ASSUME NEW S, NEW p \in Seq(S), p # <<>>, \A i, j \in 1 .. Len(p) : p[i] = p[j] => i = j
  PROVE  /\ Head(p) \in ToSet(p) /\ Head(p) \in S
         /\ Tail(p) \in Seq(S)
         /\ ToSet(Tail(p)) = ToSet(p) \ {Head(p)}
         /\ \A i, j \in 1 .. Len(Tail(p)) : Tail(p)[i] = Tail(p)[j] => i = j
         /\ Len(p) = 1 <=> Tail(p) = <<>>
<1>1. PICK n \in Nat : n = Len(p) /\ n # 0 /\ DOMAIN p = 1 .. n
  OBVIOUS
<1>2. Head(p) = p[1] /\ 1 \in 1 .. n /\ \A i \in 1 .. n : p[i] \in S
  BY <1>1
<1>3. Tail(p) \in Seq(S) /\ Len(Tail(p)) = n - 1 /\ \A i \in 1 .. n - 1 : Tail(p)[i] = p[i + 1]
  BY <1>1
<1>4. DOMAIN Tail(p) = 1 .. n - 1
  BY <1>3
<1>5. \A i \in 1 .. n - 1 : i + 1 \in 1 .. n /\ i + 1 # 1
  BY <1>1
<1>6. \A i \in 1 .. n : i # 1 => i - 1 \in 1 .. n - 1 /\ i - 1 + 1 = i
  BY <1>1
<1>7. ToSet(Tail(p)) = ToSet(p) \ {Head(p)}
  <2>1. \A x \in ToSet(Tail(p)) : x \in ToSet(p) /\ x # Head(p)
    <3> SUFFICES ASSUME NEW i \in 1 .. n - 1 PROVE Tail(p)[i] \in ToSet(p) /\ Tail(p)[i] # Head(p)
      BY <1>4 DEF ToSet
    <3>1. PICK j \in 1 .. n : j = i + 1 /\ j # 1
      BY <1>5
    <3>2. Tail(p)[i] = p[j]
      BY <1>3, <3>1
    <3> QED BY <1>1, <1>2, <3>1, <3>2 DEF ToSet
  <2>2. \A x \in ToSet(p) : x # Head(p) => x \in ToSet(Tail(p))
    <3> SUFFICES ASSUME NEW i \in 1 .. n, i # 1 PROVE p[i] \in ToSet(Tail(p))
      BY <1>1, <1>2 DEF ToSet
    <3>1. PICK j \in 1 .. n - 1 : j + 1 = i
      BY <1>6
    <3>2. Tail(p)[j] = p[i]
      BY <1>3, <3>1
    <3> QED BY <1>4, <3>2 DEF ToSet
  <2> QED BY <2>1, <2>2
<1>8. \A i, j \in 1 .. n - 1 : Tail(p)[i] = Tail(p)[j] => i = j
  <2> SUFFICES ASSUME NEW i \in 1 .. n - 1, NEW j \in 1 .. n - 1, Tail(p)[i] = Tail(p)[j] PROVE i = j
    OBVIOUS
  <2>1. PICK k \in 1 .. n, l \in 1 .. n : k = i + 1 /\ l = j + 1
    BY <1>5
  <2>2. p[k] = p[l]
    BY <1>3, <2>1
  <2>3. k = l
    BY <1>1, <2>2
  <2> QED BY <1>1, <2>1, <2>3
<1>9. Len(p) = 1 <=> Tail(p) = <<>>
  <2>1. Tail(p) = <<>> <=> Len(Tail(p)) = 0
    BY <1>3
  <2> QED BY <1>1, <1>3, <2>1
<1> QED BY <1>1, <1>2, <1>3, <1>7, <1>8, <1>9 DEF ToSet

\* How a task gets through its plan, the steps S first and then the steps T.
LEMMA Progress ==
  ASSUME NEW S, NEW T, S \cap T = {}, NEW p, Enumerates(p, S \cup T), NEW k \in Nat \ {0},
         \A i, j \in 1 .. Len(p) : i < j /\ p[i] \in T => p[j] \in T
  PROVE  /\ k = 1 => DoneBefore(p, k) = {}
         /\ k <= Len(p) + 1 => DoneBefore(p, k) \subseteq S \cup T
         /\ k <= Len(p) => /\ p[k] \in (S \cup T) \ DoneBefore(p, k)
                           /\ DoneBefore(p, k + 1) = DoneBefore(p, k) \cup {p[k]}
                           /\ p[k] \in S => DoneBefore(p, k) \cap T = {}
                           /\ p[k] \in T => S \subseteq DoneBefore(p, k)
         /\ k > Len(p) => S \cup T \subseteq DoneBefore(p, k)
<1>1. PICK n \in Nat : n = Len(p) /\ \A i \in 1 .. n : p[i] \in S \cup T
  BY DEF Enumerates
<1>2. \A x \in S \cup T : \E i \in 1 .. n : p[i] = x
  BY <1>1 DEF Enumerates
<1>3. \A i, j \in 1 .. n : p[i] = p[j] => i = j
  BY <1>1 DEF Enumerates
<1>4. \A x : x \in DoneBefore(p, k) <=> \E i \in 1 .. k - 1 : p[i] = x
  BY DEF DoneBefore
<1>5. k = 1 => DoneBefore(p, k) = {}
  BY DEF DoneBefore
<1>6. k <= n + 1 => \A i \in 1 .. k - 1 : i \in 1 .. n
  BY <1>1
<1>7. k <= n + 1 => DoneBefore(p, k) \subseteq S \cup T
  BY <1>1, <1>4, <1>6
<1>8. k > n => S \cup T \subseteq DoneBefore(p, k)
  <2>1. k > n => \A i \in 1 .. n : i \in 1 .. k - 1
    BY <1>1
  <2> QED BY <1>2, <1>4, <2>1
<1>9. ASSUME k <= n
      PROVE  /\ p[k] \in (S \cup T) \ DoneBefore(p, k)
             /\ DoneBefore(p, k + 1) = DoneBefore(p, k) \cup {p[k]}
             /\ p[k] \in S => DoneBefore(p, k) \cap T = {}
             /\ p[k] \in T => S \subseteq DoneBefore(p, k)
  <2>1. k \in 1 .. n /\ \A i \in 1 .. k - 1 : i \in 1 .. n /\ i < k /\ i # k
    BY <1>1, <1>9
  <2>2. p[k] \in S \cup T /\ p[k] \notin DoneBefore(p, k)
    BY <1>1, <1>3, <1>4, <2>1
  <2>3. \A i : i \in 1 .. k + 1 - 1 <=> i \in 1 .. k - 1 \/ i = k
    BY <2>1
  <2>4. DoneBefore(p, k + 1) = DoneBefore(p, k) \cup {p[k]}
    BY <2>3 DEF DoneBefore
  <2>5. p[k] \in S => DoneBefore(p, k) \cap T = {}
    BY <1>1, <1>4, <2>1
  <2>6. p[k] \in T => S \subseteq DoneBefore(p, k)
    <3> SUFFICES ASSUME p[k] \in T, NEW x \in S PROVE x \in DoneBefore(p, k)
      OBVIOUS
    <3>1. PICK i \in 1 .. n : p[i] = x
      BY <1>2
    <3>2. i # k /\ ~ (k < i)
      BY <1>1, <2>1, <3>1
    <3>3. i \in 1 .. k - 1
      BY <2>1, <3>2
    <3> QED BY <1>4, <3>1, <3>3
  <2> QED BY <2>2, <2>4, <2>5, <2>6
<1> QED BY <1>1, <1>5, <1>7, <1>8, <1>9

-----------------------------------------------------------------------------
(* Descriptors and tables *)

LEMMA Constants ==
  /\ Pids \subseteq Nat \ {0} /\ IsFiniteSet(Pids)
  /\ Fds \subseteq Nat /\ IsFiniteSet(Fds)
  /\ NoFile \notin Files /\ NoFile \notin Fds
  /\ Free \notin Files /\ Transport \notin Files /\ Temporary \notin Files
  /\ Kind \in [Files -> Kinds]
  /\ Group \in [Files -> Nat]
  /\ Peer \in [Files -> Files \cup {NoFile}]
  BY FdRestoreAssumption

\* The service descriptor is not one of the image's.
LEMMA ServiceFd ==
  /\ CTL_TTY \in Nat /\ CTL_TTY \notin Fds
  /\ Descriptors \subseteq Nat /\ IsFiniteSet(Descriptors)
<1>1. CTL_TTY \in Nat /\ CTL_TTY \notin Fds
  <2>1. CASE Fds = {}
    BY <2>1 DEF CTL_TTY
  <2>2. CASE Fds # {}
    <3> DEFINE id == [x \in Fds |-> x]
    <3>1. id \in [Fds -> Nat] /\ \A x \in Fds : id[x] = x
      BY Constants
    <3>2. PICK u \in Fds : \A w \in Fds : id[w] <= id[u]
      <4> HIDE DEF id
      <4> QED BY <2>2, <3>1, Constants, FiniteMax
    <3>3. \A w \in Fds : u >= w
      BY <3>1, <3>2, Constants
    <3>4. Max(Fds) \in Fds /\ \A w \in Fds : Max(Fds) >= w
      BY <3>3 DEF Max
    <3>5. PICK v \in Fds : v = Max(Fds) /\ \A w \in Fds : v >= w
      BY <3>4
    <3>6. CTL_TTY = v + 1
      BY <2>2, <3>5 DEF CTL_TTY
    <3>7. v \in Nat /\ v + 1 \in Nat /\ ~ (v >= v + 1)
      BY <3>5, Constants
    <3> QED BY <3>5, <3>6, <3>7
  <2> QED BY <2>1, <2>2
<1> QED BY <1>1, Constants, FS_AddElement DEF Descriptors

\* Every table has one task that restores it.
LEMMA TableOwners ==
  ASSUME sys \in Systems
  PROVE  /\ Tasks \subseteq Nat \ {0} /\ IsFiniteSet(Tasks) /\ Sharers \subseteq Tasks /\ IsFiniteSet(Sharers)
         /\ \A t \in Tasks \ Sharers : FdtPid(t) = t
         /\ \A t, s \in Sharers : FdtPid(t) \in Sharers /\ FdtPid(t) = FdtPid(s) /\ FdtPid(t) <= s
         /\ \A t \in Tasks : FdtPid(t) \in Tasks /\ FdtPid(FdtPid(t)) = FdtPid(t)
         /\ \A t : t \in Owners <=> t \in Tasks /\ FdtPid(t) = t
<1>1. Tasks \subseteq Pids /\ Sharers \subseteq Tasks
  BY FdRestoreAssumption DEF Tasks, Sharers
<1>2. Tasks \subseteq Nat \ {0} /\ IsFiniteSet(Tasks) /\ IsFiniteSet(Sharers)
  BY <1>1, Constants, FS_Subset
<1>3. \A t \in Tasks \ Sharers : FdtPid(t) = t
  BY DEF FdtPid
<1>4. ASSUME Sharers # {}
      PROVE  \E o \in Sharers : (\A t \in Sharers : FdtPid(t) = o) /\ (\A s \in Sharers : o <= s)
  <2>1. PICK o \in Sharers : \A s \in Sharers : o <= s
    BY <1>1, <1>2, <1>4, LeastNat
  <2>2. \A s \in Sharers \ {o} : pid_rst_prio(o, s)
    BY <1>1, <1>2, <2>1 DEF pid_rst_prio
  <2>3. \A c \in Sharers : (\A s \in Sharers \ {c} : pid_rst_prio(c, s)) => c = o
    BY <1>1, <1>2, <2>1 DEF pid_rst_prio
  <2>4. \A t \in Sharers : FdtPid(t) = o
    BY <2>2, <2>3 DEF FdtPid
  <2> QED BY <2>1, <2>4
<1>5. \A t, s \in Sharers : FdtPid(t) \in Sharers /\ FdtPid(t) = FdtPid(s) /\ FdtPid(t) <= s
  BY <1>4
<1>6. \A t \in Tasks : FdtPid(t) \in Tasks /\ FdtPid(FdtPid(t)) = FdtPid(t)
  BY <1>1, <1>3, <1>5
<1>7. \A t : t \in Owners <=> t \in Tasks /\ FdtPid(t) = t
  BY <1>6 DEF Owners
<1> QED BY <1>1, <1>2, <1>3, <1>5, <1>6, <1>7

\* A session's leader restores the table it uses.
LEMMA LeaderOwner ==
  ASSUME sys \in Systems, LeaderOwns, leader # 0
  PROVE  leader \in Owners
<1>1. leader \in Tasks
  BY FdRestoreAssumption DEF leader, Tasks
<1>2. CASE leader \in Sharers
  <2>1. \A t \in Sharers : leader <= t
    BY <1>2 DEF LeaderOwns, leader, Sharers
  <2>2. FdtPid(leader) \in Sharers /\ FdtPid(leader) <= leader
    BY <1>2, TableOwners
  <2>3. FdtPid(leader) \in Nat /\ leader \in Nat
    BY <1>1, <2>2, TableOwners
  <2>4. FdtPid(leader) = leader
    BY <2>1, <2>2, <2>3
  <2> QED BY <1>1, <2>4, TableOwners
<1>3. CASE leader \notin Sharers
  BY <1>1, <1>3, TableOwners
<1> QED BY <1>2, <1>3

\* The entries, and the files they are for.
LEMMA EntryFacts ==
  ASSUME StaticInv, LeaderOwns
  PROVE  /\ Fles(image) \subseteq Owners \X Descriptors
         /\ Fles(image) \subseteq Nat \X Nat /\ IsFiniteSet(Fles(image))
         /\ \A e \in Fles(image) : desc(image, e) \in Files
         /\ \A e \in Fles(image) : e[2] = CTL_TTY => Kind[desc(image, e)] = "ptmx"
         /\ \A o \in Owners, fd \in Fds :
              /\ <<o, fd>> \in Fles(image) <=> image[o][fd] # NoFile
              /\ desc(image, <<o, fd>>) = image[o][fd]
         /\ PtmxOf(image) # {} => leader # 0 /\ <<leader, CTL_TTY>> \in Fles(image)
<1>1. sys \in Systems /\ image \in [Owners -> [Fds -> Files \cup {NoFile}]]
  <2>1. sys \in Systems /\ image \in [Owners -> [Fds -> sys.files \cup {NoFile}]]
    BY DEF StaticInv
  <2>2. sys.files \subseteq Files
    BY <2>1, FdRestoreAssumption
  <2>3. sys.files \cup {NoFile} \subseteq Files \cup {NoFile}
    BY <2>2
  <2> QED BY <2>1, <2>3
<1>2. PtmxOf(image) # {} => leader # 0
  BY DEF PtmxOf
<1>3. \A e \in Fles(image) : \/ e \in Owners \X Fds /\ image[e[1]][e[2]] # NoFile
                             \/ PtmxOf(image) # {} /\ e = <<leader, CTL_TTY>>
  BY DEF Fles
<1>4. Fles(image) \subseteq Owners \X Descriptors
  <2>1. PtmxOf(image) # {} => leader \in Owners
    BY <1>1, <1>2, LeaderOwner
  <2> QED BY <1>3, <2>1 DEF Descriptors
<1>5. Owners \subseteq Nat /\ IsFiniteSet(Owners)
  <2>1. Owners \subseteq Tasks
    BY <1>1, TableOwners
  <2> QED BY <1>1, <2>1, TableOwners, FS_Subset
<1>6. Fles(image) \subseteq Nat \X Nat
  BY <1>4, <1>5, ServiceFd
<1>7. IsFiniteSet(Fles(image))
  <2>1. IsFiniteSet(Owners \X Descriptors)
    BY <1>5, ServiceFd, FS_Product
  <2> QED BY <1>4, <2>1, FS_Subset
<1>8. \A o \in Owners, fd \in Fds : desc(image, <<o, fd>>) = image[o][fd]
  BY ServiceFd DEF desc
<1>9. \A o \in Owners, fd \in Fds : <<o, fd>> \in Fles(image) <=> image[o][fd] # NoFile
  <2> SUFFICES ASSUME NEW o \in Owners, NEW fd \in Fds PROVE <<o, fd>> \in Fles(image) <=> image[o][fd] # NoFile
    OBVIOUS
  <2>1. <<o, fd>> # <<leader, CTL_TTY>>
    BY ServiceFd
  <2> QED BY <2>1 DEF Fles
<1>10. ASSUME PtmxOf(image) # {}, NEW e, e[2] = CTL_TTY
       PROVE  desc(image, e) \in PtmxOf(image)
  BY <1>10 DEF desc
<1>11. \A f \in PtmxOf(image) : f \in Files /\ Kind[f] = "ptmx"
  BY DEF PtmxOf
<1>12. \A e \in Fles(image) : e[2] = CTL_TTY => PtmxOf(image) # {}
  BY <1>3, ServiceFd
<1>13. \A e \in Fles(image) : desc(image, e) \in Files
  <2> SUFFICES ASSUME NEW e \in Fles(image) PROVE desc(image, e) \in Files
    OBVIOUS
  <2>1. CASE e[2] = CTL_TTY
    BY <1>10, <1>11, <1>12, <2>1
  <2>2. CASE e[2] # CTL_TTY
    <3>1. PICK o \in Owners, fd \in Fds : e = <<o, fd>> /\ image[o][fd] # NoFile
      BY <1>3, <2>2
    <3>2. image[o][fd] \in Files
      BY <1>1, <3>1
    <3> QED BY <1>8, <3>1, <3>2
  <2> QED BY <2>1, <2>2
<1>14. \A e \in Fles(image) : e[2] = CTL_TTY => Kind[desc(image, e)] = "ptmx"
  BY <1>10, <1>11, <1>12
<1>15. PtmxOf(image) # {} => <<leader, CTL_TTY>> \in Fles(image)
  BY DEF Fles
<1> QED BY <1>2, <1>4, <1>6, <1>7, <1>8, <1>9, <1>13, <1>14, <1>15

\* The list of a file has the entries of the file, its master among them.
LEMMA HeadFacts ==
  ASSUME StaticInv, LeaderOwns
  PROVE  /\ \A f \in Files : ToSet(heads[f]) = {e \in Fles(image) : desc(image, e) = f}
         /\ \A f \in Present : f \in Files /\ file_master(f) \in Fles(image) /\ desc(image, file_master(f)) = f
         /\ \A e \in Fles(image) : desc(image, e) \in Present
<1> DEFINE Of(f) == {e \in Fles(image) : desc(image, e) = f}
<1>1. \A f \in Files : Enumerates(heads[f], Of(f))
  <2> SUFFICES ASSUME NEW f \in Files PROVE Enumerates(heads[f], Of(f))
    OBVIOUS
  <2>1. heads[f] = Sorted(Of(f))
    BY DEF StaticInv, fd_info_head
  <2>2. Of(f) \subseteq Fles(image)
    OBVIOUS
  <2> HIDE DEF Of
  <2>3. Of(f) \subseteq Nat \X Nat /\ IsFiniteSet(Of(f))
    BY <2>2, EntryFacts, FS_Subset
  <2> QED BY <2>1, <2>3, SortedEnumerates
<1>2. \A f \in Files : /\ heads[f] = <<>> <=> Of(f) = {}
                       /\ Of(f) # {} => Head(heads[f]) \in Of(f)
                       /\ ToSet(heads[f]) = Of(f)
  <2> HIDE DEF Of
  <2> QED BY <1>1, EnumeratesHead
<1>3. \A f \in Present : f \in Files /\ Of(f) # {}
  <2> HIDE DEF Of
  <2> QED BY <1>2 DEF Present
<1>4. \A f \in Present : file_master(f) \in Of(f)
  <2> HIDE DEF Of
  <2> QED BY <1>2, <1>3 DEF file_master
<1>5. \A e \in Fles(image) : desc(image, e) \in Files /\ e \in Of(desc(image, e))
  BY EntryFacts
<1>6. \A e \in Fles(image) : desc(image, e) \in Present
  <2> HIDE DEF Of
  <2> QED BY <1>2, <1>5 DEF Present
<1> QED BY <1>2, <1>3, <1>4, <1>6

\* The files of the image are files of the system.
LEMMA SystemFiles ==
  ASSUME StaticInv, LeaderOwns
  PROVE  Present \subseteq sys.files
<1> SUFFICES ASSUME NEW f \in Present PROVE f \in sys.files
  OBVIOUS
<1>1. PICK e \in Fles(image) : desc(image, e) = f /\ f \in Files
  BY HeadFacts
<1>2. \A o \in Owners, fd \in Fds : image[o][fd] = f => f \in sys.files
  BY <1>1, Constants DEF StaticInv
<1>3. CASE e[2] = CTL_TTY
  <2>1. PtmxOf(image) # {}
    BY <1>3, ServiceFd DEF Fles
  <2>2. f \in PtmxOf(image)
    BY <1>1, <1>3, <2>1 DEF desc
  <2> QED BY <1>2, <2>2 DEF PtmxOf
<1>4. CASE e[2] # CTL_TTY
  <2>1. PICK o \in Owners, fd \in Fds : e = <<o, fd>>
    BY <1>4 DEF Fles
  <2> QED BY <1>1, <1>2, <1>4, <2>1 DEF desc
<1> QED BY <1>3, <1>4

\* Of the files that are made together one is made by its master.
LEMMA OneCreator ==
  ASSUME StaticInv, LeaderOwns, NEW f \in Present, NEW h \in Siblings(f), create(f)
  PROVE  ~ create(h)
<1>1. h \in Present /\ h # f /\ Group[f] # 0 /\ Group[h] = Group[f] /\ f \in Siblings(h)
  BY DEF Siblings
<1>2. f \in Files /\ h \in Files
  BY <1>1 DEF Present
<1>3. MadeTogether(f, h)
  BY <1>1, <1>2, FdRestoreAssumption
<1>4. ~ (FirstOfGroup(f) /\ FirstOfGroup(h))
  <2>1. file_master(f) \in Nat \X Nat /\ file_master(h) \in Nat \X Nat
    BY <1>1, HeadFacts, EntryFacts
  <2> QED BY <1>1, <2>1, PrioOrder DEF FirstOfGroup
<1>5. CASE Kind[f] = "pipe"
  <2>1. Kind[h] = "pipe"
    BY <1>3, <1>5 DEF MadeTogether
  <2> QED BY <1>4, <1>5, <2>1 DEF create, mark_pipe_master
<1>6. CASE Kind[f] = "pair"
  <2>1. Kind[h] = "pair"
    BY <1>3, <1>6 DEF MadeTogether
  <2> QED BY <1>4, <1>6, <2>1 DEF create, resolve_unix_peers
<1>7. CASE Kind[f] = "ptmx"
  <2>1. Kind[h] = "pts"
    BY <1>3, <1>7 DEF MadeTogether
  <2> QED BY <1>1, <1>7, <2>1 DEF create, tty_setup_slavery
<1>8. CASE Kind[f] = "pts"
  <2>1. Kind[h] \in {"pts", "ptmx"}
    BY <1>3, <1>8 DEF MadeTogether
  <2>2. CASE Kind[h] = "pts"
    BY <1>4, <1>8, <2>2 DEF create, tty_setup_slavery
  <2>3. CASE Kind[h] = "ptmx"
    BY <1>1, <1>8, <2>3 DEF create, tty_setup_slavery
  <2> QED BY <2>1, <2>2, <2>3
<1> QED BY <1>3, <1>5, <1>6, <1>7, <1>8 DEF MadeTogether

\* The entries of a task there is something to do for in a state.
Busy(t, state) == {e \in Fles(image) : e[1] = t /\ Works(state, e, desc(image, e))}

\* The steps of one state: the entries there is something to do for, each once.
LEMMA EntriesEnumerate ==
  ASSUME StaticInv, LeaderOwns, NEW t, NEW state
  PROVE  Enumerates(InState(t, state), {<<state, e>> : e \in Busy(t, state)})
<1> DEFINE Of(kinds) == {e \in Fles(image) : /\ e[1] = t /\ Kind[desc(image, e)] \in kinds
                                             /\ Works(state, e, desc(image, e))}
           K == Kinds \ {"pts", "epoll"}
<1>1. \A kinds : Enumerates(Entries(t, state, kinds), Of(kinds))
  <2> SUFFICES ASSUME NEW kinds PROVE Enumerates(Entries(t, state, kinds), Of(kinds))
    OBVIOUS
  <2>1. Entries(t, state, kinds) = Sorted(Of(kinds))
    BY DEF Entries
  <2>2. Of(kinds) \subseteq Fles(image)
    OBVIOUS
  <2> HIDE DEF Of
  <2>3. Of(kinds) \subseteq Nat \X Nat /\ IsFiniteSet(Of(kinds))
    BY <2>2, EntryFacts, FS_Subset
  <2> QED BY <2>1, <2>3, SortedEnumerates
<1>2. Of(K) \cap Of({"pts"}) = {} /\ (Of(K) \cup Of({"pts"})) \cap Of({"epoll"}) = {}
  OBVIOUS
<1>3. (Of(K) \cup Of({"pts"})) \cup Of({"epoll"}) = Busy(t, state)
  <2>1. \A e \in Fles(image) : Kind[desc(image, e)] \in Kinds
    BY EntryFacts, Constants
  <2> QED BY <2>1 DEF Busy, Kinds
<1> HIDE DEF Of
<1>4. Enumerates(Entries(t, state, K) \o Entries(t, state, {"pts"}), Of(K) \cup Of({"pts"}))
  BY <1>1, <1>2, ConcatEnumerates
<1>5. Enumerates((Entries(t, state, K) \o Entries(t, state, {"pts"})) \o Entries(t, state, {"epoll"}),
                 (Of(K) \cup Of({"pts"})) \cup Of({"epoll"}))
  BY <1>1, <1>2, <1>4, ConcatEnumerates
<1>6. Enumerates(ps_list(t, state), Busy(t, state))
  BY <1>3, <1>5 DEF ps_list
<1> QED BY <1>6, TagEnumerates DEF InState

\* The plan of a task: each of its steps once, and those after the last file it
\* receives at the end.
LEMMA PlanEnumerates ==
  ASSUME StaticInv, LeaderOwns, NEW t
  PROVE  LET Work(state) == {<<state, e>> : e \in Busy(t, state)}
             first == Work("prepare") \cup Work("create") \cup Work("receive")
             last == Work("post_create")
         IN  /\ Enumerates(plan(t), first \cup last)
             /\ \A i, j \in 1 .. Len(plan(t)) : i < j /\ plan(t)[i] \in last => plan(t)[j] \in last
<1> DEFINE Work(state) == {<<state, e>> : e \in Busy(t, state)}
           p == InState(t, "prepare") \o InState(t, "create")
           q == p \o InState(t, "receive")
           first == Work("prepare") \cup Work("create") \cup Work("receive")
<1>1. \A state : Enumerates(InState(t, state), Work(state))
  BY EntriesEnumerate
<1>2. /\ Work("prepare") \cap Work("create") = {}
      /\ (Work("prepare") \cup Work("create")) \cap Work("receive") = {}
      /\ first \cap Work("post_create") = {}
  OBVIOUS
<1> HIDE DEF Work
<1>3. Enumerates(p, Work("prepare") \cup Work("create"))
  BY <1>1, <1>2, ConcatEnumerates
<1>4. Enumerates(q, first)
  <2> HIDE DEF p
  <2> QED BY <1>1, <1>2, <1>3, ConcatEnumerates
<1>5. plan(t) = q \o InState(t, "post_create")
  BY DEF plan, states
<1> HIDE DEF q, first
<1>6. /\ Enumerates(q \o InState(t, "post_create"), first \cup Work("post_create"))
      /\ \A i, j \in 1 .. Len(q \o InState(t, "post_create")) :
           i < j /\ (q \o InState(t, "post_create"))[i] \in Work("post_create")
             => (q \o InState(t, "post_create"))[j] \in Work("post_create")
  <2>1. Enumerates(InState(t, "post_create"), Work("post_create"))
    BY <1>1
  <2> QED BY <1>2, <1>4, <2>1, ConcatEnumerates
<1>7. /\ Enumerates(plan(t), first \cup Work("post_create"))
      /\ \A i, j \in 1 .. Len(plan(t)) : i < j /\ plan(t)[i] \in Work("post_create") => plan(t)[j] \in Work("post_create")
  BY <1>5, <1>6
<1> QED BY <1>7 DEF first, Work

-----------------------------------------------------------------------------
(* The graph *)

\* The graph, field by field.
LEMMA GraphFields ==
  ASSUME NEW g, g = Graph
  PROVE  /\ g.tasks = Tasks /\ g.sharers = Sharers /\ g.fles = Fles(image)
         /\ \A t \in Tasks : g.owner[t] = FdtPid(t) /\ g.plan[t] = plan(t)
         /\ \A e \in Fles(image) : g.file[e] = desc(image, e) /\ g.master[e] = file_master(desc(image, e))
         /\ \A e : e \in g.makers <=> /\ e \in Fles(image) /\ file_master(desc(image, e)) = e
                                      /\ create(desc(image, e))
         /\ \A e \in Fles(image) : \A b :
              b \in g.ends[e] <=> /\ b \in Fles(image) /\ file_master(desc(image, e)) = e
                                  /\ create(desc(image, e)) /\ file_master(desc(image, b)) = b
                                  /\ desc(image, b) \in Siblings(desc(image, e))
         /\ \A e : e \in g.post <=> /\ e \in Fles(image) /\ HasPostOpen(desc(image, e))
                                    /\ e = file_master(desc(image, e)) \/ e[2] = CTL_TTY
<1>1. g = Graph
  OBVIOUS
<1> QED BY <1>1 DEF Graph

LEMMA GraphOwners ==
  ASSUME StaticInv, LeaderOwns, NEW g, g = Graph
  PROVE  GoodOwners(g) /\ \A t : t \in Owners <=> t \in g.tasks /\ g.owner[t] = t
<1>1. sys \in Systems
  BY DEF StaticInv
<1>2. /\ Sharers \subseteq Tasks
      /\ \A t \in Tasks \ Sharers : FdtPid(t) = t
      /\ \A t, s \in Sharers : FdtPid(t) \in Sharers /\ FdtPid(t) = FdtPid(s)
      /\ \A t \in Tasks : FdtPid(t) \in Tasks /\ FdtPid(FdtPid(t)) = FdtPid(t)
      /\ \A t : t \in Owners <=> t \in Tasks /\ FdtPid(t) = t
  BY <1>1, TableOwners
<1>3. g.tasks = Tasks /\ g.sharers = Sharers /\ \A t \in Tasks : g.owner[t] = FdtPid(t)
  BY GraphFields
<1>4. \A t, s \in g.sharers : g.owner[t] \in g.sharers /\ g.owner[t] = g.owner[s]
  BY ONLY <1>2, <1>3
<1>5. \A t \in g.tasks : g.owner[t] \in g.tasks /\ g.owner[g.owner[t]] = g.owner[t]
  BY ONLY <1>2, <1>3
<1> QED BY ONLY <1>2, <1>3, <1>4, <1>5 DEF GoodOwners

LEMMA GraphFles ==
  ASSUME StaticInv, LeaderOwns, NEW g, g = Graph
  PROVE  GoodFles(g)
<1>1. \A e \in Fles(image) : /\ e = <<e[1], e[2]>> /\ e[1] \in Owners /\ e[2] \in Descriptors
                             /\ desc(image, e) \in Files /\ desc(image, e) \in Present
  BY EntryFacts, HeadFacts
<1>2. \A e \in Fles(image) : e[1] \in g.tasks /\ g.owner[e[1]] = e[1]
  BY <1>1, GraphOwners
<1>3. \A e \in Fles(image) : file_master(desc(image, e)) \in Fles(image) /\ desc(image, file_master(desc(image, e))) = desc(image, e)
  BY <1>1, HeadFacts
<1>4. \A e \in Fles(image) : e[2] = CTL_TTY => Kind[desc(image, e)] = "ptmx"
  BY EntryFacts
<1>5. \A e \in Fles(image) : e[2] = CTL_TTY => HasPostOpen(desc(image, e))
  BY <1>4 DEF HasPostOpen
<1>6. /\ g.fles = Fles(image)
      /\ \A e \in Fles(image) : g.file[e] = desc(image, e) /\ g.master[e] = file_master(desc(image, e))
      /\ g.post \subseteq Fles(image)
      /\ \A e \in Fles(image) : e[2] = CTL_TTY => e \in g.post
  BY <1>5, GraphFields
<1>7. \A e, x \in g.fles : g.master[e] = g.master[x] <=> g.file[e] = g.file[x]
  BY <1>3, <1>6
<1> QED BY <1>1, <1>2, <1>3, <1>4, <1>6, <1>7 DEF GoodFles

LEMMA GraphEnds ==
  ASSUME StaticInv, LeaderOwns, NEW g, g = Graph
  PROVE  GoodEnds(g)
<1>1. \A e \in Fles(image) : desc(image, e) \in Present
  BY HeadFacts
<1>2. g.fles = Fles(image) /\ g.makers \subseteq g.fles /\ \A m \in g.makers : g.master[m] = m
  BY GraphFields
<1>3. ASSUME NEW m \in Fles(image), NEW b \in g.ends[m]
      PROVE  b \in Fles(image) /\ m \in g.makers /\ g.master[b] = b /\ b \notin g.makers
  <2>1. /\ b \in Fles(image) /\ file_master(desc(image, m)) = m
        /\ create(desc(image, m)) /\ file_master(desc(image, b)) = b
        /\ desc(image, b) \in Siblings(desc(image, m))
    BY <1>3, GraphFields
  <2>2. ~ create(desc(image, b))
    BY <1>1, <2>1, OneCreator
  <2> QED BY <2>1, <2>2, GraphFields
<1>4. ASSUME NEW m \in Fles(image), NEW n \in Fles(image), NEW b \in g.ends[m], b \in g.ends[n]
      PROVE  m = n
  <2>1. /\ file_master(desc(image, m)) = m /\ create(desc(image, m))
        /\ desc(image, b) \in Siblings(desc(image, m))
        /\ file_master(desc(image, n)) = n /\ create(desc(image, n))
        /\ desc(image, b) \in Siblings(desc(image, n))
    BY <1>4, GraphFields
  <2>2. desc(image, m) # desc(image, n) => desc(image, n) \in Siblings(desc(image, m))
    BY <1>1, <2>1 DEF Siblings
  <2>3. desc(image, m) = desc(image, n)
    BY <1>1, <2>1, <2>2, OneCreator
  <2> QED BY <2>1, <2>3
<1> QED BY <1>2, <1>3, <1>4 DEF GoodEnds

LEMMA GraphPlan ==
  ASSUME StaticInv, LeaderOwns, NEW g, g = Graph, NEW t \in g.tasks
  PROVE  GoodPlan(g, t)
<1> DEFINE Work(state) == {<<state, e>> : e \in Busy(t, state)}
<1>1. /\ g.fles = Fles(image) /\ g.plan[t] = plan(t)
      /\ \A e \in Fles(image) : g.master[e] = file_master(desc(image, e))
  BY GraphFields
<1>2. Busy(t, "create") = {x \in g.fles : x[1] = t /\ x = g.master[x]}
  BY <1>1 DEF Busy, Works
<1>3. Busy(t, "receive") = {x \in g.fles : x[1] = t /\ g.master[x][1] # x[1]}
  BY <1>1 DEF Busy, Works
<1>4. Busy(t, "post_create") = {x \in g.post : x[1] = t}
  <2>1. Busy(t, "post_create") = {x \in Fles(image) : /\ x[1] = t /\ HasPostOpen(desc(image, x))
                                                      /\ x = file_master(desc(image, x)) \/ x[2] = CTL_TTY}
    BY DEF Busy, Works
  <2> QED BY <2>1, GraphFields
<1>5. Busy(t, "prepare") = {x \in g.fles : x[1] = t /\ Wants(g, x)}
  <2>1. \A e \in Fles(image) : Works("prepare", e, desc(image, e)) <=>
           \/ file_master(desc(image, e))[1] # e[1]
           \/ file_master(desc(image, e)) = e /\ ~ create(desc(image, e))
    BY DEF Works, WantsTransport, should_open_transport
  <2>2. \A e \in Fles(image) : file_master(desc(image, e)) = e => (create(desc(image, e)) <=> e \in g.makers)
    BY GraphFields
  <2> QED BY <1>1, <2>1, <2>2 DEF Busy, Wants
<1>6. Early(g, t) = Work("prepare") \cup Work("create") \cup Work("receive") /\ Late(g, t) = Work("post_create")
  BY <1>2, <1>3, <1>4, <1>5 DEF Early, Late
<1> QED BY <1>1, <1>6, PlanEnumerates DEF GoodPlan

\* The lists that criu builds are good ones.
LEMMA GraphGood ==
  ASSUME StaticInv, LeaderOwns, NEW g, g = Graph
  PROVE  Good(g)
  BY GraphOwners, GraphFles, GraphEnds, GraphPlan DEF Good

\* What the master of a file finds in the lists when it creates the file.
LEMMA ListsOfMaster ==
  ASSUME StaticInv, LeaderOwns, rst = Lists, NEW g, g = Graph, NEW m \in g.fles, g.master[m] = m
  PROVE  LET f == g.file[m]
         IN  /\ f = desc(image, m)
             /\ f \in rst.creators <=> m \in g.makers
             /\ m \in g.makers => Enumerates(rst.siblings[f], g.ends[m])
             /\ \A x : x \in ToSet(heads[f]) <=> x \in g.fles /\ g.master[x] = m
             /\ Enumerates(Sorted({x \in ToSet(heads[f]) : x[1] # m[1]}), Peers(g, m))
<1> DEFINE f == g.file[m]
<1>1. g.fles = Fles(image) /\ f = desc(image, m) /\ file_master(f) = m
  BY GraphFields
<1>2. f \in Present /\ f \in Files
  BY <1>1, HeadFacts
<1>3. f \in rst.creators <=> m \in g.makers
  <2>1. rst.creators = {h \in Present : create(h)}
    BY DEF Lists
  <2>2. m \in g.makers <=> create(f)
    BY <1>1, GraphFields
  <2> QED BY <1>2, <2>1, <2>2
<1>4. ASSUME m \in g.makers PROVE Enumerates(rst.siblings[f], g.ends[m])
  <2>1. rst.siblings[f] = Sorted({file_master(h) : h \in Siblings(f)})
    BY <1>2 DEF Lists
  <2>2. \A h \in Siblings(f) : h \in Present
    BY DEF Siblings
  <2>3. \A h \in Siblings(f) : /\ file_master(h) \in Fles(image) /\ desc(image, file_master(h)) = h
    BY <2>2, HeadFacts
  <2>4. create(f)
    BY <1>1, <1>4, GraphFields
  <2>5. \A b : b \in g.ends[m] <=> b \in Fles(image) /\ file_master(desc(image, b)) = b /\ desc(image, b) \in Siblings(f)
    BY <1>1, <2>4, GraphFields
  <2>6. g.ends[m] = {file_master(h) : h \in Siblings(f)}
    BY <2>3, <2>5
  <2>7. g.ends[m] \subseteq Fles(image)
    BY <2>5
  <2>8. g.ends[m] \subseteq Nat \X Nat /\ IsFiniteSet(g.ends[m])
    BY <2>7, EntryFacts, FS_Subset
  <2> QED BY <2>1, <2>6, <2>8, SortedEnumerates
<1>5. \A x : x \in ToSet(heads[f]) <=> x \in g.fles /\ g.master[x] = m
  <2>1. ToSet(heads[f]) = {e \in Fles(image) : desc(image, e) = f}
    BY <1>2, HeadFacts
  <2>2. \A x \in g.fles : g.master[x] = g.master[m] <=> g.file[x] = g.file[m]
    BY GraphFles DEF GoodFles
  <2>3. \A x \in g.fles : g.file[x] = desc(image, x)
    BY <1>1, GraphFields
  <2> QED BY <1>1, <2>1, <2>2, <2>3
<1>6. Enumerates(Sorted({x \in ToSet(heads[f]) : x[1] # m[1]}), Peers(g, m))
  <2>1. {x \in ToSet(heads[f]) : x[1] # m[1]} = Peers(g, m)
    BY <1>5 DEF Peers
  <2>2. Peers(g, m) \subseteq Fles(image)
    BY <1>1 DEF Peers
  <2>3. Peers(g, m) \subseteq Nat \X Nat /\ IsFiniteSet(Peers(g, m))
    BY <2>2, EntryFacts, FS_Subset
  <2> QED BY <2>1, <2>3, SortedEnumerates
<1> QED BY <1>1, <1>3, <1>4, <1>5, <1>6

-----------------------------------------------------------------------------
(* Getting ahead in the plan *)

\* What a task has done and what it is at.
LEMMA PlanFacts ==
  ASSUME NEW g, Good(g), NEW t \in g.tasks, step[t] \in Nat \ {0}
  PROVE  /\ step[t] = 1 => Did(g, t) = {}
         /\ step[t] <= Len(g.plan[t]) =>
              /\ At(g, t) \in (Early(g, t) \cup Late(g, t)) \ Did(g, t)
              /\ DoneBefore(g.plan[t], step[t] + 1) = Did(g, t) \cup {At(g, t)}
              /\ At(g, t) \in Early(g, t) => Did(g, t) \cap Late(g, t) = {}
              /\ At(g, t) \in Late(g, t) => Early(g, t) \subseteq Did(g, t)
         /\ step[t] > Len(g.plan[t]) => Early(g, t) \cup Late(g, t) \subseteq Did(g, t)
<1>1. PICK S, T, p, k : S = Early(g, t) /\ T = Late(g, t) /\ p = g.plan[t] /\ k = step[t]
  OBVIOUS
<1>2. k \in Nat \ {0}
  BY <1>1
<1>3. S \cap T = {}
  BY <1>1 DEF Early, Late
<1>4. Enumerates(p, S \cup T) /\ \A i, j \in 1 .. Len(p) : i < j /\ p[i] \in T => p[j] \in T
  BY <1>1 DEF Good, GoodPlan
<1>5. /\ k = 1 => DoneBefore(p, k) = {}
      /\ k <= Len(p) => /\ p[k] \in (S \cup T) \ DoneBefore(p, k)
                        /\ DoneBefore(p, k + 1) = DoneBefore(p, k) \cup {p[k]}
                        /\ p[k] \in S => DoneBefore(p, k) \cap T = {}
                        /\ p[k] \in T => S \subseteq DoneBefore(p, k)
      /\ k > Len(p) => S \cup T \subseteq DoneBefore(p, k)
  BY ZenonT(40), <1>2, <1>3, <1>4, Progress
<1> QED BY <1>1, <1>5 DEF Did, At

\* A task has done nothing but what is in its plan.
LEMMA DidPlanned ==
  ASSUME NEW g, Good(g), NEW t \in g.tasks, step[t] \in Nat \ {0}, step[t] <= Len(g.plan[t])
  PROVE  Did(g, t) \subseteq Early(g, t) \cup Late(g, t)
<1>1. PICK S, p : S = Early(g, t) \cup Late(g, t) /\ p = g.plan[t]
  OBVIOUS
<1>2. Enumerates(p, S)
  BY <1>1 DEF Good, GoodPlan
<1>3. \A i \in 1 .. step[t] - 1 : p[i] \in S
  BY <1>1, <1>2 DEF Enumerates
<1> QED BY <1>1, <1>3 DEF Did, DoneBefore

\* Which steps there are.
LEMMA StepKinds ==
  ASSUME NEW g, NEW t
  PROVE  /\ \A w \in Early(g, t) \cup Late(g, t) :
              /\ w = <<w[1], w[2]>> /\ w[1] \in {"prepare", "create", "receive", "post_create"}
              /\ w \in Late(g, t) <=> w[1] = "post_create"
         /\ \A e : <<"prepare", e>> \in Early(g, t) \cup Late(g, t) <=> e \in g.fles /\ e[1] = t /\ Wants(g, e)
         /\ \A e : <<"create", e>> \in Early(g, t) \cup Late(g, t) <=> e \in g.fles /\ e[1] = t /\ e = g.master[e]
         /\ \A e : <<"receive", e>> \in Early(g, t) \cup Late(g, t) <=> e \in g.fles /\ e[1] = t /\ g.master[e][1] # e[1]
         /\ \A e : <<"post_create", e>> \in Early(g, t) \cup Late(g, t) <=> e \in g.post /\ e[1] = t
  BY DEF Early, Late

\* Steps that do not get a task ahead.
LEMMA SameViews ==
  ASSUME NEW g, GoodFles(g), step' = step, jobs' = jobs,
         \A t \in g.tasks : {pc[t], pc'[t]} \cap {"opening", "serve"} # {} => pc'[t] = pc[t]
  PROVE  Prep(g)' = Prep(g) /\ Hold(g)' = Hold(g) /\ Shut(g)' = Shut(g) /\ Out(g)' = Out(g)
<1>1. \A t : Did(g, t)' = Did(g, t) /\ At(g, t)' = At(g, t)
  BY DEF Did, At
<1>2. Prep(g)' = Prep(g) /\ Shut(g)' = Shut(g) /\ Created(g)' = Created(g)
  BY <1>1 DEF Prep, Shut, Created
<1>3. \A m \in g.fles : m[1] \in g.tasks
  BY DEF GoodFles
<1>4. \A t \in g.tasks : (pc'[t] = "serve" <=> pc[t] = "serve") /\ (pc'[t] = "opening" <=> pc[t] = "opening")
  OBVIOUS
<1>5. Making(g, "serve")' = Making(g, "serve") /\ Making(g, "opening")' = Making(g, "opening")
  BY <1>1, <1>3, <1>4 DEF Making
<1>6. Hold(g)' = Hold(g)
  BY <1>1, <1>2, <1>5 DEF Hold
<1>7. Out(g)' = Out(g)
  BY <1>2, <1>5 DEF Out
<1> QED BY <1>2, <1>6, <1>7

\* A task that gets on to the next step of its plan.
LEMMA NextStep ==
  ASSUME NEW g, Good(g), TypeInv(g), NEW t \in g.tasks, step[t] <= Len(g.plan[t]),
         step' = [step EXCEPT ![t] = @ + 1]
  PROVE  /\ Did(g, t)' = Did(g, t) \cup {At(g, t)}
         /\ \A s \in g.tasks \ {t} : Did(g, s)' = Did(g, s) /\ At(g, s)' = At(g, s)
<1>1. step[t] \in Nat \ {0} /\ step'[t] = step[t] + 1 /\ \A s \in g.tasks \ {t} : step'[s] = step[s]
  BY DEF TypeInv
<1>2. Did(g, t)' = DoneBefore(g.plan[t], step[t] + 1)
  BY <1>1 DEF Did
<1> QED BY <1>1, <1>2, PlanFacts DEF Did, At

\* A step that makes no file moves one entry at most from one set to another.
LEMMA NextViews ==
  ASSUME NEW g, Good(g), TypeInv(g), NEW t \in g.tasks, step[t] <= Len(g.plan[t]), pc[t] = "loop",
         step' = [step EXCEPT ![t] = @ + 1], pc' = pc, jobs' = jobs, At(g, t)[1] # "create"
  PROVE  LET c == At(g, t)[1]
             e == At(g, t)[2]
         IN  /\ Prep(g)' = IF c = "prepare" THEN Prep(g) \cup {e} ELSE Prep(g)
             /\ Hold(g)' = IF c = "receive" THEN Hold(g) \cup {e} ELSE Hold(g)
             /\ Shut(g)' = IF c = "post_create" /\ e[2] = CTL_TTY THEN Shut(g) \cup {e} ELSE Shut(g)
             /\ Out(g)' = Out(g)
<1>0. PICK c, e : c = At(g, t)[1] /\ e = At(g, t)[2] /\ c # "create"
  OBVIOUS
<1>2. step[t] \in Nat \ {0} /\ <<c, e>> \in Early(g, t) \cup Late(g, t) /\ At(g, t) = <<c, e>>
  <2>1. step[t] \in Nat \ {0}
    BY DEF TypeInv
  <2>2. At(g, t) \in Early(g, t) \cup Late(g, t)
    BY <2>1, PlanFacts
  <2> QED BY <1>0, <2>1, <2>2, StepKinds
<1>1. /\ Did(g, t)' = Did(g, t) \cup {<<c, e>>}
      /\ \A s \in g.tasks \ {t} : Did(g, s)' = Did(g, s) /\ At(g, s)' = At(g, s)
  BY <1>2, NextStep
<1>3. e \in g.fles /\ e[1] = t
  BY <1>2, StepKinds DEF Good, GoodFles
<1>4. \A m \in g.fles : m[1] \in g.tasks /\ g.master[m] \in g.fles
  BY DEF Good, GoodFles
<1>5. \A b, x : x \in g.fles => (<<b, x>> \in Did(g, x[1])' <=> <<b, x>> \in Did(g, x[1]) \/ (b = c /\ x = e))
  BY <1>1, <1>3, <1>4
<1>6. Prep(g)' = IF c = "prepare" THEN Prep(g) \cup {e} ELSE Prep(g)
  BY <1>3, <1>5 DEF Prep
<1>7. Shut(g)' = IF c = "post_create" /\ e[2] = CTL_TTY THEN Shut(g) \cup {e} ELSE Shut(g)
  BY <1>3, <1>5 DEF Shut
<1>8. Created(g)' = Created(g)
  BY <1>0, <1>5 DEF Created
<1>9. Making(g, "serve")' = Making(g, "serve") /\ Making(g, "opening")' = Making(g, "opening")
  BY <1>1, <1>4 DEF Making
<1>10. c = "receive" => g.master[e][1] # e[1]
  BY <1>2, StepKinds
<1>11. Hold(g)' = IF c = "receive" THEN Hold(g) \cup {e} ELSE Hold(g)
  BY <1>3, <1>5, <1>8, <1>9, <1>10 DEF Hold
<1>12. Out(g)' = Out(g)
  BY <1>8, <1>9 DEF Out
<1> QED BY <1>0, <1>6, <1>7, <1>11, <1>12

\* A master that begins to open its file: all the other ends are to be sent.
BeginsToOpen(g, t, m, q) ==
  /\ pc[t] = "loop" /\ m[1] = t /\ At(g, t) = <<"create", m>> /\ ToSet(q) = g.ends[m]
  /\ step' = step /\ pc' = [pc EXCEPT ![t] = "opening"] /\ jobs' = [jobs EXCEPT ![t] = q]

LEMMA OpenViews ==
  ASSUME NEW g, Good(g), TypeInv(g), NEW t \in g.tasks, NEW m \in g.fles, NEW q, BeginsToOpen(g, t, m, q)
  PROVE  Prep(g)' = Prep(g) /\ Hold(g)' = Hold(g) /\ Shut(g)' = Shut(g) /\ Out(g)' = Out(g)
<1> USE DEF BeginsToOpen
<1>1. \A s : Did(g, s)' = Did(g, s) /\ At(g, s)' = At(g, s)
  BY DEF Did, At
<1>2. Prep(g)' = Prep(g) /\ Shut(g)' = Shut(g) /\ Created(g)' = Created(g)
  BY <1>1 DEF Prep, Shut, Created
<1>3. \A x \in g.fles : x[1] \in g.tasks
  BY DEF Good, GoodFles
<1>4. \A s \in g.tasks : s # t => pc'[s] = pc[s] /\ jobs'[s] = jobs[s]
  BY DEF TypeInv
<1>5. pc'[t] = "opening" /\ jobs'[t] = q
  BY DEF TypeInv
<1>6. Making(g, "serve")' = Making(g, "serve")
  BY <1>1, <1>3, <1>4, <1>5 DEF Making
<1>7. Hold(g)' = Hold(g)
  BY <1>1, <1>2, <1>6 DEF Hold
<1>8. \A x \in Making(g, "serve") \cup Making(g, "opening") : x[1] # t /\ jobs'[x[1]] = jobs[x[1]]
  BY <1>3, <1>4 DEF Making
<1>9. Making(g, "opening")' \subseteq Making(g, "opening") \cup {m} /\ Making(g, "opening") \subseteq Making(g, "opening")'
  BY <1>1, <1>3, <1>4, <1>5 DEF Making
<1>10. ToSet(jobs[t])' = g.ends[m]
  BY <1>5
<1>11. Out(g)' = Out(g)
  BY <1>2, <1>6, <1>8, <1>9, <1>10 DEF Out
<1> QED BY <1>2, <1>7, <1>11

\* Everybody who is sent something has a transport and is sent it by one master.
LEMMA OneSender ==
  ASSUME NEW g, Good(g), NEW m \in g.fles, g.master[m] = m, NEW x \in Targets(g, m)
  PROVE  /\ x \in g.fles /\ Wants(g, x)
         /\ \A n \in g.fles : g.master[n] = n /\ x \in Targets(g, n) => m = n
         /\ ~ (x \in Peers(g, m) /\ x \in g.ends[m])
<1>1. \A n \in g.fles : \A b \in g.ends[n] : b \in g.fles /\ g.master[b] = b /\ b \notin g.makers
  BY DEF Good, GoodEnds
<1>2. \A n \in g.fles : \A b \in Peers(g, n) : b \in g.fles /\ g.master[b] = n /\ b[1] # n[1]
  BY DEF Peers
<1>3. x \in g.fles /\ Wants(g, x)
  BY <1>1, <1>2 DEF Targets, Wants
<1>4. ~ (x \in Peers(g, m) /\ x \in g.ends[m])
  BY <1>1, <1>2
<1>5. ASSUME NEW n \in g.fles, g.master[n] = n, x \in Targets(g, n) PROVE m = n
  <2>1. CASE x \in Peers(g, m) /\ x \in Peers(g, n)
    BY <1>2, <2>1
  <2>2. CASE x \in g.ends[m] /\ x \in g.ends[n]
    BY <2>2 DEF Good, GoodEnds
  <2>3. CASE x \in g.ends[m] /\ x \in Peers(g, n)
    BY <1>1, <1>2, <2>3
  <2>4. CASE x \in Peers(g, m) /\ x \in g.ends[n]
    BY <1>1, <1>2, <1>5, <2>4
  <2> QED BY <1>5, <2>1, <2>2, <2>3, <2>4 DEF Targets
<1> QED BY <1>3, <1>4, <1>5

\* A master that has put its file in place, and goes on to serve it.
PutsInPlace(g, t, m, q) ==
  /\ step[t] <= Len(g.plan[t]) /\ m[1] = t /\ g.master[m] = m /\ At(g, t) = <<"create", m>>
  /\ \/ pc[t] = "opening" /\ jobs[t] = <<>>
     \/ pc[t] = "loop" /\ g.ends[m] = {}
  /\ Enumerates(q, Peers(g, m)) /\ jobs' = [jobs EXCEPT ![t] = q]
  /\ pc' = [pc EXCEPT ![t] = IF q = <<>> THEN "loop" ELSE "serve"]
  /\ step' = IF q = <<>> THEN [step EXCEPT ![t] = @ + 1] ELSE step

LEMMA InstallViews ==
  ASSUME NEW g, Good(g), TypeInv(g), NEW t \in g.tasks, NEW m \in g.fles, NEW q, PutsInPlace(g, t, m, q)
  PROVE  /\ Prep(g)' = Prep(g) /\ Shut(g)' = Shut(g) /\ Out(g)' = Out(g)
         /\ Hold(g)' = Hold(g) \cup {x \in g.fles : g.master[x] = m /\ x[1] = t}
<1> USE DEF PutsInPlace
<1>1. ToSet(q) = Peers(g, m) /\ (q = <<>> => Peers(g, m) = {})
  BY EnumeratesHead
<1>2. \A x \in g.fles : x[1] \in g.tasks /\ g.master[x] \in g.fles
  BY DEF Good, GoodFles
<1>3. \A s \in g.tasks : s # t => pc'[s] = pc[s] /\ jobs'[s] = jobs[s]
  BY DEF TypeInv
<1>4. pc'[t] = (IF q = <<>> THEN "loop" ELSE "serve") /\ jobs'[t] = q
  BY DEF TypeInv
<1>5. m \in Making(g, pc[t]) /\ \A x \in Making(g, pc[t]) : x[1] = t => x = m
  BY DEF Making
<1>6. \A x \in Making(g, "serve") : x[1] # t
  BY DEF Making
<1>7. jobs[t] = <<>> => ToSet(jobs[t]) = {}
  BY DEF ToSet
<1>8. \A x \in Targets(g, m) : ~ (x \in Peers(g, m) /\ x \in g.ends[m])
  BY OneSender
<1>9. \A x \in g.ends[m] : x \in g.fles /\ m \in Making(g, "opening") /\ x \in Targets(g, m) /\ x \notin ToSet(jobs[t])
  BY <1>5, <1>7 DEF Targets, Good, GoodEnds
<1>10. g.ends[m] \subseteq Out(g)
  BY <1>9 DEF Out
<1>11. \A x \in Making(g, "opening") : x[1] # t \/ x = m
  BY DEF Making
<1>12. CASE q = <<>>
  <2>1. /\ Did(g, t)' = Did(g, t) \cup {<<"create", m>>}
        /\ \A s \in g.tasks \ {t} : Did(g, s)' = Did(g, s) /\ At(g, s)' = At(g, s)
    BY <1>12, NextStep
  <2>2. \A b, x : x \in g.fles => (<<b, x>> \in Did(g, x[1])' <=> <<b, x>> \in Did(g, x[1]) \/ (b = "create" /\ x = m))
    BY <1>2, <2>1
  <2>3. Prep(g)' = Prep(g) /\ Shut(g)' = Shut(g) /\ Created(g)' = Created(g) \cup {m}
    BY <2>2 DEF Prep, Shut, Created
  <2>4. Making(g, "serve")' = Making(g, "serve")
    BY <1>2, <1>3, <1>4, <1>6, <1>12, <2>1 DEF Making
  <2>5. Making(g, "opening")' = {x \in Making(g, "opening") : x[1] # t}
    BY <1>2, <1>3, <1>4, <1>12, <2>1 DEF Making
  <2>6. Hold(g)' = Hold(g) \cup {x \in g.fles : g.master[x] = m /\ x[1] = t}
    BY <1>2, <2>2, <2>3, <2>4 DEF Hold
  <2>7. \A x \in Making(g, "serve") \cup Making(g, "opening")' : jobs'[x[1]] = jobs[x[1]]
    BY <1>2, <1>3, <1>6, <2>5 DEF Making
  <2>8. Targets(g, m) = g.ends[m]
    BY <1>1, <1>12 DEF Targets
  <2>9. Out(g)' = Out(g)
    <3>1. Out(g)' \subseteq Out(g)
      BY <1>10, <2>3, <2>4, <2>5, <2>7, <2>8 DEF Out
    <3>2. Out(g) \subseteq Out(g)'
      BY <1>11, <2>3, <2>4, <2>5, <2>7 DEF Out
    <3> QED BY <3>1, <3>2
  <2> QED BY <2>3, <2>6, <2>9
<1>13. CASE q # <<>>
  <2>1. \A s : Did(g, s)' = Did(g, s) /\ At(g, s)' = At(g, s)
    BY <1>13 DEF Did, At
  <2>2. Prep(g)' = Prep(g) /\ Shut(g)' = Shut(g) /\ Created(g)' = Created(g)
    BY <2>1 DEF Prep, Shut, Created
  <2>3. Making(g, "serve")' = Making(g, "serve") \cup {m}
    BY <1>2, <1>3, <1>4, <1>6, <1>13, <2>1 DEF Making
  <2>4. Making(g, "opening")' = {x \in Making(g, "opening") : x[1] # t}
    BY <1>2, <1>3, <1>4, <1>13, <2>1 DEF Making
  <2>5. Hold(g)' = Hold(g) \cup {x \in g.fles : g.master[x] = m /\ x[1] = t}
    BY <1>2, <2>1, <2>2, <2>3 DEF Hold
  <2>6. \A x \in Making(g, "serve") \cup Making(g, "opening")' : jobs'[x[1]] = jobs[x[1]]
    BY <1>2, <1>3, <1>6, <2>4 DEF Making
  <2>7. \A x \in Targets(g, m) : x \in g.ends[m] <=> x \notin ToSet(jobs'[t])
    BY <1>1, <1>4, <1>8 DEF Targets
  <2>8. Out(g)' = Out(g)
    <3>1. Out(g)' \subseteq Out(g)
      BY <1>10, <2>2, <2>3, <2>4, <2>6, <2>7 DEF Out
    <3>2. Out(g) \subseteq Out(g)'
      BY <1>11, <2>2, <2>3, <2>4, <2>6, <2>7 DEF Out
    <3> QED BY <3>1, <3>2
  <2> QED BY <2>2, <2>5, <2>8
<1> QED BY <1>12, <1>13

\* A master that sends its file, or another end of it, to one more entry.
Sends(g, t, m, to) ==
  /\ step[t] <= Len(g.plan[t]) /\ AtWork(g, t, m) /\ pc[t] \in {"opening", "serve"}
  /\ jobs[t] # <<>> /\ to = Head(jobs[t])
HasSent(t, last) ==
  /\ last \in BOOLEAN /\ (last <=> pc[t] = "serve" /\ Len(jobs[t]) = 1)
  /\ jobs' = [jobs EXCEPT ![t] = Tail(@)]
  /\ pc' = IF last THEN [pc EXCEPT ![t] = "loop"] ELSE pc
  /\ step' = IF last THEN [step EXCEPT ![t] = @ + 1] ELSE step

LEMMA SendTarget ==
  ASSUME NEW g, Good(g), TypeInv(g), NEW t \in g.tasks, NEW m \in g.fles, NEW to, Sends(g, t, m, to)
  PROVE  /\ to \in Targets(g, m) \ Out(g) /\ to \in ToSet(jobs[t]) /\ to \in g.fles
         /\ m \notin Created(g) /\ m \in Making(g, pc[t]) /\ <<"create", m>> \notin Did(g, t)
         /\ ToSet(Tail(jobs[t])) = ToSet(jobs[t]) \ {to}
         /\ Len(jobs[t]) = 1 <=> Tail(jobs[t]) = <<>>
<1> USE DEF Sends
<1>1. jobs[t] \in Seq(g.fles) /\ \A i, j \in 1 .. Len(jobs[t]) : jobs[t][i] = jobs[t][j] => i = j
  BY DEF TypeInv, AtWork
<1>2. /\ to \in ToSet(jobs[t]) /\ to \in g.fles
      /\ ToSet(Tail(jobs[t])) = ToSet(jobs[t]) \ {to}
      /\ Len(jobs[t]) = 1 <=> Tail(jobs[t]) = <<>>
  BY <1>1, TailOfList
<1>3. /\ m[1] = t /\ g.master[m] = m /\ At(g, t) = <<"create", m>>
      /\ ToSet(jobs[t]) \subseteq IF pc[t] = "opening" THEN g.ends[m] ELSE Peers(g, m)
  BY DEF AtWork
<1>4. to \in Targets(g, m)
  BY <1>2, <1>3 DEF Targets
<1>5. \A x \in g.fles : x[1] \in g.tasks /\ g.master[x] \in g.fles
  BY DEF Good, GoodFles
<1>6. <<"create", m>> \notin Did(g, t)
  <2>1. step[t] \in Nat \ {0}
    BY DEF TypeInv
  <2> QED BY <1>3, <2>1, PlanFacts
<1>7. m \notin Created(g) /\ m \in Making(g, pc[t])
  BY <1>3, <1>6 DEF Created, Making
<1>8. \A n \in Created(g) \cup Making(g, "serve") \cup Making(g, "opening") : n \in g.fles /\ g.master[n] = n
  BY DEF Created, Making
<1>9. \A n \in Created(g) \cup Making(g, "serve") \cup Making(g, "opening") : to \in Targets(g, n) => n = m
  BY <1>3, <1>4, <1>8, OneSender
<1>10. to \notin Out(g)
  <2> SUFFICES ASSUME to \in Out(g) PROVE FALSE
    OBVIOUS
  <2>1. PICK n \in g.fles : /\ to \in Targets(g, n)
                            /\ \/ n \in Created(g)
                               \/ n \in Making(g, "serve") \cup Making(g, "opening") /\ to \notin ToSet(jobs[n[1]])
    BY DEF Out
  <2>2. n = m
    BY <1>9, <2>1
  <2> QED BY <1>2, <1>3, <1>7, <2>1, <2>2
<1> QED BY <1>2, <1>4, <1>6, <1>7, <1>10

\* The sets of entries after it has sent.
LEMMA SendViews ==
  ASSUME NEW g, Good(g), TypeInv(g), NEW t \in g.tasks, NEW m \in g.fles, NEW to, NEW last,
         Sends(g, t, m, to), HasSent(t, last)
  PROVE  /\ Prep(g)' = Prep(g) /\ Shut(g)' = Shut(g) /\ Hold(g)' = Hold(g)
         /\ Out(g)' = Out(g) \cup {to}
<1>0. /\ to \in Targets(g, m) \ Out(g) /\ to \in ToSet(jobs[t]) /\ to \in g.fles
      /\ m \notin Created(g) /\ m \in Making(g, pc[t]) /\ <<"create", m>> \notin Did(g, t)
      /\ ToSet(Tail(jobs[t])) = ToSet(jobs[t]) \ {to}
      /\ Len(jobs[t]) = 1 <=> Tail(jobs[t]) = <<>>
  BY SendTarget
<1> USE DEF Sends, HasSent
<1>2. /\ to \in ToSet(jobs[t]) /\ to \in g.fles
      /\ ToSet(Tail(jobs[t])) = ToSet(jobs[t]) \ {to}
      /\ Len(jobs[t]) = 1 <=> Tail(jobs[t]) = <<>>
  BY <1>0
<1>3. /\ m[1] = t /\ g.master[m] = m /\ At(g, t) = <<"create", m>>
      /\ ToSet(jobs[t]) \subseteq IF pc[t] = "opening" THEN g.ends[m] ELSE Peers(g, m)
  BY DEF AtWork
<1>4. to \in Targets(g, m)
  BY <1>0
<1>5. \A x \in g.fles : x[1] \in g.tasks /\ g.master[x] \in g.fles
  BY DEF Good, GoodFles
<1>7. m \notin Created(g) /\ m \in Making(g, pc[t])
  BY <1>0
<1>10. to \notin Out(g)
  BY <1>0
<1>11. \A s \in g.tasks : s # t => pc'[s] = pc[s] /\ jobs'[s] = jobs[s]
  BY DEF TypeInv
<1>12. pc'[t] = (IF last THEN "loop" ELSE pc[t]) /\ jobs'[t] = Tail(jobs[t])
  BY DEF TypeInv
<1>13. \A x \in Making(g, "serve") \cup Making(g, "opening") : x = m \/ (x # m /\ x[1] # t /\ jobs'[x[1]] = jobs[x[1]])
  BY <1>3, <1>5, <1>11 DEF Making
<1>14. ToSet(jobs'[t]) = ToSet(jobs[t]) \ {to}
  BY <1>2, <1>12
<1>15. CASE last
  <2>1. /\ Did(g, t)' = Did(g, t) \cup {<<"create", m>>}
        /\ \A s \in g.tasks \ {t} : Did(g, s)' = Did(g, s) /\ At(g, s)' = At(g, s)
    <3>1. step' = [step EXCEPT ![t] = @ + 1]
      BY <1>15
    <3>2. /\ Did(g, t)' = Did(g, t) \cup {At(g, t)}
          /\ \A s \in g.tasks \ {t} : Did(g, s)' = Did(g, s) /\ At(g, s)' = At(g, s)
      BY <3>1, NextStep
    <3> QED BY ONLY <1>3, <3>2
  <2>2. \A b, x : x \in g.fles => (<<b, x>> \in Did(g, x[1])' <=> <<b, x>> \in Did(g, x[1]) \/ (b = "create" /\ x = m))
    BY <1>3, <1>5, <2>1
  <2>3. Prep(g)' = Prep(g) /\ Shut(g)' = Shut(g) /\ Created(g)' = Created(g) \cup {m}
    BY <1>3, <2>2 DEF Prep, Shut, Created
  <2>4. Making(g, "serve")' = Making(g, "serve") \ {m} /\ m \in Making(g, "serve")
    BY <1>3, <1>5, <1>7, <1>11, <1>12, <1>15, <2>1 DEF Making
  <2>5. Making(g, "opening")' = Making(g, "opening") /\ m \notin Making(g, "opening")
    BY <1>3, <1>5, <1>11, <1>12, <1>15, <2>1 DEF Making
  <2>6. Hold(g)' = Hold(g)
    BY <2>2, <2>3, <2>4 DEF Hold
  <2>7. ToSet(jobs[t]) = {to}
    <3>1. ToSet(Tail(jobs[t])) = {}
      BY <1>2, <1>15 DEF ToSet
    <3> QED BY <1>2, <3>1
  <2>8. \A x \in Targets(g, m) : x = to \/ x \in Out(g)
    <3>1. \A x \in Targets(g, m) : x \in g.fles
      BY <1>3, OneSender
    <3> QED BY <1>3, <2>4, <2>7, <3>1 DEF Out
  <2>9. Out(g)' = Out(g) \cup {to}
    <3>1. Out(g)' \subseteq Out(g) \cup {to}
      BY <1>13, <2>3, <2>4, <2>5, <2>8 DEF Out
    <3>2. Out(g) \cup {to} \subseteq Out(g)'
      BY <1>2, <1>4, <1>13, <2>3, <2>4, <2>5 DEF Out
    <3> QED BY <3>1, <3>2
  <2> QED BY <1>4, <1>10, <2>3, <2>6, <2>9
<1>16. CASE ~ last
  <2>1. \A s : Did(g, s)' = Did(g, s) /\ At(g, s)' = At(g, s)
    BY <1>16 DEF Did, At
  <2>2. Prep(g)' = Prep(g) /\ Shut(g)' = Shut(g) /\ Created(g)' = Created(g)
    BY <2>1 DEF Prep, Shut, Created
  <2>3. Making(g, "serve")' = Making(g, "serve") /\ Making(g, "opening")' = Making(g, "opening")
    BY <1>16, <2>1 DEF Making
  <2>4. Hold(g)' = Hold(g)
    BY <2>1, <2>2, <2>3 DEF Hold
  <2>5. \A x \in g.fles, s \in g.fles : (s # m \/ x # to) /\ s \in Making(g, "serve") \cup Making(g, "opening") =>
          (x \in ToSet(jobs'[s[1]]) <=> x \in ToSet(jobs[s[1]]))
    BY <1>3, <1>13, <1>14
  <2>6. Out(g)' \subseteq Out(g) \cup {to}
    BY <2>2, <2>3, <2>5 DEF Out
  <2>7. Out(g) \subseteq Out(g)'
    BY <1>10, <2>2, <2>3, <2>5 DEF Out
  <2>8. to \in Out(g)'
    <3>1. to \notin ToSet(jobs'[m[1]])
      BY <1>3, <1>14
    <3>2. pc[t] = "opening" => to \in g.ends[m]
      BY <1>2, <1>3
    <3> QED BY <1>2, <1>4, <1>7, <2>3, <3>1, <3>2 DEF Out
  <2> QED BY <1>4, <1>10, <2>2, <2>4, <2>6, <2>7, <2>8
<1> QED BY <1>15, <1>16

-----------------------------------------------------------------------------
(* What is in descriptors and queues *)

Holders(g) == {t \in g.tasks : g.owner[t] = t}
Contents == Files \cup {Free, Transport, Temporary}

\* Tables and queues, once the sets of entries are known.
LEMMA SetViews ==
  ASSUME NEW g, NEW P, NEW H, NEW S, NEW O,
         Prep(g)' = P, Hold(g)' = H, Shut(g)' = S, Out(g)' = O,
         Tables(g, P, H, S)', Queues(g, P, H, O)'
  PROVE  Tables(g, Prep(g), Hold(g), Shut(g))' /\ Queues(g, Prep(g), Hold(g), Out(g))'
<1>1. Tables(g, Prep(g), Hold(g), Shut(g))'
  BY DEF Tables, Content, TempAt
<1>2. Queues(g, Prep(g), Hold(g), Out(g))'
  BY DEF Queues
<1> QED BY <1>1, <1>2

\* Whoever restores a table is not disturbed by descriptors of the sharers.
LEMMA NoTempWhenActive ==
  ASSUME NEW g, Good(g), TypeInv(g), ShareInv(g), NEW t \in g.tasks, pc[t] \in Active, NEW fd
  PROVE  ~ TempAt(g, t, fd)
<1> SUFFICES ASSUME NEW s \in g.sharers, g.owner[s] = t, temp[s] # NoFile PROVE FALSE
  BY DEF TempAt
<1>1. s \in g.tasks /\ t \in g.sharers
  BY DEF Good, GoodOwners
<1>2. pc[s] \in {"before", "done"}
  BY <1>1 DEF ShareInv
<1>3. s \in Entered(g)
  BY <1>1 DEF ShareInv
<1>4. pc[s] = "done"
  BY <1>2, <1>3 DEF Entered
<1>5. pc[t] = "done"
  BY <1>4 DEF ShareInv
<1> QED BY <1>5 DEF Active

\* One row of the tables changes.
LEMMA RowUpdate ==
  ASSUME NEW g, NEW P, NEW H, NEW S, NEW P2, NEW H2, NEW S2, Tables(g, P, H, S),
         NEW o \in Holders(g), \A fd : ~ TempAt(g, o, fd), temp' = temp,
         \A t \in Holders(g) \ {o} : table'[t] = table[t],
         \A fd \in Descriptors : table'[o][fd] = Content(g, P2, H2, S2, <<o, fd>>),
         \A e \in g.fles : e[1] # o => (e \in P2 <=> e \in P) /\ (e \in H2 <=> e \in H) /\ (e \in S2 <=> e \in S)
  PROVE  Tables(g, P2, H2, S2)'
<1>4. \A t, fd : TempAt(g, t, fd)' <=> TempAt(g, t, fd)
  BY DEF TempAt
<1>5. \A t, fd : t # o => Content(g, P2, H2, S2, <<t, fd>>) = Content(g, P, H, S, <<t, fd>>)
  <2> SUFFICES ASSUME NEW t, NEW fd, t # o
               PROVE  Content(g, P2, H2, S2, <<t, fd>>) = Content(g, P, H, S, <<t, fd>>)
    OBVIOUS
  <2>1. PICK e : e = <<t, fd>>
    OBVIOUS
  <2>2. e[1] # o
    BY ONLY <2>1, t # o
  <2>3. Content(g, P2, H2, S2, e) = Content(g, P, H, S, e)
    BY <2>2 DEF Content
  <2> QED BY <2>1, <2>3
<1>6. ASSUME NEW t \in Holders(g), NEW fd \in Descriptors
      PROVE  IF TempAt(g, t, fd) THEN table'[t][fd] = Temporary /\ Content(g, P2, H2, S2, <<t, fd>>) = Free
             ELSE table'[t][fd] = Content(g, P2, H2, S2, <<t, fd>>)
  <2>1. CASE t = o
    BY <2>1
  <2>2. CASE t # o
    <3>1. IF TempAt(g, t, fd) THEN table[t][fd] = Temporary /\ Content(g, P, H, S, <<t, fd>>) = Free
          ELSE table[t][fd] = Content(g, P, H, S, <<t, fd>>)
      BY DEF Tables, Holders
    <3> QED BY <1>5, <2>2, <3>1
  <2> QED BY <2>1, <2>2
<1>7. \A t \in Holders(g), fd \in Descriptors :
        IF TempAt(g, t, fd)' THEN table'[t][fd] = Temporary /\ Content(g, P2, H2, S2, <<t, fd>>) = Free
        ELSE table'[t][fd] = Content(g, P2, H2, S2, <<t, fd>>)
  BY <1>4, <1>6
<1>8. \A e : Content(g, P2, H2, S2, e)' = Content(g, P2, H2, S2, e)
  BY DEF Content
<1> QED BY <1>7, <1>8 DEF Tables, Holders

\* One descriptor changes.
LEMMA CellExcept ==
  ASSUME NEW g, TypeInv(g), NEW o \in Holders(g), NEW fd \in Descriptors, NEW v \in Contents,
         table' = [table EXCEPT ![o][fd] = v]
  PROVE  /\ table' \in [Holders(g) -> [Descriptors -> Contents]]
         /\ \A t \in Holders(g) \ {o} : table'[t] = table[t]
         /\ table'[o][fd] = v
         /\ \A x \in Descriptors \ {fd} : table'[o][x] = table[o][x]
<1>1. table \in [Holders(g) -> [Descriptors -> Contents]]
  BY DEF TypeInv, Holders, Contents
<1> QED BY <1>1

\* One descriptor of a table changes, and one entry with it.
LEMMA CellUpdate ==
  ASSUME NEW g, NEW P, NEW H, NEW S, NEW P2, NEW H2, NEW S2, Tables(g, P, H, S),
         NEW o \in Holders(g), \A x : ~ TempAt(g, o, x), temp' = temp,
         NEW fd \in Descriptors,
         \A t \in Holders(g) \ {o} : table'[t] = table[t],
         \A x \in Descriptors \ {fd} : table'[o][x] = table[o][x],
         table'[o][fd] = Content(g, P2, H2, S2, <<o, fd>>),
         \A e \in g.fles : e # <<o, fd>> => (e \in P2 <=> e \in P) /\ (e \in H2 <=> e \in H) /\ (e \in S2 <=> e \in S)
  PROVE  Tables(g, P2, H2, S2)'
<1>5. \A x \in Descriptors : x # fd => Content(g, P2, H2, S2, <<o, x>>) = Content(g, P, H, S, <<o, x>>)
  <2> SUFFICES ASSUME NEW x \in Descriptors, x # fd
               PROVE  Content(g, P2, H2, S2, <<o, x>>) = Content(g, P, H, S, <<o, x>>)
    OBVIOUS
  <2>1. PICK e : e = <<o, x>>
    OBVIOUS
  <2>2. e # <<o, fd>>
    BY ONLY <2>1, x # fd
  <2>3. Content(g, P2, H2, S2, e) = Content(g, P, H, S, e)
    BY <2>2 DEF Content
  <2> QED BY <2>1, <2>3
<1>6. \A x \in Descriptors : table[o][x] = Content(g, P, H, S, <<o, x>>)
  BY DEF Tables, Holders
<1>7. \A x \in Descriptors : table'[o][x] = Content(g, P2, H2, S2, <<o, x>>)
  BY <1>5, <1>6
<1>8. \A e \in g.fles : e[1] # o => (e \in P2 <=> e \in P) /\ (e \in H2 <=> e \in H) /\ (e \in S2 <=> e \in S)
  OBVIOUS
<1> QED BY ONLY <1>7, <1>8, Tables(g, P, H, S), o \in Holders(g), \A x : ~ TempAt(g, o, x), temp' = temp,
                \A t \in Holders(g) \ {o} : table'[t] = table[t], RowUpdate

\* Tables that nothing happens to.
LEMMA SameTables ==
  ASSUME NEW g, NEW P, NEW H, NEW S, Tables(g, P, H, S), table' = table, temp' = temp
  PROVE  Tables(g, P, H, S)'
  BY DEF Tables, Content, TempAt

\* Only entries with a transport are sent files.
LEMMA OutWants ==
  ASSUME NEW g, Good(g)
  PROVE  \A x \in Out(g) : x \in g.fles /\ Wants(g, x)
<1> SUFFICES ASSUME NEW x \in Out(g) PROVE x \in g.fles /\ Wants(g, x)
  OBVIOUS
<1>1. PICK m \in g.fles : x \in Targets(g, m) /\ m \in Created(g) \cup Making(g, "serve") \cup Making(g, "opening")
  BY DEF Out
<1>2. g.master[m] = m
  BY <1>1 DEF Created, Making
<1> QED BY <1>1, <1>2, OneSender

\* The file in the queue of an entry is received, and goes to the descriptors D.
LEMMA QueueTaken ==
  ASSUME NEW g, NEW P, NEW H, NEW O, Queues(g, P, H, O), NEW D, NEW e \in g.fles,
         \A x \in O : Wants(g, x),
         \A x \in D : (x = e /\ x \in O) \/ ~ Wants(g, x),
         real_pid' = real_pid, inbox'[e] = NoFile, e \in D \/ inbox[e] = NoFile,
         \A x \in g.fles \ {e} : inbox'[x] = inbox[x]
  PROVE  Queues(g, P, H \cup D, O)'
<1>1. \A x \in g.fles : inbox[x] = IF x \in O \ H THEN g.file[x] ELSE NoFile
  BY DEF Queues
<1>2. \A x \in g.fles : inbox'[x] = IF x \in O \ (H \cup D) THEN g.file[x] ELSE NoFile
  BY <1>1
<1>3. real_pid' = P /\ O \subseteq P /\ \A x \in H \cup D : Wants(g, x) => x \in O
  BY DEF Queues
<1> QED BY <1>2, <1>3 DEF Queues, Wants

\* One more entry is sent its file.
LEMMA QueueFilled ==
  ASSUME NEW g, NEW P, NEW H, NEW O, Queues(g, P, H, O), NEW to \in P, to \notin H,
         real_pid' = real_pid, inbox'[to] = g.file[to],
         \A x \in g.fles \ {to} : inbox'[x] = inbox[x]
  PROVE  Queues(g, P, H, O \cup {to})'
<1>1. \A x \in g.fles : inbox[x] = IF x \in O \ H THEN g.file[x] ELSE NoFile
  BY DEF Queues
<1>2. \A x \in g.fles : inbox'[x] = IF x \in (O \cup {to}) \ H THEN g.file[x] ELSE NoFile
  BY <1>1
<1>3. real_pid' = P /\ O \cup {to} \subseteq P /\ \A x \in H : Wants(g, x) => x \in O \cup {to}
  BY DEF Queues
<1> QED BY <1>2, <1>3 DEF Queues, Wants

\* A transport is opened, or nothing happens.
LEMMA QueueAdded ==
  ASSUME NEW g, NEW P, NEW H, NEW O, Queues(g, P, H, O), NEW N,
         real_pid' = real_pid \cup N, inbox' = inbox
  PROVE  Queues(g, P \cup N, H, O)'
<1>1. real_pid' = P \cup N /\ O \subseteq P \cup N
  BY DEF Queues
<1> QED BY <1>1 DEF Queues, Wants

\* Nothing is sent or received.
LEMMA SameQueues ==
  ASSUME NEW g, NEW P, NEW H, NEW O, Queues(g, P, H, O), real_pid' = real_pid, inbox' = inbox
  PROVE  Queues(g, P, H, O)'
  BY DEF Queues, Wants

\* A task that nothing happens to.
LEMMA PcFrame ==
  ASSUME NEW g, NEW t, PcOf(g, t), pc'[t] = pc[t], step'[t] = step[t], jobs'[t] = jobs[t]
  PROVE  PcOf(g, t)'
<1>1. \A m : AtWork(g, t, m) => AtWork(g, t, m)'
  BY DEF AtWork, At, Peers
<1> QED BY <1>1 DEF PcOf

\* A step of a task within prepare_fds().
LEMMA WorkFrame ==
  ASSUME NEW g, Good(g), TypeInv(g), PcInv(g), ShareInv(g), NEW t \in g.tasks, pc[t] \in Active, pc'[t] \in Active,
         step'[t] \in Nat \ {0}, jobs'[t] \in Seq(g.fles),
         pc' = [pc EXCEPT ![t] = pc'[t]], step' = [step EXCEPT ![t] = step'[t]],
         jobs' = [jobs EXCEPT ![t] = jobs'[t]],
         PcOf(g, t)', temp' = temp, fdt_lock' = fdt_lock, failed' = failed,
         watched' \in [Files -> SUBSET Files],
         table' \in [Holders(g) -> [Descriptors -> Contents]],
         inbox' \in [g.tasks \X Descriptors -> Files \cup {NoFile}]
  PROVE  TypeInv(g)' /\ PcInv(g)' /\ ShareInv(g)'
<1>1. \A s \in g.tasks \ {t} : pc'[s] = pc[s] /\ step'[s] = step[s] /\ jobs'[s] = jobs[s]
  BY DEF TypeInv
<1>2. TypeInv(g)'
  BY DEF TypeInv, Holders, Contents
<1>3. PcInv(g)'
  <2>1. \A s \in g.tasks \ {t} : PcOf(g, s)'
    BY <1>1, PcFrame DEF PcInv
  <2> QED BY <2>1 DEF PcInv
<1>4. ShareInv(g)'
  <2>1. g.sharers \subseteq g.tasks /\ \A s \in g.sharers : g.owner[s] \in g.tasks
    BY DEF Good, GoodOwners
  <2>2. \A s \in g.tasks : \/ pc'[s] = pc[s]
                           \/ s = t /\ pc[s] \in Active /\ pc'[s] \in Active
    BY <1>1
  <2>3. Entered(g)' = Entered(g)
    BY <2>1, <2>2 DEF Entered, Active
  <2>4. TableDone(g)' <=> TableDone(g)
    BY <2>1, <2>2 DEF TableDone, Active
  <2>5. \A s \in g.tasks : /\ pc'[s] = "done" <=> pc[s] = "done"
                           /\ pc'[s] \in {"before", "done"} <=> pc[s] \in {"before", "done"}
                           /\ pc'[s] \in Active \cup {"wait", "done"} => pc[s] \in Active \cup {"wait", "done"}
    BY <2>2 DEF Active
  <2>6. fdt_lock' = Cardinality(Entered(g)') + (IF TableDone(g)' THEN 1 ELSE 0)
    BY <2>3, <2>4 DEF ShareInv
  <2>7. \A s \in g.sharers : pc'[s] \in Active \cup {"wait", "done"} => Entered(g)' = g.sharers
    BY <2>1, <2>3, <2>5 DEF ShareInv
  <2>8. \A s \in g.sharers : pc'[s] = "done" => pc'[g.owner[s]] = "done"
    BY <2>1, <2>5 DEF ShareInv
  <2>9. /\ \A s \in g.tasks : temp'[s] # NoFile => s \in g.sharers /\ pc'[s] \in {"before", "done"}
        /\ \A r, s \in g.tasks : temp'[r] # NoFile /\ temp'[r] = temp'[s] => r = s
    BY <2>5 DEF ShareInv
  <2> QED BY <2>6, <2>7, <2>8, <2>9 DEF ShareInv
<1> QED BY <1>2, <1>3, <1>4

-----------------------------------------------------------------------------
(* The steps of prepare_fds() *)

Context(g) == StaticInv /\ Phase /\ LeaderOwns /\ NoInFlight /\ g = Graph /\ Inv0(g)

\* The parts of the invariant, with what the graph is.
LEMMA ContextFacts ==
  ASSUME NEW g, Context(g)
  PROVE  /\ Good(g) /\ TypeInv(g) /\ PcInv(g) /\ ShareInv(g) /\ CttyInv(g)
         /\ Tables(g, Prep(g), Hold(g), Shut(g)) /\ Queues(g, Prep(g), Hold(g), Out(g))
         /\ g.tasks = Tasks /\ g.sharers = Sharers /\ g.fles = Fles(image)
         /\ \A t \in g.tasks : FdtPid(t) = g.owner[t]
         /\ Holders(g) = Owners
<1>1. Good(g)
  BY GraphGood DEF Context
<1>2. /\ g.tasks = Tasks /\ g.sharers = Sharers /\ g.fles = Fles(image)
      /\ \A t \in g.tasks : FdtPid(t) = g.owner[t]
  BY GraphFields DEF Context
<1>3. Holders(g) = Owners
  BY GraphOwners DEF Context, Holders
<1> QED BY <1>1, <1>2, <1>3 DEF Context, Inv0

\* A task at work on its plan.
LEMMA ActiveFacts ==
  ASSUME NEW g, Context(g), NEW t \in g.tasks, pc[t] \in Active
  PROVE  /\ rst = Lists /\ rst.plan[t] = g.plan[t]
         /\ g.owner[t] = t /\ FdtPid(t) = t /\ t \in Holders(g)
         /\ step[t] \in Nat \ {0}
         /\ \A fd : ~ TempAt(g, t, fd)
<1>1. t \in Tasks /\ Good(g) /\ TypeInv(g) /\ PcInv(g) /\ ShareInv(g)
  BY ContextFacts
<1>2. rst = Lists
  BY <1>1 DEF Context, Phase, Active
<1>3. rst.plan[t] = plan(t)
  BY <1>1, <1>2 DEF Lists
<1>4. g.plan[t] = plan(t)
  BY <1>1, GraphFields DEF Context
<1>5. g.owner[t] = t
  BY <1>1 DEF PcInv, PcOf
<1>6. FdtPid(t) = t
  BY <1>5, ContextFacts
<1>7. step[t] \in Nat \ {0}
  BY <1>1 DEF TypeInv
<1> QED BY <1>1, <1>2, <1>3, <1>4, <1>5, <1>6, <1>7, NoTempWhenActive DEF Holders

\* A task at a step of its plan.
LEMMA AtFacts ==
  ASSUME NEW g, Context(g), NEW t \in g.tasks, pc[t] \in Active, step[t] <= Len(g.plan[t])
  PROVE  /\ Fle(t) \in g.fles /\ Fle(t) = <<t, Fle(t)[2]>> /\ Fle(t)[1] = t /\ Fle(t)[2] \in Descriptors
         /\ At(g, t) = <<rst.plan[t][step[t]][1], Fle(t)>>
         /\ File(t) = g.file[Fle(t)] /\ File(t) \in Files /\ Here(t) = table[t][Fle(t)[2]]
         /\ At(g, t) \notin Did(g, t) /\ At(g, t) \in Early(g, t) \cup Late(g, t)
<1>1. /\ rst.plan[t] = g.plan[t] /\ FdtPid(t) = t /\ step[t] \in Nat \ {0}
  BY ActiveFacts
<1>2. Good(g)
  BY ContextFacts
<1>3. At(g, t) \in (Early(g, t) \cup Late(g, t)) \ Did(g, t)
  BY <1>1, <1>2, PlanFacts
<1>4. PICK c, e : c = At(g, t)[1] /\ e = At(g, t)[2]
  OBVIOUS
<1>5. rst.plan[t][step[t]][1] = c /\ Fle(t) = e
  BY <1>1, <1>4 DEF At, Fle
<1>6. At(g, t) = <<c, e>> /\ c \in {"prepare", "create", "receive", "post_create"}
  BY <1>3, <1>4, StepKinds
<1>7. e \in g.fles /\ e[1] = t
  BY <1>2, <1>3, <1>6, StepKinds DEF Good, GoodFles
<1>8. e = <<t, e[2]>> /\ e[2] \in Descriptors /\ g.file[e] \in Files
  BY <1>2, <1>7 DEF Good, GoodFles
<1>9. File(t) = g.file[e]
  BY <1>5, <1>7, ContextFacts, GraphFields DEF File, Context
<1>10. Here(t) = table[t][e[2]]
  BY <1>1, <1>5 DEF Here
<1> QED BY <1>3, <1>5, <1>6, <1>7, <1>8, <1>9, <1>10

\* What comes after the last file comes after all of the rest.
LEMMA AtOrder ==
  ASSUME NEW g, Context(g), NEW t \in g.tasks, pc[t] \in Active, step[t] <= Len(g.plan[t])
  PROVE  /\ At(g, t)[1] # "post_create" => Did(g, t) \cap Late(g, t) = {}
         /\ At(g, t)[1] = "post_create" => Early(g, t) \subseteq Did(g, t)
<1>1. step[t] \in Nat \ {0} /\ Good(g)
  BY ActiveFacts, ContextFacts
<1>2. /\ At(g, t) \in Early(g, t) \cup Late(g, t)
      /\ At(g, t) \in Early(g, t) => Did(g, t) \cap Late(g, t) = {}
      /\ At(g, t) \in Late(g, t) => Early(g, t) \subseteq Did(g, t)
  BY <1>1, PlanFacts
<1>3. At(g, t) \in Late(g, t) <=> At(g, t)[1] = "post_create"
  BY <1>2, StepKinds
<1> QED BY <1>2, <1>3

\* Before the last states no service descriptor is closed, in them all files of
\* the task are there.
LEMMA NothingShut ==
  ASSUME NEW g, Good(g), NEW t, Did(g, t) \cap Late(g, t) = {}, NEW e \in g.fles, e[1] = t
  PROVE  e \notin Shut(g)
<1>1. e[2] = CTL_TTY => e \in g.post
  BY DEF Good, GoodFles
<1> QED BY <1>1 DEF Shut, Late

\* A task that has received its last file has all of them.
LEMMA AllHeld ==
  ASSUME NEW g, Good(g), NEW t, Early(g, t) \subseteq Did(g, t), NEW e \in g.fles, e[1] = t
  PROVE  e \in Hold(g)
<1>1. PICK m \in g.fles : m = g.master[e] /\ g.master[m] = m
  BY DEF Good, GoodFles
<1>2. CASE m[1] = t
  <2>1. <<"create", m>> \in Early(g, t)
    BY <1>1, <1>2 DEF Early
  <2>2. m \in Created(g)
    BY <1>1, <1>2, <2>1 DEF Created
  <2> QED BY <1>1, <1>2, <2>2 DEF Hold
<1>3. CASE m[1] # t
  <2>1. <<"receive", e>> \in Early(g, t)
    BY <1>1, <1>3 DEF Early
  <2> QED BY <1>1, <1>3, <2>1 DEF Hold
<1> QED BY <1>2, <1>3

\* The end of a step of the loop.
LEMMA AdvanceFrame ==
  ASSUME NEW g, Context(g), NEW t \in g.tasks, pc[t] = "loop", step[t] <= Len(g.plan[t]),
         Advance(t), jobs' = jobs, temp' = temp, fdt_lock' = fdt_lock,
         watched' \in [Files -> SUBSET Files],
         table' \in [Holders(g) -> [Descriptors -> Contents]],
         inbox' \in [g.tasks \X Descriptors -> Files \cup {NoFile}]
  PROVE  TypeInv(g)' /\ PcInv(g)' /\ ShareInv(g)'
<1>1. Good(g) /\ TypeInv(g) /\ PcInv(g) /\ ShareInv(g) /\ g.owner[t] = t
  BY ContextFacts, ActiveFacts DEF Active
<1>2. step' = [step EXCEPT ![t] = @ + 1] /\ pc' = pc /\ failed' = failed
  BY DEF Advance
<1>3. step[t] \in Nat \ {0} /\ step'[t] = step[t] + 1 /\ jobs[t] \in Seq(g.fles)
  BY <1>1, <1>2 DEF TypeInv
<1>4. Len(g.plan[t]) \in Nat
  BY <1>1 DEF Good, GoodPlan, Enumerates
<1>5. PcOf(g, t)'
  <2>1. step'[t] <= Len(g.plan[t]) + 1
    BY <1>3, <1>4
  <2>2. pc'[t] = "loop"
    BY <1>2
  <2> QED BY <1>1, <2>1, <2>2 DEF PcOf
<1>6. /\ pc' = [pc EXCEPT ![t] = pc'[t]] /\ step' = [step EXCEPT ![t] = step'[t]]
      /\ jobs' = [jobs EXCEPT ![t] = jobs'[t]]
  BY <1>1, <1>2, <1>3 DEF TypeInv
<1>7. pc[t] \in Active /\ pc'[t] \in Active /\ step'[t] \in Nat \ {0} /\ jobs'[t] \in Seq(g.fles)
  BY <1>2, <1>3 DEF Active
<1> QED BY <1>1, <1>2, <1>5, <1>6, <1>7, WorkFrame

\* The descriptor a transport goes to is free.
LEMMA open_transport_fdStep ==
  ASSUME NEW g, Context(g), NEW t \in g.tasks, open_transport_fd(t)
  PROVE  Inv0(g)'
<1>1. pc[t] = "loop" /\ pc[t] \in Active /\ step[t] <= Len(rst.plan[t]) /\ rst.plan[t][step[t]][1] = "prepare"
  BY DEF open_transport_fd, AtStep, Active
<1>2. Good(g) /\ TypeInv(g) /\ Tables(g, Prep(g), Hold(g), Shut(g)) /\ Queues(g, Prep(g), Hold(g), Out(g)) /\ CttyInv(g)
  BY ContextFacts
<1>3. rst.plan[t] = g.plan[t] /\ FdtPid(t) = t /\ t \in Holders(g) /\ \A fd : ~ TempAt(g, t, fd)
  BY <1>1, ActiveFacts
<1>4. step[t] <= Len(g.plan[t])
  BY <1>1, <1>3
<1> PICK e : e = Fle(t)
  OBVIOUS
<1>5. /\ e \in g.fles /\ At(g, t) = <<"prepare", e>> /\ e = <<t, e[2]>> /\ e[1] = t
      /\ e[2] \in Descriptors /\ Here(t) = table[t][e[2]] /\ <<"prepare", e>> \notin Did(g, t)
      /\ <<"prepare", e>> \in Early(g, t) \cup Late(g, t)
  BY <1>1, <1>4, AtFacts
<1>6. Wants(g, e)
  BY <1>5, StepKinds
<1>7. PICK P, H, S, O : P = Prep(g) /\ H = Hold(g) /\ S = Shut(g) /\ O = Out(g)
  OBVIOUS
<1>8. e \notin P /\ e \notin O /\ e \notin H
  <2>1. e \notin P
    BY <1>5, <1>7 DEF Prep
  <2> QED BY <1>2, <1>6, <1>7, <2>1 DEF Queues
<1> PICK P2 : P2 = P \cup {e}
  OBVIOUS
<1>9. Content(g, P, H, S, e) = Free /\ Content(g, P2, H, S, e) = Transport
  BY <1>5, <1>8 DEF Content
<1>10. Here(t) = Free
  <2>1. table[t][e[2]] = Content(g, P, H, S, <<t, e[2]>>)
    BY <1>2, <1>3, <1>5, <1>7 DEF Tables, Holders
  <2> QED BY <1>5, <1>9, <2>1
<1>11. /\ table' = [table EXCEPT ![t][e[2]] = Transport] /\ real_pid' = real_pid \cup {e} /\ Advance(t)
       /\ inbox' = inbox /\ jobs' = jobs /\ temp' = temp /\ fdt_lock' = fdt_lock /\ watched' = watched /\ ctty' = ctty
  BY <1>3, <1>5, <1>10 DEF open_transport_fd, effectVars
<1>12. /\ table' \in [Holders(g) -> [Descriptors -> Contents]]
       /\ \A s \in Holders(g) \ {t} : table'[s] = table[s]
       /\ table'[t][e[2]] = Transport
       /\ \A x \in Descriptors \ {e[2]} : table'[t][x] = table[t][x]
  <2>1. Transport \in Contents
    BY DEF Contents
  <2> QED BY ZenonT(40), <1>2, <1>3, <1>5, <1>11, <2>1, CellExcept
<1>13. TypeInv(g)' /\ PcInv(g)' /\ ShareInv(g)'
  <2>1. watched' \in [Files -> SUBSET Files] /\ inbox' \in [g.tasks \X Descriptors -> Files \cup {NoFile}]
    BY <1>2, <1>11 DEF TypeInv
  <2> QED BY <1>1, <1>4, <1>11, <1>12, <2>1, AdvanceFrame
<1>14. Prep(g)' = P2 /\ Hold(g)' = H /\ Shut(g)' = S /\ Out(g)' = O
  <2>1. step' = [step EXCEPT ![t] = @ + 1] /\ pc' = pc
    BY <1>11 DEF Advance
  <2>2. At(g, t)[1] = "prepare" /\ At(g, t)[2] = e
    BY <1>5
  <2> QED BY <1>1, <1>2, <1>4, <1>7, <1>11, <2>1, <2>2, NextViews
<1>15. Tables(g, P2, H, S)'
  <2>1. \A x \in g.fles : x # <<t, e[2]>> => (x \in P2 <=> x \in P) /\ (x \in H <=> x \in H) /\ (x \in S <=> x \in S)
    BY <1>5
  <2>2. table'[t][e[2]] = Content(g, P2, H, S, <<t, e[2]>>)
    BY <1>5, <1>9, <1>12
  <2>3. Tables(g, P, H, S)
    BY <1>2, <1>7
  <2> QED BY ONLY <1>3, <1>5, <1>11, <1>12, <2>1, <2>2, <2>3, CellUpdate
<1>16. Queues(g, P2, H, O)'
  BY <1>2, <1>7, <1>11, QueueAdded
<1>17. CttyInv(g)'
  BY <1>2, <1>7, <1>11, <1>14 DEF CttyInv
<1>18. Tables(g, Prep(g), Hold(g), Shut(g))' /\ Queues(g, Prep(g), Hold(g), Out(g))'
  BY <1>14, <1>15, <1>16, SetViews
<1> QED BY <1>13, <1>17, <1>18 DEF Inv0

\* What the queue of an entry holds.
LEMMA Queued ==
  ASSUME NEW g, Context(g), NEW e \in g.fles, inbox[e] # NoFile
  PROVE  e \in Out(g) /\ e \notin Hold(g) /\ inbox[e] = g.file[e] /\ e \in g.tasks \X Descriptors
<1>1. Queues(g, Prep(g), Hold(g), Out(g)) /\ Good(g)
  BY ContextFacts
<1>2. inbox[e] = IF e \in Out(g) \ Hold(g) THEN g.file[e] ELSE NoFile
  BY <1>1 DEF Queues
<1> QED BY <1>1, <1>2 DEF Good, GoodFles

\* What is received is the file of the entry.
LEMMA receive_fdStep ==
  ASSUME NEW g, Context(g), NEW t \in g.tasks, receive_fd(t)
  PROVE  Inv0(g)'
<1>1. /\ pc[t] = "loop" /\ pc[t] \in Active /\ step[t] <= Len(rst.plan[t])
      /\ rst.plan[t][step[t]][1] = "receive" /\ inbox[Fle(t)] # NoFile
  BY DEF receive_fd, AtStep, Active
<1>2. Good(g) /\ TypeInv(g) /\ Tables(g, Prep(g), Hold(g), Shut(g)) /\ Queues(g, Prep(g), Hold(g), Out(g)) /\ CttyInv(g)
  BY ContextFacts
<1>3. rst.plan[t] = g.plan[t] /\ FdtPid(t) = t /\ t \in Holders(g) /\ \A fd : ~ TempAt(g, t, fd)
  BY <1>1, ActiveFacts
<1>4. step[t] <= Len(g.plan[t])
  BY <1>1, <1>3
<1> PICK e : e = Fle(t)
  OBVIOUS
<1>5. /\ e \in g.fles /\ At(g, t) = <<"receive", e>> /\ e = <<t, e[2]>> /\ e[1] = t
      /\ e[2] \in Descriptors /\ g.file[e] \in Files
  BY <1>1, <1>4, AtFacts
<1>6. PICK P, H, S, O : P = Prep(g) /\ H = Hold(g) /\ S = Shut(g) /\ O = Out(g)
  OBVIOUS
<1> PICK H2 : H2 = H \cup {e}
  OBVIOUS
<1>7. e \in O /\ e \notin H /\ inbox[e] = g.file[e] /\ e \in g.tasks \X Descriptors
  BY <1>1, <1>5, <1>6, Queued
<1>8. e \notin S
  <2>1. Did(g, t) \cap Late(g, t) = {}
    BY <1>1, <1>4, <1>5, AtOrder
  <2> QED BY <1>2, <1>5, <1>6, <2>1, NothingShut
<1>9. Content(g, P, H2, S, e) = g.file[e]
  BY <1>5, <1>8 DEF Content
<1>10. /\ table' = [table EXCEPT ![t][e[2]] = g.file[e]] /\ real_pid' = real_pid /\ Advance(t)
       /\ inbox' = [inbox EXCEPT ![e] = NoFile] /\ jobs' = jobs /\ temp' = temp /\ fdt_lock' = fdt_lock
       /\ watched' = watched /\ ctty' = ctty
  BY <1>3, <1>5, <1>7 DEF receive_fd, effectVars
<1>11. /\ table' \in [Holders(g) -> [Descriptors -> Contents]]
       /\ \A s \in Holders(g) \ {t} : table'[s] = table[s]
       /\ table'[t][e[2]] = g.file[e]
       /\ \A x \in Descriptors \ {e[2]} : table'[t][x] = table[t][x]
  <2>1. g.file[e] \in Contents
    BY <1>5 DEF Contents
  <2> QED BY <1>2, <1>3, <1>5, <1>10, <2>1, CellExcept
<1>12. /\ inbox' \in [g.tasks \X Descriptors -> Files \cup {NoFile}]
       /\ inbox'[e] = NoFile /\ \A x \in g.fles \ {e} : inbox'[x] = inbox[x]
  <2>1. \A x \in g.fles : x \in g.tasks \X Descriptors
    BY <1>2 DEF Good, GoodFles
  <2> QED BY <1>2, <1>7, <1>10, <2>1 DEF TypeInv
<1>13. TypeInv(g)' /\ PcInv(g)' /\ ShareInv(g)'
  <2>1. watched' \in [Files -> SUBSET Files]
    BY <1>2, <1>10 DEF TypeInv
  <2> QED BY <1>1, <1>4, <1>10, <1>11, <1>12, <2>1, AdvanceFrame
<1>14. Prep(g)' = P /\ Hold(g)' = H2 /\ Shut(g)' = S /\ Out(g)' = O
  <2>1. step' = [step EXCEPT ![t] = @ + 1] /\ pc' = pc
    BY <1>10 DEF Advance
  <2>2. At(g, t)[1] = "receive" /\ At(g, t)[2] = e
    BY <1>5
  <2> QED BY <1>1, <1>2, <1>4, <1>6, <1>10, <2>1, <2>2, NextViews
<1>15. Tables(g, P, H2, S)'
  <2>1. \A x \in g.fles : x # <<t, e[2]>> => (x \in P <=> x \in P) /\ (x \in H2 <=> x \in H) /\ (x \in S <=> x \in S)
    BY <1>5
  <2>2. table'[t][e[2]] = Content(g, P, H2, S, <<t, e[2]>>)
    BY <1>5, <1>9, <1>11
  <2>3. Tables(g, P, H, S)
    BY <1>2, <1>6
  <2> QED BY ONLY <1>3, <1>5, <1>10, <1>11, <2>1, <2>2, <2>3, CellUpdate
<1>16. Queues(g, P, H2, O)'
  <2>1. PICK D : D = {e}
    OBVIOUS
  <2>2. \A x \in O : Wants(g, x)
    BY <1>2, <1>6, OutWants
  <2>3. Queues(g, P, H, O)
    BY <1>2, <1>6
  <2>4. \A x \in D : (x = e /\ x \in O) \/ ~ Wants(g, x)
    BY <1>7, <2>1
  <2>5. Queues(g, P, H \cup D, O)'
    BY <1>5, <1>10, <1>12, <2>1, <2>2, <2>3, <2>4, QueueTaken
  <2>6. H \cup D = H2
    BY <2>1
  <2> QED BY <2>5, <2>6
<1>17. CttyInv(g)'
  BY <1>2, <1>6, <1>10, <1>14 DEF CttyInv
<1>18. Tables(g, Prep(g), Hold(g), Shut(g))' /\ Queues(g, Prep(g), Hold(g), Out(g))'
  BY <1>14, <1>15, <1>16, SetViews
<1> QED BY <1>13, <1>17, <1>18 DEF Inv0

\* A step of "post_create" that leaves tables and queues alone.
LEMMA PostStep ==
  ASSUME NEW g, Context(g), NEW t \in g.tasks, pc[t] = "loop", step[t] <= Len(g.plan[t]),
         At(g, t)[1] = "post_create", At(g, t)[2][2] # CTL_TTY,
         Advance(t), table' = table, real_pid' = real_pid, inbox' = inbox, jobs' = jobs, temp' = temp,
         fdt_lock' = fdt_lock, watched' \in [Files -> SUBSET Files], ctty' = ctty
  PROVE  Inv0(g)'
<1>1. Good(g) /\ TypeInv(g) /\ Tables(g, Prep(g), Hold(g), Shut(g)) /\ Queues(g, Prep(g), Hold(g), Out(g)) /\ CttyInv(g)
  BY ContextFacts
<1>2. TypeInv(g)' /\ PcInv(g)' /\ ShareInv(g)'
  <2>1. /\ table' \in [Holders(g) -> [Descriptors -> Contents]]
        /\ inbox' \in [g.tasks \X Descriptors -> Files \cup {NoFile}]
    BY <1>1 DEF TypeInv, Holders, Contents
  <2> QED BY <2>1, AdvanceFrame
<1>3. PICK P, H, S, O : P = Prep(g) /\ H = Hold(g) /\ S = Shut(g) /\ O = Out(g)
  OBVIOUS
<1>4. Prep(g)' = P /\ Hold(g)' = H /\ Shut(g)' = S /\ Out(g)' = O
  <2>1. step' = [step EXCEPT ![t] = @ + 1] /\ pc' = pc
    BY DEF Advance
  <2> QED BY <1>1, <1>3, <2>1, NextViews
<1>5. Tables(g, P, H, S)' /\ Queues(g, P, H, O)'
  BY <1>1, <1>3, SameTables, SameQueues
<1>6. CttyInv(g)'
  BY <1>1, <1>3, <1>4 DEF CttyInv
<1>7. Tables(g, Prep(g), Hold(g), Shut(g))' /\ Queues(g, Prep(g), Hold(g), Out(g))'
  BY <1>4, <1>5, SetViews
<1> QED BY <1>2, <1>6, <1>7 DEF Inv0

\* A task in "post_create", with all of its files.
LEMMA PostFacts ==
  ASSUME NEW g, Context(g), NEW t \in g.tasks, AtStep(t, "post_create")
  PROVE  /\ pc[t] = "loop" /\ pc[t] \in Active /\ step[t] <= Len(g.plan[t]) /\ At(g, t)[1] = "post_create"
         /\ At(g, t)[2] = Fle(t) /\ Fle(t) \in g.fles /\ Fle(t) = <<t, Fle(t)[2]>> /\ Fle(t)[1] = t
         /\ Fle(t)[2] \in Descriptors
         /\ File(t) = g.file[Fle(t)] /\ File(t) \in Files
         /\ Fle(t)[2] = CTL_TTY => Kind[File(t)] = "ptmx"
         /\ \A e \in g.fles : e[1] = t => e \in Hold(g)
<1>1. /\ pc[t] = "loop" /\ pc[t] \in Active /\ step[t] <= Len(rst.plan[t])
      /\ rst.plan[t][step[t]][1] = "post_create"
  BY DEF AtStep, Active
<1>2. step[t] <= Len(g.plan[t])
  BY <1>1, ActiveFacts
<1> PICK e : e = Fle(t)
  OBVIOUS
<1>3. /\ e \in g.fles /\ At(g, t) = <<"post_create", e>> /\ e = <<t, e[2]>> /\ e[1] = t
      /\ e[2] \in Descriptors /\ File(t) = g.file[e] /\ g.file[e] \in Files
  BY <1>1, <1>2, AtFacts
<1>4. Early(g, t) \subseteq Did(g, t)
  BY <1>1, <1>2, <1>3, AtOrder
<1>5. Good(g)
  BY ContextFacts
<1>6. \A x \in g.fles : x[1] = t => x \in Hold(g)
  BY <1>4, <1>5, AllHeld
<1>7. e[2] = CTL_TTY => Kind[g.file[e]] = "ptmx"
  BY <1>3, <1>5 DEF Good, GoodFles
<1> QED BY <1>1, <1>2, <1>3, <1>6, <1>7

\* No socket is refused: whom it is connected to has its name.
LEMMA post_open_unix_skStep ==
  ASSUME NEW g, Context(g), NEW t \in g.tasks, post_open_unix_sk(t)
  PROVE  Inv0(g)'
<1>1. AtStep(t, "post_create") /\ Kind[File(t)] \in {"stream", "dgram"}
  BY DEF post_open_unix_sk
<1>2. /\ pc[t] = "loop" /\ step[t] <= Len(g.plan[t]) /\ At(g, t)[1] = "post_create"
      /\ At(g, t)[2] = Fle(t) /\ File(t) \in Files /\ (Fle(t)[2] = CTL_TTY => Kind[File(t)] = "ptmx")
  BY <1>1, PostFacts
<1>3. At(g, t)[2][2] # CTL_TTY
  BY <1>1, <1>2
<1>4. Advance(t)
  <2>1. CASE Peer[File(t)] = NoFile
    BY <2>1 DEF post_open_unix_sk
  <2>2. CASE Peer[File(t)] # NoFile
    <3>1. Kind[File(t)] = "stream" => Peer[File(t)] \notin Present
      <4>1. StaticInv /\ LeaderOwns /\ NoInFlight /\ sys \in Systems
        BY DEF Context, StaticInv
      <4>2. Fle(t) \in Fles(image)
        BY <1>1, PostFacts, ContextFacts
      <4>3. File(t) \in Present
        BY <4>1, <4>2, HeadFacts DEF File
      <4>4. Present \subseteq sys.files
        BY <4>1, SystemFiles
      <4> QED BY <1>2, <4>1, <4>3, <4>4 DEF NoInFlight
    <3>2. PeerBound(File(t))
      BY <2>2 DEF post_open_unix_sk
    <3>3. ~ Refused(File(t))
      BY <3>1, <3>2 DEF PeerBound, Refused
    <3> QED BY <2>2, <3>3 DEF post_open_unix_sk
  <2> QED BY <2>1, <2>2
<1>5. /\ table' = table /\ real_pid' = real_pid /\ inbox' = inbox /\ jobs' = jobs /\ temp' = temp
      /\ fdt_lock' = fdt_lock /\ watched' = watched /\ ctty' = ctty
  BY DEF post_open_unix_sk, protocolVars
<1>6. watched' \in [Files -> SUBSET Files]
  BY <1>5, ContextFacts DEF TypeInv
<1> QED BY <1>2, <1>3, <1>4, <1>5, <1>6, PostStep

\* The files of a task are in their descriptors.
LEMMA HeldInTable ==
  ASSUME NEW g, Context(g), NEW o \in Holders(g), NEW fd \in Descriptors,
         <<o, fd>> \in Hold(g) /\ <<o, fd>> \notin Shut(g)
  PROVE  table[o][fd] = g.file[<<o, fd>>] /\ g.file[<<o, fd>>] \in Files /\ ~ TempAt(g, o, fd)
<1>1. PICK e \in g.fles : e = <<o, fd>>
  BY DEF Hold
<1>2. Good(g) /\ Tables(g, Prep(g), Hold(g), Shut(g))
  BY ContextFacts
<1>3. g.file[e] \in Files
  BY <1>2 DEF Good, GoodFles
<1>4. Content(g, Prep(g), Hold(g), Shut(g), e) = g.file[e]
  BY <1>1 DEF Content
<1>5. g.file[e] # Free
  BY <1>3, Constants
<1>6. IF TempAt(g, o, fd) THEN table[o][fd] = Temporary /\ Content(g, Prep(g), Hold(g), Shut(g), <<o, fd>>) = Free
      ELSE table[o][fd] = Content(g, Prep(g), Hold(g), Shut(g), <<o, fd>>)
  BY <1>2 DEF Tables, Holders
<1> QED BY <1>1, <1>3, <1>4, <1>5, <1>6

\* An eventpoll file is given files.
LEMMA eventpoll_post_openStep ==
  ASSUME NEW g, Context(g), NEW t \in g.tasks, eventpoll_post_open(t)
  PROVE  Inv0(g)'
<1>1. AtStep(t, "post_create") /\ Kind[File(t)] = "epoll"
  BY DEF eventpoll_post_open
<1>2. /\ pc[t] = "loop" /\ pc[t] \in Active /\ step[t] <= Len(g.plan[t]) /\ At(g, t)[1] = "post_create"
      /\ At(g, t)[2] = Fle(t) /\ File(t) \in Files /\ (Fle(t)[2] = CTL_TTY => Kind[File(t)] = "ptmx")
      /\ \A e \in g.fles : e[1] = t => e \in Hold(g)
  BY <1>1, PostFacts
<1>3. At(g, t)[2][2] # CTL_TTY
  BY <1>1, <1>2
<1>4. /\ table' = table /\ real_pid' = real_pid /\ inbox' = inbox /\ jobs' = jobs /\ temp' = temp
      /\ fdt_lock' = fdt_lock /\ ctty' = ctty /\ Advance(t)
  BY DEF eventpoll_post_open, protocolVars
<1>5. t \in Holders(g) /\ t \in Owners
  BY <1>2, ActiveFacts, ContextFacts
<1>6. \A fd \in Fds : image[t][fd] # NoFile => table[t][fd] \in Files
  <2> SUFFICES ASSUME NEW fd \in Fds, image[t][fd] # NoFile PROVE table[t][fd] \in Files
    OBVIOUS
  <2>1. <<t, fd>> \in Fles(image)
    BY <1>5, EntryFacts DEF Context
  <2>2. <<t, fd>> \in g.fles /\ fd \in Descriptors /\ fd # CTL_TTY
    BY <2>1, ContextFacts, ServiceFd DEF Descriptors
  <2>3. <<t, fd>> \in Hold(g) /\ <<t, fd>> \notin Shut(g)
    BY <1>2, <2>2 DEF Shut
  <2> QED BY <1>5, <2>2, <2>3, HeldInTable
<1>7. watched' \in [Files -> SUBSET Files]
  <2>1. PICK W : W = {table[t][fd] : fd \in {fd \in Fds : image[t][fd] \notin {NoFile, File(t)}}}
    OBVIOUS
  <2>2. watched' = [watched EXCEPT ![File(t)] = W]
    BY <2>1 DEF eventpoll_post_open
  <2>3. W \in SUBSET Files
    BY <1>6, <2>1
  <2>4. watched \in [Files -> SUBSET Files]
    BY ContextFacts DEF TypeInv
  <2> QED BY <2>2, <2>3, <2>4
<1> QED BY <1>2, <1>3, <1>4, <1>7, PostStep

\* The service descriptor is closed when the leader has its terminal.
LEMMA tty_restore_ctl_terminalStep ==
  ASSUME NEW g, Context(g), NEW t \in g.tasks, tty_restore_ctl_terminal(t)
  PROVE  Inv0(g)'
<1>1. AtStep(t, "post_create") /\ Advance(t)
  BY DEF tty_restore_ctl_terminal
<1> PICK e : e = Fle(t)
  OBVIOUS
<1>2. /\ pc[t] = "loop" /\ pc[t] \in Active /\ step[t] <= Len(g.plan[t]) /\ At(g, t)[1] = "post_create"
      /\ At(g, t)[2] = e /\ e \in g.fles /\ e = <<t, e[2]>> /\ e[1] = t /\ e[2] \in Descriptors
      /\ \A x \in g.fles : x[1] = t => x \in Hold(g)
  BY <1>1, PostFacts
<1>3. /\ real_pid' = real_pid /\ inbox' = inbox /\ jobs' = jobs /\ temp' = temp
      /\ fdt_lock' = fdt_lock /\ watched' = watched
  BY DEF tty_restore_ctl_terminal, protocolVars
<1>4. Good(g) /\ TypeInv(g) /\ Tables(g, Prep(g), Hold(g), Shut(g)) /\ Queues(g, Prep(g), Hold(g), Out(g)) /\ CttyInv(g)
  BY ContextFacts
<1>5. watched' \in [Files -> SUBSET Files]
  BY <1>3, <1>4 DEF TypeInv
<1>6. CASE e[2] # CTL_TTY
  <2>1. table' = table /\ ctty' = ctty
    BY <1>6 DEF tty_restore_ctl_terminal
  <2> QED BY <1>1, <1>2, <1>3, <1>5, <1>6, <2>1, PostStep
<1>7. CASE e[2] = CTL_TTY
  <2>1. FdtPid(t) = t /\ t \in Holders(g) /\ \A fd : ~ TempAt(g, t, fd)
    BY <1>2, ActiveFacts
  <2>2. ctty' = ctty \cup {t} /\ table' = [table EXCEPT ![t][e[2]] = Free]
    BY <1>7, <2>1 DEF tty_restore_ctl_terminal
  <2>3. /\ table' \in [Holders(g) -> [Descriptors -> Contents]]
        /\ \A s \in Holders(g) \ {t} : table'[s] = table[s]
        /\ table'[t][e[2]] = Free
        /\ \A x \in Descriptors \ {e[2]} : table'[t][x] = table[t][x]
    <3>1. Free \in Contents
      BY DEF Contents
    <3>2. PICK d : d = e[2]
      OBVIOUS
    <3>3. TypeInv(g) /\ t \in Holders(g) /\ d \in Descriptors /\ table' = [table EXCEPT ![t][d] = Free]
      BY <1>2, <1>4, <2>1, <2>2, <3>2
    <3>4. /\ table' \in [Holders(g) -> [Descriptors -> Contents]]
          /\ \A s \in Holders(g) \ {t} : table'[s] = table[s]
          /\ table'[t][d] = Free
          /\ \A x \in Descriptors \ {d} : table'[t][x] = table[t][x]
      BY ONLY <3>1, <3>3, CellExcept
    <3> QED BY <3>2, <3>4
  <2>4. TypeInv(g)' /\ PcInv(g)' /\ ShareInv(g)'
    <3>1. inbox' \in [g.tasks \X Descriptors -> Files \cup {NoFile}]
      BY <1>3, <1>4 DEF TypeInv
    <3> QED BY <1>1, <1>2, <1>3, <1>5, <2>3, <3>1, AdvanceFrame
  <2>5. PICK P, H, S, O : P = Prep(g) /\ H = Hold(g) /\ S = Shut(g) /\ O = Out(g)
    OBVIOUS
  <2> PICK S2 : S2 = S \cup {e}
    OBVIOUS
  <2>6. Prep(g)' = P /\ Hold(g)' = H /\ Shut(g)' = S2 /\ Out(g)' = O
    <3>1. step' = [step EXCEPT ![t] = @ + 1] /\ pc' = pc
      BY <1>1 DEF Advance
    <3> QED BY <1>2, <1>3, <1>4, <1>7, <2>5, <3>1, NextViews
  <2>7. Content(g, P, H, S2, e) = Free
    BY <1>2, <2>5 DEF Content
  <2>8. Tables(g, P, H, S2)'
    <3>1. \A x \in g.fles : x # <<t, e[2]>> => (x \in P <=> x \in P) /\ (x \in H <=> x \in H) /\ (x \in S2 <=> x \in S)
      BY <1>2
    <3>2. table'[t][e[2]] = Content(g, P, H, S2, <<t, e[2]>>)
      BY <1>2, <2>3, <2>7
    <3>3. Tables(g, P, H, S)
      BY <1>4, <2>5
    <3> QED BY ONLY <1>2, <1>3, <2>1, <2>3, <3>1, <3>2, <3>3, CellUpdate
  <2>9. Queues(g, P, H, O)'
    BY <1>3, <1>4, <2>5, SameQueues
  <2>10. CttyInv(g)'
    BY <1>2, <1>4, <2>2, <2>5, <2>6 DEF CttyInv
  <2>11. Tables(g, Prep(g), Hold(g), Shut(g))' /\ Queues(g, Prep(g), Hold(g), Out(g))'
    BY <2>6, <2>8, <2>9, SetViews
  <2> QED BY <2>4, <2>10, <2>11 DEF Inv0
<1> QED BY <1>6, <1>7

-----------------------------------------------------------------------------
(* Files are made, sent and put in place *)

\* A master at the creation of its file.
LEMMA CreateFacts ==
  ASSUME NEW g, Context(g), NEW t \in g.tasks, pc[t] \in Active, step[t] <= Len(g.plan[t]),
         rst.plan[t][step[t]][1] = "create"
  PROVE  /\ Fle(t) \in g.fles /\ g.master[Fle(t)] = Fle(t) /\ At(g, t) = <<"create", Fle(t)>>
         /\ File(t) \in rst.creators <=> Fle(t) \in g.makers
         /\ Fle(t) \in g.makers => Enumerates(rst.siblings[File(t)], g.ends[Fle(t)])
         /\ Fle(t) \notin g.makers => g.ends[Fle(t)] = {}
         /\ \A x : x \in ToSet(heads[File(t)]) <=> x \in g.fles /\ g.master[x] = Fle(t)
         /\ Enumerates(ServePeers(t), Peers(g, Fle(t)))
         /\ \A x \in g.fles : x[1] = t => x \notin Shut(g)
         /\ <<"create", Fle(t)>> \notin Did(g, t)
<1> PICK m : m = Fle(t)
  OBVIOUS
<1>1. /\ m \in g.fles /\ At(g, t) = <<"create", m>> /\ m[1] = t /\ File(t) = g.file[m]
      /\ <<"create", m>> \in Early(g, t) \cup Late(g, t) /\ <<"create", m>> \notin Did(g, t)
  BY AtFacts
<1>2. g.master[m] = m
  BY <1>1, StepKinds
<1>3. rst = Lists /\ Good(g)
  BY ActiveFacts, ContextFacts
<1>4. /\ File(t) \in rst.creators <=> m \in g.makers
      /\ m \in g.makers => Enumerates(rst.siblings[File(t)], g.ends[m])
      /\ \A x : x \in ToSet(heads[File(t)]) <=> x \in g.fles /\ g.master[x] = m
      /\ Enumerates(Sorted({x \in ToSet(heads[File(t)]) : x[1] # m[1]}), Peers(g, m))
  BY <1>1, <1>2, <1>3, ListsOfMaster DEF Context
<1>5. Enumerates(ServePeers(t), Peers(g, m))
  BY <1>1, <1>4 DEF ServePeers
<1>6. m \notin g.makers => g.ends[m] = {}
  BY <1>1, <1>3 DEF Good, GoodEnds
<1>7. Did(g, t) \cap Late(g, t) = {}
  BY <1>1, AtOrder
<1>8. \A x \in g.fles : x[1] = t => x \notin Shut(g)
  BY <1>3, <1>7, NothingShut
<1> QED BY <1>1, <1>2, <1>4, <1>5, <1>6, <1>8

\* A list of some of the entries is a list of entries.
LEMMA SeqMono ==
  ASSUME NEW S, NEW T, S \subseteq T, NEW q \in Seq(S)
  PROVE  q \in Seq(T)
<1>1. PICK n \in Nat : n = Len(q) /\ q \in [1 .. n -> S]
  OBVIOUS
<1>2. q \in [1 .. n -> T]
  BY <1>1
<1> QED BY <1>1, <1>2

\* The file of a master goes to its descriptors, and the master goes on to serve it.
LEMMA InstallTable ==
  ASSUME NEW g, Context(g), NEW t \in g.tasks, pc[t] \in Active, step[t] <= Len(g.plan[t]),
         rst.plan[t][step[t]][1] = "create",
         table' = [table EXCEPT ![t] = WithDups(t, File(t))], temp' = temp
  PROVE  /\ table' \in [Holders(g) -> [Descriptors -> Contents]]
         /\ \A P, H, S, H2 :
              /\ P = Prep(g) /\ H = Hold(g) /\ S = Shut(g)
              /\ H2 = H \cup {x \in g.fles : g.master[x] = Fle(t) /\ x[1] = t}
              => Tables(g, P, H2, S)'
<1> PICK m : m = Fle(t)
  OBVIOUS
<1>1. /\ m \in g.fles /\ g.master[m] = m
      /\ \A x : x \in ToSet(heads[File(t)]) <=> x \in g.fles /\ g.master[x] = m
      /\ \A x \in g.fles : x[1] = t => x \notin Shut(g)
  BY CreateFacts
<1>2. File(t) = g.file[m] /\ File(t) \in Files
  BY AtFacts
<1>3. Good(g) /\ TypeInv(g) /\ Tables(g, Prep(g), Hold(g), Shut(g))
  BY ContextFacts
<1>4. t \in Holders(g) /\ \A fd : ~ TempAt(g, t, fd)
  BY ActiveFacts
<1>5. table \in [Holders(g) -> [Descriptors -> Contents]]
  BY <1>3 DEF TypeInv, Holders, Contents
<1>6. DOMAIN table[t] = Descriptors
  BY <1>4, <1>5
<1>7. \A fd \in Descriptors : WithDups(t, File(t))[fd] =
         IF <<t, fd>> \in g.fles /\ g.master[<<t, fd>>] = m THEN g.file[m] ELSE table[t][fd]
  BY <1>1, <1>2, <1>6 DEF WithDups
<1>8. WithDups(t, File(t)) \in [Descriptors -> Contents]
  <2>1. WithDups(t, File(t)) = [fd \in Descriptors |-> IF <<t, fd>> \in ToSet(heads[File(t)]) THEN File(t) ELSE table[t][fd]]
    BY <1>6 DEF WithDups
  <2>2. File(t) \in Contents /\ \A fd \in Descriptors : table[t][fd] \in Contents
    BY <1>2, <1>4, <1>5 DEF Contents
  <2> QED BY <2>1, <2>2
<1>9. PICK row : row = WithDups(t, File(t))
  OBVIOUS
<1>10. table' \in [Holders(g) -> [Descriptors -> Contents]] /\ table'[t] = row
       /\ \A s \in Holders(g) \ {t} : table'[s] = table[s]
  BY <1>4, <1>5, <1>8, <1>9
<1>11. ASSUME NEW P, NEW H, NEW S, NEW H2, P = Prep(g), H = Hold(g), S = Shut(g),
              H2 = H \cup {x \in g.fles : g.master[x] = m /\ x[1] = t}
       PROVE  Tables(g, P, H2, S)'
  <2>1. Tables(g, P, H, S)
    BY <1>3, <1>11
  <2>2. \A fd \in Descriptors : table'[t][fd] = Content(g, P, H2, S, <<t, fd>>)
    <3> SUFFICES ASSUME NEW fd \in Descriptors PROVE table'[t][fd] = Content(g, P, H2, S, <<t, fd>>)
      OBVIOUS
    <3> PICK x : x = <<t, fd>>
      OBVIOUS
    <3>1. table[t][fd] = Content(g, P, H, S, x)
      BY <1>4, <2>1 DEF Tables, Holders
    <3>2. x[1] = t
      OBVIOUS
    <3>3. CASE x \in g.fles /\ g.master[x] = m
      <4>1. g.file[x] = g.file[m]
        BY <1>3, <3>3 DEF Good, GoodFles
      <4>2. x \in H2 /\ x \notin S
        BY <1>1, <1>11, <3>2, <3>3
      <4>3. Content(g, P, H2, S, x) = g.file[x]
        BY <3>3, <4>2 DEF Content
      <4> QED BY <1>7, <1>9, <1>10, <3>3, <4>1, <4>3
    <3>4. CASE ~ (x \in g.fles /\ g.master[x] = m)
      <4>1. x \in g.fles => (x \in H2 <=> x \in H)
        BY <1>11, <3>4
      <4>2. Content(g, P, H2, S, x) = Content(g, P, H, S, x)
        BY <4>1 DEF Content
      <4> QED BY <1>7, <1>9, <1>10, <3>1, <3>4, <4>2
    <3> QED BY <3>3, <3>4
  <2>3. \A e \in g.fles : e[1] # t => (e \in P <=> e \in P) /\ (e \in H2 <=> e \in H) /\ (e \in S <=> e \in S)
    BY <1>11
  <2> QED BY ONLY <1>4, <1>10, <2>1, <2>2, <2>3, temp' = temp, RowUpdate
<1> QED BY <1>10, <1>11

\* The master goes on to serve its file, or to the next step of its plan.
LEMMA InstallPc ==
  ASSUME NEW g, Context(g), NEW t \in g.tasks, pc[t] \in Active, step[t] <= Len(g.plan[t]),
         rst.plan[t][step[t]][1] = "create", Install(t, File(t), Free),
         temp' = temp, fdt_lock' = fdt_lock, watched' = watched,
         inbox' \in [g.tasks \X Descriptors -> Files \cup {NoFile}]
  PROVE  /\ TypeInv(g)' /\ PcInv(g)' /\ ShareInv(g)'
         /\ table' = [table EXCEPT ![t] = WithDups(t, File(t))]
         /\ jobs' = [jobs EXCEPT ![t] = ServePeers(t)]
         /\ pc' = [pc EXCEPT ![t] = IF ServePeers(t) = <<>> THEN "loop" ELSE "serve"]
         /\ step' = IF ServePeers(t) = <<>> THEN [step EXCEPT ![t] = @ + 1] ELSE step
<1> PICK m, q : m = Fle(t) /\ q = ServePeers(t)
  OBVIOUS
<1>1. /\ table' = [table EXCEPT ![t] = WithDups(t, File(t))]
      /\ jobs' = [jobs EXCEPT ![t] = q]
      /\ pc' = [pc EXCEPT ![t] = IF q = <<>> THEN "loop" ELSE "serve"]
      /\ step' = IF q = <<>> THEN [step EXCEPT ![t] = @ + 1] ELSE step
      /\ failed' = failed
  BY DEF Install
<1>2. m \in g.fles /\ g.master[m] = m /\ At(g, t) = <<"create", m>> /\ Enumerates(q, Peers(g, m))
  BY CreateFacts
<1>3. m[1] = t
  BY AtFacts
<1>4. Good(g) /\ TypeInv(g) /\ PcInv(g) /\ ShareInv(g)
  BY ContextFacts
<1>5. g.owner[t] = t /\ step[t] \in Nat \ {0}
  BY ActiveFacts
<1>6. Len(g.plan[t]) \in Nat
  BY <1>4 DEF Good, GoodPlan, Enumerates
<1>7. pc'[t] = (IF q = <<>> THEN "loop" ELSE "serve") /\ jobs'[t] = q
      /\ step'[t] = (IF q = <<>> THEN step[t] + 1 ELSE step[t])
  BY <1>1, <1>4 DEF TypeInv
<1>8. /\ pc' = [pc EXCEPT ![t] = pc'[t]] /\ step' = [step EXCEPT ![t] = step'[t]]
      /\ jobs' = [jobs EXCEPT ![t] = jobs'[t]]
  BY <1>1, <1>4, <1>7 DEF TypeInv
<1>9. q \in Seq(g.fles)
  <2>1. Peers(g, m) \subseteq g.fles
    BY DEF Peers
  <2> QED BY <1>2, <2>1, SeqMono DEF Enumerates
<1>10. PcOf(g, t)'
  <2>1. CASE q = <<>>
    <3>1. pc'[t] = "loop" /\ step'[t] <= Len(g.plan[t]) + 1
      BY <1>5, <1>6, <1>7, <2>1
    <3> QED BY <1>5, <3>1 DEF PcOf
  <2>2. CASE q # <<>>
    <3>1. pc'[t] = "serve" /\ step'[t] = step[t] /\ jobs'[t] = q
      BY <1>7, <2>2
    <3>2. At(g, t)' = <<"create", m>>
      BY <1>2, <3>1 DEF At
    <3>3. ToSet(q) \subseteq Peers(g, m) /\ \A i, j \in 1 .. Len(q) : q[i] = q[j] => i = j
      <4>1. ToSet(q) = Peers(g, m)
        BY <1>2, EnumeratesHead
      <4>2. \A i, j \in 1 .. Len(q) : q[i] = q[j] => i = j
        BY <1>2 DEF Enumerates
      <4> QED BY <4>1, <4>2
    <3>4. AtWork(g, t, m)'
      BY <1>2, <1>3, <2>2, <3>1, <3>2, <3>3 DEF AtWork, Peers
    <3> QED BY <1>2, <1>5, <3>1, <3>4 DEF PcOf
  <2> QED BY <2>1, <2>2
<1>11. pc'[t] \in Active /\ step'[t] \in Nat \ {0} /\ jobs'[t] \in Seq(g.fles)
  BY <1>5, <1>7, <1>9 DEF Active
<1>12. table' \in [Holders(g) -> [Descriptors -> Contents]]
  BY <1>1, InstallTable
<1>13. watched' \in [Files -> SUBSET Files]
  BY <1>4 DEF TypeInv
<1>14. TypeInv(g)' /\ PcInv(g)' /\ ShareInv(g)'
  BY <1>1, <1>4, <1>8, <1>10, <1>11, <1>12, <1>13, WorkFrame
<1> QED BY <1>1, <1>14

\* The end of open_fd(), once the descriptor is known to be free.
LEMMA InstallStep ==
  ASSUME NEW g, Context(g), NEW t \in g.tasks, pc[t] \in Active, step[t] <= Len(g.plan[t]),
         rst.plan[t][step[t]][1] = "create", Install(t, File(t), Free),
         \/ pc[t] = "opening" /\ jobs[t] = <<>>
         \/ pc[t] = "loop" /\ Fle(t) \notin g.makers,
         temp' = temp, fdt_lock' = fdt_lock, watched' = watched, ctty' = ctty, real_pid' = real_pid,
         inbox' \in [g.tasks \X Descriptors -> Files \cup {NoFile}],
         Fle(t) \in g.makers \/ Fle(t) \in Out(g),
         inbox'[Fle(t)] = NoFile, \A x \in g.fles \ {Fle(t)} : inbox'[x] = inbox[x]
  PROVE  Inv0(g)'
<1> PICK m, q : m = Fle(t) /\ q = ServePeers(t)
  OBVIOUS
<1>1. /\ TypeInv(g)' /\ PcInv(g)' /\ ShareInv(g)'
      /\ table' = [table EXCEPT ![t] = WithDups(t, File(t))]
      /\ jobs' = [jobs EXCEPT ![t] = q]
      /\ pc' = [pc EXCEPT ![t] = IF q = <<>> THEN "loop" ELSE "serve"]
      /\ step' = IF q = <<>> THEN [step EXCEPT ![t] = @ + 1] ELSE step
  BY InstallPc
<1>2. /\ m \in g.fles /\ g.master[m] = m /\ At(g, t) = <<"create", m>> /\ Enumerates(q, Peers(g, m))
      /\ (m \notin g.makers => g.ends[m] = {})
  BY CreateFacts
<1>3. m[1] = t
  BY AtFacts
<1>4. Good(g) /\ TypeInv(g) /\ Queues(g, Prep(g), Hold(g), Out(g)) /\ CttyInv(g)
  BY ContextFacts
<1>5. PICK P, H, S, O, D, H2 : /\ P = Prep(g) /\ H = Hold(g) /\ S = Shut(g) /\ O = Out(g)
                               /\ D = {x \in g.fles : g.master[x] = m /\ x[1] = t} /\ H2 = H \cup D
  OBVIOUS
<1>6. Prep(g)' = P /\ Hold(g)' = H2 /\ Shut(g)' = S /\ Out(g)' = O
  <2>1. \/ pc[t] = "opening" /\ jobs[t] = <<>>
        \/ pc[t] = "loop" /\ g.ends[m] = {}
    BY <1>2
  <2>2. /\ Prep(g)' = Prep(g) /\ Shut(g)' = Shut(g) /\ Out(g)' = Out(g)
        /\ Hold(g)' = Hold(g) \cup {x \in g.fles : g.master[x] = m /\ x[1] = t}
    <3>1. PutsInPlace(g, t, m, q)
      BY <1>1, <1>2, <1>3, <2>1 DEF PutsInPlace
    <3> QED BY ONLY <1>2, <1>4, t \in g.tasks, <3>1, InstallViews
  <2> QED BY <1>5, <2>2
<1>7. Tables(g, P, H2, S)'
  <2>1. H2 = H \cup {x \in g.fles : g.master[x] = Fle(t) /\ x[1] = t}
    BY <1>5
  <2> QED BY <1>1, <1>5, <2>1, InstallTable
<1>8. Queues(g, P, H2, O)'
  <2>1. \A x \in O : Wants(g, x)
    BY <1>4, <1>5, OutWants
  <2>2. \A x \in D : (x = m /\ x \in O) \/ ~ Wants(g, x)
    BY <1>2, <1>3, <1>5 DEF Wants
  <2>3. m \in D
    BY <1>2, <1>3, <1>5
  <2>4. Queues(g, P, H, O)
    BY <1>4, <1>5
  <2>5. Queues(g, P, H \cup D, O)'
    BY <1>2, <2>1, <2>2, <2>3, <2>4, QueueTaken
  <2> QED BY <1>5, <2>5
<1>9. CttyInv(g)'
  BY <1>4, <1>5, <1>6 DEF CttyInv
<1>10. Tables(g, Prep(g), Hold(g), Shut(g))' /\ Queues(g, Prep(g), Hold(g), Out(g))'
  BY <1>6, <1>7, <1>8, SetViews
<1> QED BY <1>1, <1>9, <1>10 DEF Inv0

\* A file that another master makes: it is on the transport.
LEMMA open_fd_slaveStep ==
  ASSUME NEW g, Context(g), NEW t \in g.tasks, open_fd_slave(t)
  PROVE  Inv0(g)'
<1>1. AtStep(t, "create") /\ File(t) \notin rst.creators /\ recv_fd(t)
  BY DEF open_fd_slave, recv_pipe_fd, open_unixsk_pair_slave, receive_tty
<1>2. pc[t] = "loop" /\ pc[t] \in Active /\ step[t] <= Len(rst.plan[t]) /\ rst.plan[t][step[t]][1] = "create"
  BY <1>1 DEF AtStep, Active
<1>3. step[t] <= Len(g.plan[t])
  BY <1>2, ActiveFacts
<1> PICK m : m = Fle(t)
  OBVIOUS
<1>4. m \in g.fles /\ m \notin g.makers
  BY <1>1, <1>2, <1>3, CreateFacts
<1>5. /\ inbox[m] # NoFile /\ Install(t, inbox[m], Free) /\ inbox' = [inbox EXCEPT ![m] = NoFile]
      /\ real_pid' = real_pid /\ fdt_lock' = fdt_lock /\ temp' = temp /\ watched' = watched /\ ctty' = ctty
  BY <1>1 DEF recv_fd, effectVars
<1>6. m \in Out(g) /\ inbox[m] = g.file[m] /\ m \in g.tasks \X Descriptors
  BY <1>4, <1>5, Queued
<1>7. File(t) = g.file[m]
  BY <1>2, <1>3, AtFacts
<1>8. Install(t, File(t), Free)
  BY <1>5, <1>6, <1>7
<1>9. inbox \in [g.tasks \X Descriptors -> Files \cup {NoFile}]
  BY ContextFacts DEF TypeInv
<1>10. \A x \in g.fles : x \in g.tasks \X Descriptors
  BY ContextFacts DEF Good, GoodFles
<1>11. /\ inbox' \in [g.tasks \X Descriptors -> Files \cup {NoFile}]
       /\ inbox'[m] = NoFile /\ \A x \in g.fles \ {m} : inbox'[x] = inbox[x]
  BY <1>5, <1>6, <1>9, <1>10
<1> QED BY <1>2, <1>3, <1>4, <1>5, <1>6, <1>8, <1>11, InstallStep

\* The descriptor of a file that a master makes is free until it is made.
LEMMA MadeFacts ==
  ASSUME NEW g, Context(g), NEW t \in g.tasks, pc[t] = "opening"
  PROVE  /\ step[t] <= Len(g.plan[t]) /\ rst.plan[t][step[t]][1] = "create" /\ Fle(t) \in g.makers
         /\ Here(t) = Free /\ inbox[Fle(t)] = NoFile
<1>1. Good(g) /\ TypeInv(g) /\ PcInv(g) /\ Tables(g, Prep(g), Hold(g), Shut(g)) /\ Queues(g, Prep(g), Hold(g), Out(g))
  BY ContextFacts
<1>2. pc[t] \in Active
  BY DEF Active
<1>3. step[t] <= Len(g.plan[t]) /\ \E x \in g.fles : AtWork(g, t, x)
  BY <1>1 DEF PcInv, PcOf
<1>4. PICK m \in g.fles : AtWork(g, t, m)
  BY <1>3
<1>5. m \in g.makers /\ g.master[m] = m /\ At(g, t) = <<"create", m>> /\ m[1] = t
  BY <1>4 DEF AtWork
<1>6. /\ Fle(t) = <<t, Fle(t)[2]>> /\ Fle(t)[2] \in Descriptors /\ Here(t) = table[t][Fle(t)[2]]
      /\ At(g, t) = <<rst.plan[t][step[t]][1], Fle(t)>> /\ At(g, t) \notin Did(g, t)
  BY <1>2, <1>3, AtFacts
<1>7. Fle(t) = m /\ rst.plan[t][step[t]][1] = "create"
  BY <1>5, <1>6
<1>8. t \in Holders(g) /\ step[t] \in Nat \ {0} /\ \A fd : ~ TempAt(g, t, fd)
  BY <1>2, ActiveFacts
<1>9. ~ Wants(g, m)
  BY <1>5 DEF Wants
<1>10. m \notin Prep(g)
  <2>1. <<"prepare", m>> \notin Early(g, t) \cup Late(g, t)
    BY <1>9, StepKinds
  <2>2. <<"prepare", m>> \notin Did(g, t)
    BY <1>1, <1>3, <1>8, <2>1, DidPlanned
  <2> QED BY <1>5, <2>2 DEF Prep
<1>11. m \notin Hold(g)
  <2>1. m \notin Created(g)
    BY <1>5, <1>6 DEF Created
  <2>2. m \notin Making(g, "serve")
    BY <1>5 DEF Making
  <2> QED BY <1>5, <2>1, <2>2 DEF Hold
<1>12. m \notin Out(g)
  BY <1>1, <1>9, OutWants
<1>13. Content(g, Prep(g), Hold(g), Shut(g), m) = Free
  BY <1>10, <1>11 DEF Content
<1>14. table[t][m[2]] = Content(g, Prep(g), Hold(g), Shut(g), <<t, m[2]>>)
  BY <1>1, <1>6, <1>7, <1>8 DEF Tables, Holders
<1>15. Here(t) = Free
  BY <1>6, <1>7, <1>13, <1>14
<1>16. inbox[m] = NoFile
  BY <1>1, <1>12 DEF Queues
<1> QED BY <1>3, <1>5, <1>7, <1>15, <1>16

\* A file that its master has made.
LEMMA open_fd_madeStep ==
  ASSUME NEW g, Context(g), NEW t \in g.tasks, open_fd_made(t)
  PROVE  Inv0(g)'
<1>1. /\ pc[t] = "opening" /\ jobs[t] = <<>> /\ Install(t, File(t), Here(t))
      /\ real_pid' = real_pid /\ inbox' = inbox /\ fdt_lock' = fdt_lock /\ temp' = temp
      /\ watched' = watched /\ ctty' = ctty
  BY DEF open_fd_made, protocolVars
<1>2. /\ step[t] <= Len(g.plan[t]) /\ rst.plan[t][step[t]][1] = "create" /\ Fle(t) \in g.makers
      /\ Here(t) = Free /\ inbox[Fle(t)] = NoFile
  BY <1>1, MadeFacts
<1>3. pc[t] \in Active
  BY <1>1 DEF Active
<1>4. Install(t, File(t), Free)
  BY <1>1, <1>2
<1>5. inbox' \in [g.tasks \X Descriptors -> Files \cup {NoFile}]
  BY <1>1, ContextFacts DEF TypeInv
<1>6. inbox'[Fle(t)] = NoFile /\ \A x \in g.fles \ {Fle(t)} : inbox'[x] = inbox[x]
  BY <1>1, <1>2
<1> QED BY <1>1, <1>2, <1>3, <1>4, <1>5, <1>6, InstallStep

\* A master makes its file, and has the other ends to send.
LEMMA open_fd_masterStep ==
  ASSUME NEW g, Context(g), NEW t \in g.tasks, open_fd_master(t)
  PROVE  Inv0(g)'
<1>1. AtStep(t, "create") /\ File(t) \in rst.creators /\ SendEnds(t)
  BY DEF open_fd_master, open_pipe, open_unixsk_pair_master, pty_open_ptmx, pty_open_unpaired_slave,
         pty_open_slaves, bind_unix_sk, eventpoll_open
<1>2. pc[t] = "loop" /\ pc[t] \in Active /\ step[t] <= Len(rst.plan[t]) /\ rst.plan[t][step[t]][1] = "create"
  BY <1>1 DEF AtStep, Active
<1>3. step[t] <= Len(g.plan[t])
  BY <1>2, ActiveFacts
<1> PICK m, q : m = Fle(t) /\ q = rst.siblings[File(t)]
  OBVIOUS
<1>4. /\ m \in g.fles /\ m \in g.makers /\ g.master[m] = m /\ At(g, t) = <<"create", m>>
      /\ Enumerates(q, g.ends[m])
  BY <1>1, <1>2, <1>3, CreateFacts
<1>5. m[1] = t
  BY <1>2, <1>3, AtFacts
<1>6. /\ jobs' = [jobs EXCEPT ![t] = q] /\ pc' = [pc EXCEPT ![t] = "opening"] /\ step' = step
      /\ table' = table /\ real_pid' = real_pid /\ inbox' = inbox /\ fdt_lock' = fdt_lock /\ temp' = temp
      /\ watched' = watched /\ ctty' = ctty /\ failed' = failed
  BY <1>1 DEF SendEnds, protocolVars
<1>7. /\ Good(g) /\ TypeInv(g) /\ PcInv(g) /\ ShareInv(g) /\ CttyInv(g)
      /\ Tables(g, Prep(g), Hold(g), Shut(g)) /\ Queues(g, Prep(g), Hold(g), Out(g))
  BY ContextFacts
<1>8. ToSet(q) = g.ends[m] /\ q \in Seq(g.ends[m]) /\ \A i, j \in 1 .. Len(q) : q[i] = q[j] => i = j
  <2>1. ToSet(q) = g.ends[m]
    BY <1>4, EnumeratesHead
  <2> QED BY <1>4, <2>1 DEF Enumerates
<1>9. PICK P, H, S, O : P = Prep(g) /\ H = Hold(g) /\ S = Shut(g) /\ O = Out(g)
  OBVIOUS
<1>10. Prep(g)' = P /\ Hold(g)' = H /\ Shut(g)' = S /\ Out(g)' = O
  <2>1. BeginsToOpen(g, t, m, q)
    BY <1>2, <1>4, <1>5, <1>6, <1>8 DEF BeginsToOpen
  <2>2. Prep(g)' = Prep(g) /\ Hold(g)' = Hold(g) /\ Shut(g)' = Shut(g) /\ Out(g)' = Out(g)
    BY ONLY <1>4, <1>7, t \in g.tasks, <2>1, OpenViews
  <2> QED BY <1>9, <2>2
<1>11. pc'[t] = "opening" /\ step'[t] = step[t] /\ jobs'[t] = q
  BY <1>6, <1>7 DEF TypeInv
<1>12. /\ pc' = [pc EXCEPT ![t] = pc'[t]] /\ step' = [step EXCEPT ![t] = step'[t]]
       /\ jobs' = [jobs EXCEPT ![t] = jobs'[t]]
  BY <1>6, <1>7, <1>11 DEF TypeInv
<1>13. q \in Seq(g.fles)
  <2>1. g.ends[m] \subseteq g.fles
    BY <1>4, <1>7 DEF Good, GoodEnds
  <2> QED BY <1>8, <2>1, SeqMono
<1>14. g.owner[t] = t /\ step[t] \in Nat \ {0}
  BY <1>2, ActiveFacts
<1>15. PcOf(g, t)'
  <2>1. At(g, t)' = <<"create", m>>
    BY <1>4, <1>6 DEF At
  <2>2. AtWork(g, t, m)'
    BY <1>4, <1>5, <1>8, <1>11, <2>1 DEF AtWork
  <2> QED BY <1>3, <1>4, <1>11, <1>14, <2>2 DEF PcOf
<1>16. pc'[t] \in Active /\ step'[t] \in Nat \ {0} /\ jobs'[t] \in Seq(g.fles)
  BY <1>11, <1>13, <1>14 DEF Active
<1>17. /\ watched' \in [Files -> SUBSET Files] /\ table' \in [Holders(g) -> [Descriptors -> Contents]]
       /\ inbox' \in [g.tasks \X Descriptors -> Files \cup {NoFile}]
  BY <1>6, <1>7 DEF TypeInv, Holders, Contents
<1>18. TypeInv(g)' /\ PcInv(g)' /\ ShareInv(g)'
  BY <1>2, <1>6, <1>7, <1>12, <1>15, <1>16, <1>17, WorkFrame
<1>19. Tables(g, P, H, S)' /\ Queues(g, P, H, O)'
  BY <1>6, <1>7, <1>9, SameTables, SameQueues
<1>20. CttyInv(g)'
  BY <1>6, <1>7, <1>9, <1>10 DEF CttyInv
<1>21. Tables(g, Prep(g), Hold(g), Shut(g))' /\ Queues(g, Prep(g), Hold(g), Out(g))'
  BY <1>10, <1>19, SetViews
<1> QED BY <1>18, <1>20, <1>21 DEF Inv0

\* A transport that is up and was sent nothing is still in its descriptor.
LEMMA TransportInPlace ==
  ASSUME NEW g, Context(g), NEW to \in g.fles, to \in Prep(g), to \notin Hold(g)
  PROVE  table[FdtPid(to[1])][to[2]] = Transport
<1>1. Good(g) /\ Tables(g, Prep(g), Hold(g), Shut(g)) /\ \A s \in g.tasks : FdtPid(s) = g.owner[s]
  BY ContextFacts
<1>2. to = <<to[1], to[2]>> /\ to[1] \in g.tasks /\ g.owner[to[1]] = to[1] /\ to[2] \in Descriptors
  BY <1>1 DEF Good, GoodFles
<1>3. Content(g, Prep(g), Hold(g), Shut(g), to) = Transport
  BY DEF Content
<1>4. PICK o, fd : o = to[1] /\ fd = to[2]
  OBVIOUS
<1>5. to = <<o, fd>> /\ o \in {s \in g.tasks : g.owner[s] = s} /\ fd \in Descriptors /\ FdtPid(to[1]) = o
  BY <1>1, <1>2, <1>4
<1>6. IF TempAt(g, o, fd) THEN table[o][fd] = Temporary /\ Content(g, Prep(g), Hold(g), Shut(g), <<o, fd>>) = Free
      ELSE table[o][fd] = Content(g, Prep(g), Hold(g), Shut(g), <<o, fd>>)
  BY <1>1, <1>5 DEF Tables
<1>7. Transport # Free
  BY DEF Transport, Free
<1> QED BY <1>3, <1>4, <1>5, <1>6, <1>7

\* What a master sends is the file of the one it is sent to.
LEMMA SendFacts ==
  ASSUME NEW g, Context(g), NEW t \in g.tasks, pc[t] \in {"opening", "serve"}, jobs[t] # <<>>,
         NEW to, to = Head(jobs[t]), to \in real_pid
  PROVE  /\ \E m \in g.fles : Sends(g, t, m, to)
         /\ to \in g.fles /\ to \in Prep(g) /\ to \notin Hold(g)
         /\ (IF pc[t] = "opening" THEN desc(image, to) ELSE Here(t)) = g.file[to]
<1>1. /\ Good(g) /\ TypeInv(g) /\ PcInv(g) /\ Queues(g, Prep(g), Hold(g), Out(g)) /\ g.fles = Fles(image)
  BY ContextFacts
<1>2. pc[t] \in Active
  BY DEF Active
<1>3. step[t] <= Len(g.plan[t]) /\ \E x \in g.fles : AtWork(g, t, x)
  BY <1>1 DEF PcInv, PcOf
<1>4. PICK m \in g.fles : AtWork(g, t, m)
  BY <1>3
<1>5. Sends(g, t, m, to)
  BY <1>3, <1>4 DEF Sends
<1>6. /\ to \in Targets(g, m) \ Out(g) /\ to \in ToSet(jobs[t]) /\ to \in g.fles
      /\ m \in Making(g, pc[t])
  BY ONLY <1>1, t \in g.tasks, m \in g.fles, <1>5, SendTarget
<1>7. /\ m[1] = t /\ g.master[m] = m /\ At(g, t) = <<"create", m>>
      /\ (pc[t] = "serve" => ToSet(jobs[t]) \subseteq Peers(g, m))
  BY <1>4 DEF AtWork
<1>8. Wants(g, to)
  BY <1>1, <1>6, <1>7, OneSender
<1>9. to \in Prep(g) /\ to \notin Hold(g)
  BY <1>1, <1>6, <1>8 DEF Queues
<1>10. desc(image, to) = g.file[to]
  BY <1>1, <1>6, GraphFields DEF Context
<1>11. CASE pc[t] = "serve"
  <2>1. /\ Fle(t) = <<t, Fle(t)[2]>> /\ Fle(t)[2] \in Descriptors /\ Here(t) = table[t][Fle(t)[2]]
        /\ At(g, t) = <<rst.plan[t][step[t]][1], Fle(t)>>
    BY <1>2, <1>3, AtFacts
  <2>2. Fle(t) = m /\ rst.plan[t][step[t]][1] = "create"
    BY <1>7, <2>1
  <2>3. m \notin Shut(g)
    BY <1>2, <1>3, <1>7, <2>2, CreateFacts
  <2>4. m \in Hold(g)
    BY <1>6, <1>7, <1>11 DEF Hold
  <2>5. t \in Holders(g)
    BY <1>2, ActiveFacts
  <2>6. PICK d \in Descriptors : d = m[2] /\ m = <<t, d>> /\ Here(t) = table[t][d]
    BY <2>1, <2>2
  <2>7. table[t][d] = g.file[<<t, d>>]
    BY <2>3, <2>4, <2>5, <2>6, HeldInTable
  <2>8. g.master[to] = m
    BY <1>6, <1>7, <1>11 DEF Peers
  <2>9. g.file[to] = g.file[m]
    BY <1>1, <1>6, <2>8 DEF Good, GoodFles
  <2> QED BY <1>5, <1>6, <1>9, <1>11, <2>6, <2>7, <2>9
<1>12. CASE pc[t] = "opening"
  BY <1>5, <1>6, <1>9, <1>10, <1>12
<1> QED BY <1>11, <1>12

\* The sender goes on to the next entry of its list, or to the next step of its plan.
LEMMA SendPc ==
  ASSUME NEW g, Context(g), NEW t \in g.tasks, NEW m \in g.fles, NEW to, NEW last,
         Sends(g, t, m, to), HasSent(t, last),
         temp' = temp, fdt_lock' = fdt_lock, failed' = failed, watched' = watched, table' = table,
         inbox' \in [g.tasks \X Descriptors -> Files \cup {NoFile}]
  PROVE  TypeInv(g)' /\ PcInv(g)' /\ ShareInv(g)'
<1>1. /\ Good(g) /\ TypeInv(g) /\ PcInv(g) /\ ShareInv(g)
  BY ContextFacts
<1>2. pc[t] \in Active
  BY DEF Active, Sends
<1>3. g.owner[t] = t /\ step[t] \in Nat \ {0}
  BY <1>2, ActiveFacts
<1>4. /\ jobs'[t] = Tail(jobs[t]) /\ pc'[t] = (IF last THEN "loop" ELSE pc[t])
      /\ step'[t] = IF last THEN step[t] + 1 ELSE step[t]
  BY <1>1 DEF TypeInv, HasSent
<1>5. /\ pc' = [pc EXCEPT ![t] = pc'[t]] /\ step' = [step EXCEPT ![t] = step'[t]]
      /\ jobs' = [jobs EXCEPT ![t] = jobs'[t]]
  BY <1>1, <1>4 DEF TypeInv, HasSent
<1>6. PICK q : q = jobs[t]
  OBVIOUS
<1>7. /\ q \in Seq(g.fles) /\ q # <<>> /\ step[t] <= Len(g.plan[t]) /\ AtWork(g, t, m)
      /\ \A i, j \in 1 .. Len(q) : q[i] = q[j] => i = j
  BY <1>1, <1>6 DEF TypeInv, Sends, AtWork
<1>8. /\ Tail(q) \in Seq(g.fles) /\ ToSet(Tail(q)) \subseteq ToSet(q)
      /\ Len(q) = 1 <=> Tail(q) = <<>>
      /\ \A i, j \in 1 .. Len(Tail(q)) : Tail(q)[i] = Tail(q)[j] => i = j
  BY <1>7, TailOfList
<1>9. Len(g.plan[t]) \in Nat
  BY <1>1 DEF Good, GoodPlan, Enumerates
<1>10. PcOf(g, t)'
  <2>1. CASE last
    <3>1. pc'[t] = "loop" /\ step'[t] <= Len(g.plan[t]) + 1
      BY <1>3, <1>4, <1>7, <1>9, <2>1
    <3> QED BY <1>3, <3>1 DEF PcOf
  <2>2. CASE ~ last
    <3>1. pc'[t] = pc[t] /\ step'[t] = step[t] /\ jobs'[t] = Tail(q) /\ pc[t] \in {"opening", "serve"}
      BY <1>4, <1>6, <2>2 DEF Sends
    <3>2. pc[t] = "serve" => Tail(q) # <<>>
      BY <1>6, <1>8, <2>2 DEF HasSent
    <3>3. At(g, t)' = At(g, t)
      BY <3>1 DEF At
    <3>4. AtWork(g, t, m)'
      BY <1>6, <1>7, <1>8, <3>1, <3>2, <3>3 DEF AtWork
    <3> QED BY <1>3, <1>7, <3>1, <3>4 DEF PcOf
  <2> QED BY <2>1, <2>2 DEF HasSent
<1>11. pc'[t] \in Active /\ step'[t] \in Nat \ {0} /\ jobs'[t] \in Seq(g.fles)
  BY <1>2, <1>3, <1>4, <1>6, <1>8 DEF Active
<1>12. watched' \in [Files -> SUBSET Files] /\ table' \in [Holders(g) -> [Descriptors -> Contents]]
  BY <1>1 DEF TypeInv, Holders, Contents
<1> QED BY <1>1, <1>2, <1>5, <1>10, <1>11, <1>12, WorkFrame

\* The transport is still there when the file is sent to it.
LEMMA send_fd_to_peerStep ==
  ASSUME NEW g, Context(g), NEW t \in g.tasks, send_fd_to_peer(t)
  PROVE  Inv0(g)'
<1>1. PICK to, last : to = Head(jobs[t]) /\ last = (pc[t] = "serve" /\ Len(jobs[t]) = 1)
  OBVIOUS
<1>2. pc[t] \in {"opening", "serve"} /\ jobs[t] # <<>> /\ to \in real_pid
  BY <1>1 DEF send_fd_to_peer, TransportUp
<1>3. /\ \E m \in g.fles : Sends(g, t, m, to)
      /\ to \in g.fles /\ to \in Prep(g) /\ to \notin Hold(g)
      /\ (IF pc[t] = "opening" THEN desc(image, to) ELSE Here(t)) = g.file[to]
  BY <1>1, <1>2, SendFacts
<1>4. PICK m \in g.fles : Sends(g, t, m, to)
  BY <1>3
<1>5. table[FdtPid(to[1])][to[2]] = Transport
  BY <1>3, TransportInPlace
<1>6. /\ inbox' = [inbox EXCEPT ![to] = g.file[to]] /\ HasSent(t, last) /\ failed' = failed
      /\ table' = table /\ real_pid' = real_pid /\ fdt_lock' = fdt_lock /\ temp' = temp
      /\ watched' = watched /\ ctty' = ctty
  BY <1>1, <1>3, <1>5 DEF send_fd_to_peer, HasSent, effectVars
<1>7. /\ Good(g) /\ TypeInv(g) /\ CttyInv(g)
      /\ Tables(g, Prep(g), Hold(g), Shut(g)) /\ Queues(g, Prep(g), Hold(g), Out(g))
  BY ContextFacts
<1>8. g.file[to] \in Files /\ \A x \in g.fles : x \in g.tasks \X Descriptors
  BY <1>3, <1>7 DEF Good, GoodFles
<1>9. /\ inbox' \in [g.tasks \X Descriptors -> Files \cup {NoFile}]
      /\ inbox'[to] = g.file[to] /\ \A x \in g.fles \ {to} : inbox'[x] = inbox[x]
  BY <1>3, <1>6, <1>7, <1>8 DEF TypeInv
<1>10. TypeInv(g)' /\ PcInv(g)' /\ ShareInv(g)'
  BY ONLY Context(g), t \in g.tasks, <1>4, <1>6, <1>9, SendPc
<1>11. PICK P, H, S, O, O2 : P = Prep(g) /\ H = Hold(g) /\ S = Shut(g) /\ O = Out(g) /\ O2 = O \cup {to}
  OBVIOUS
<1>12. Prep(g)' = P /\ Hold(g)' = H /\ Shut(g)' = S /\ Out(g)' = O2
  <2>1. Prep(g)' = Prep(g) /\ Shut(g)' = Shut(g) /\ Hold(g)' = Hold(g) /\ Out(g)' = Out(g) \cup {to}
    BY ONLY t \in g.tasks, <1>4, <1>6, <1>7, SendViews
  <2> QED BY <1>11, <2>1
<1>13. Tables(g, P, H, S)'
  BY <1>6, <1>7, <1>11, SameTables
<1>14. Queues(g, P, H, O2)'
  <2>1. Queues(g, P, H, O) /\ to \in P /\ to \notin H
    BY <1>3, <1>7, <1>11
  <2>2. Queues(g, P, H, O \cup {to})'
    BY ONLY <1>6, <1>9, <2>1, QueueFilled
  <2> QED BY <1>11, <2>2
<1>15. CttyInv(g)'
  BY <1>6, <1>7, <1>11, <1>12 DEF CttyInv
<1>16. Tables(g, Prep(g), Hold(g), Shut(g))' /\ Queues(g, Prep(g), Hold(g), Out(g))'
  BY <1>12, <1>13, <1>14, SetViews
<1> QED BY <1>10, <1>15, <1>16 DEF Inv0

-----------------------------------------------------------------------------
(* Tasks come to prepare_fds(), wait for each other and leave *)

\* A task goes elsewhere, and nothing else happens but to fdt_lock.
KeepsAll ==
  /\ step' = step /\ jobs' = jobs /\ table' = table /\ real_pid' = real_pid /\ inbox' = inbox
  /\ temp' = temp /\ watched' = watched /\ ctty' = ctty /\ failed' = failed
Moves(t, c) ==
  /\ pc' = [pc EXCEPT ![t] = c] /\ pc[t] \notin {"opening", "serve"}
  /\ c \in {"barrier", "wait", "loop", "done"} /\ fdt_lock' \in Nat /\ KeepsAll

\* Nothing happens to descriptors, transports and queues.
LEMMA QuietStep ==
  ASSUME NEW g, Context(g), KeepsAll, TypeInv(g)', PcInv(g)', ShareInv(g)',
         \A s \in g.tasks : {pc[s], pc'[s]} \cap {"opening", "serve"} # {} => pc'[s] = pc[s]
  PROVE  Inv0(g)'
<1> USE DEF KeepsAll
<1>1. /\ Good(g) /\ CttyInv(g)
      /\ Tables(g, Prep(g), Hold(g), Shut(g)) /\ Queues(g, Prep(g), Hold(g), Out(g))
  BY ContextFacts
<1>2. PICK P, H, S, O : P = Prep(g) /\ H = Hold(g) /\ S = Shut(g) /\ O = Out(g)
  OBVIOUS
<1>3. Prep(g)' = P /\ Hold(g)' = H /\ Shut(g)' = S /\ Out(g)' = O
  BY <1>1, <1>2, SameViews DEF Good
<1>4. Tables(g, P, H, S)' /\ Queues(g, P, H, O)'
  BY <1>1, <1>2, SameTables, SameQueues
<1>5. Tables(g, Prep(g), Hold(g), Shut(g))' /\ Queues(g, Prep(g), Hold(g), Out(g))'
  BY <1>3, <1>4, SetViews
<1>6. CttyInv(g)'
  BY <1>1, <1>2, <1>3 DEF CttyInv
<1> QED BY <1>5, <1>6 DEF Inv0

\* A task goes from one part of prepare_fds() to another.
LEMMA MoveStep ==
  ASSUME NEW g, Context(g), NEW t \in g.tasks, NEW c, Moves(t, c), PcOf(g, t)', ShareInv(g)'
  PROVE  Inv0(g)'
<1>1. TypeInv(g) /\ PcInv(g)
  BY ContextFacts
<1>2. KeepsAll
  BY DEF Moves
<1>3. TypeInv(g)'
  BY <1>1, <1>2 DEF Moves, TypeInv, Active, KeepsAll
<1>4. pc'[t] = c /\ \A s \in g.tasks \ {t} : pc'[s] = pc[s]
  BY <1>1 DEF Moves, TypeInv
<1>5. \A s \in g.tasks \ {t} : PcOf(g, s)'
  BY <1>1, <1>2, <1>4, PcFrame DEF KeepsAll, PcInv
<1>6. PcInv(g)'
  BY <1>5 DEF PcInv
<1>7. \A s \in g.tasks : {pc[s], pc'[s]} \cap {"opening", "serve"} # {} => pc'[s] = pc[s]
  BY <1>4 DEF Moves
<1> QED BY <1>2, <1>3, <1>6, <1>7, QuietStep

\* There are finitely many sharers, and one of them restores the table.
LEMMA SharerFacts ==
  ASSUME NEW g, Context(g)
  PROVE  /\ IsFiniteSet(g.sharers) /\ Entered(g) \in SUBSET g.sharers /\ IsFiniteSet(Entered(g))
         /\ Cardinality(g.sharers) \in Nat /\ Cardinality(Entered(g)) \in Nat
         /\ Cardinality(Entered(g)) <= Cardinality(g.sharers)
         /\ Cardinality(Entered(g)) = Cardinality(g.sharers) => Entered(g) = g.sharers
         /\ FdtNr = Cardinality(g.sharers) /\ g.sharers \subseteq g.tasks
         /\ \A t, s \in g.sharers : g.owner[t] = t /\ g.owner[s] = s => t = s
<1>1. g.sharers = Sharers /\ g.tasks = Tasks /\ Good(g)
  BY ContextFacts
<1>2. Sharers \subseteq Tasks /\ Tasks \subseteq Pids /\ IsFiniteSet(Pids)
  BY FdRestoreAssumption DEF Context, StaticInv, Sharers, Tasks
<1>3. g.sharers \in SUBSET Pids /\ IsFiniteSet(g.sharers)
  BY <1>1, <1>2, FS_Subset
<1>4. Entered(g) \in SUBSET g.sharers
  BY DEF Entered
<1>5. /\ IsFiniteSet(Entered(g)) /\ Cardinality(Entered(g)) <= Cardinality(g.sharers)
      /\ Cardinality(Entered(g)) = Cardinality(g.sharers) => Entered(g) = g.sharers
  BY <1>3, <1>4, FS_Subset
<1>6. Cardinality(g.sharers) \in Nat /\ Cardinality(Entered(g)) \in Nat
  BY <1>3, <1>5, FS_CardinalityType
<1>7. \A t, s \in g.sharers : g.owner[t] = t /\ g.owner[s] = s => t = s
  BY <1>1 DEF Good, GoodOwners
<1> QED BY <1>1, <1>2, <1>3, <1>4, <1>5, <1>6, <1>7 DEF FdtNr

\* The one who restores the table begins when all sharers have come.
LEMMA BarrierStep ==
  ASSUME NEW g, Context(g), NEW t \in g.tasks, Barrier(t)
  PROVE  Inv0(g)'
<1>1. TypeInv(g) /\ PcInv(g) /\ ShareInv(g) /\ Good(g) /\ FdtPid(t) = g.owner[t]
  BY ContextFacts
<1>2. PICK c : c = IF g.owner[t] = t THEN "loop" ELSE "wait"
  OBVIOUS
<1>3. pc[t] = "barrier" /\ fdt_lock >= FdtNr /\ Moves(t, c) /\ fdt_lock' = fdt_lock
  BY <1>1, <1>2 DEF Barrier, AllAtBarrier, Moves, KeepsAll, TypeInv, protocolVars, effectVars
<1>4. pc'[t] = c /\ \A s \in g.tasks \ {t} : pc'[s] = pc[s]
  BY <1>1, <1>3 DEF Moves, TypeInv
<1>5. t \in g.sharers /\ step[t] = 1 /\ step' = step
  BY <1>1, <1>3 DEF PcInv, PcOf, Moves, KeepsAll
<1>6. Len(g.plan[t]) \in Nat
  BY <1>1 DEF Good, GoodPlan, Enumerates
<1>7. PcOf(g, t)'
  BY <1>2, <1>4, <1>5, <1>6 DEF PcOf, Active
<1>8. g.sharers \subseteq g.tasks /\ \A s \in g.sharers : g.owner[s] \in g.tasks
  BY <1>1 DEF Good, GoodOwners
<1>9. Entered(g)' = Entered(g)
  BY <1>2, <1>3, <1>4, <1>8 DEF Entered
<1>10. TableDone(g)' <=> TableDone(g)
  BY <1>2, <1>3, <1>4, <1>8 DEF TableDone
<1>11. Entered(g) = g.sharers
  <2>1. CASE TableDone(g)
    BY <1>1, <2>1 DEF TableDone, ShareInv
  <2>2. CASE ~ TableDone(g)
    <3>1. fdt_lock = Cardinality(Entered(g))
      BY <1>1, <2>2, SharerFacts DEF ShareInv
    <3> QED BY <1>3, <3>1, SharerFacts
  <2> QED BY <2>1, <2>2
<1>12. ShareInv(g)'
  <2>1. fdt_lock' = Cardinality(Entered(g)') + (IF TableDone(g)' THEN 1 ELSE 0)
    BY <1>1, <1>3, <1>9, <1>10 DEF ShareInv
  <2>2. \A s \in g.sharers : pc'[s] = "done" => pc'[g.owner[s]] = "done"
    BY <1>1, <1>2, <1>3, <1>4, <1>8 DEF ShareInv
  <2>3. temp' = temp
    BY <1>3 DEF Moves, KeepsAll
  <2>4. \A s \in g.tasks : temp[s] # NoFile => s \in g.sharers /\ pc'[s] \in {"before", "done"}
    BY <1>1, <1>3, <1>4 DEF ShareInv
  <2>5. \A u, s \in g.tasks : temp[u] # NoFile /\ temp[u] = temp[s] => u = s
    BY <1>1 DEF ShareInv
  <2> QED BY <1>9, <1>11, <2>1, <2>2, <2>3, <2>4, <2>5 DEF ShareInv
<1> QED BY <1>3, <1>7, <1>12, MoveStep

\* A task comes to prepare_fds().
LEMMA EnterFdsStep ==
  ASSUME NEW g, Context(g), NEW t \in g.tasks, EnterFds(t)
  PROVE  Inv0(g)'
<1>1. TypeInv(g) /\ PcInv(g) /\ ShareInv(g) /\ Good(g) /\ g.sharers = Sharers
  BY ContextFacts
<1>2. PICK c : c = IF t \in g.sharers THEN "barrier" ELSE "loop"
  OBVIOUS
<1>3. /\ pc[t] = "before" /\ temp[t] = NoFile /\ Moves(t, c)
      /\ fdt_lock' = IF t \in g.sharers THEN fdt_lock + 1 ELSE fdt_lock
  BY <1>1, <1>2 DEF EnterFds, futex_inc, Moves, KeepsAll, TypeInv, protocolVars, effectVars
<1>4. pc'[t] = c /\ \A s \in g.tasks \ {t} : pc'[s] = pc[s]
  BY <1>1, <1>3 DEF Moves, TypeInv
<1>5. step[t] = 1 /\ step' = step /\ temp' = temp
  BY <1>1, <1>3 DEF PcInv, PcOf, Moves, KeepsAll
<1>6. Len(g.plan[t]) \in Nat
  BY <1>1 DEF Good, GoodPlan, Enumerates
<1>7. t \notin g.sharers => g.owner[t] = t
  BY <1>1 DEF Good, GoodOwners
<1>8. PcOf(g, t)'
  BY <1>2, <1>4, <1>5, <1>6, <1>7 DEF PcOf, Active
<1>9. g.sharers \subseteq g.tasks /\ \A s \in g.sharers : g.owner[s] \in g.tasks
  BY <1>1 DEF Good, GoodOwners
<1>10. TableDone(g)' <=> TableDone(g)
  BY <1>2, <1>3, <1>4, <1>9 DEF TableDone
<1>11. t \notin Entered(g) /\ Entered(g)' = IF t \in g.sharers THEN Entered(g) \cup {t} ELSE Entered(g)
  BY <1>2, <1>3, <1>4, <1>9 DEF Entered
<1>12. PICK E, E2 : E = Entered(g) /\ E2 = Entered(g)'
  OBVIOUS
<1>13. IsFiniteSet(E) /\ Cardinality(E) \in Nat /\ fdt_lock = Cardinality(E) + (IF TableDone(g) THEN 1 ELSE 0)
  BY <1>1, <1>12, SharerFacts DEF ShareInv
<1>14. Cardinality(E2) = IF t \in g.sharers THEN Cardinality(E) + 1 ELSE Cardinality(E)
  <2>1. t \in g.sharers => Cardinality(E \cup {t}) = Cardinality(E) + 1
    BY <1>11, <1>12, <1>13, FS_AddElement
  <2> QED BY <1>11, <1>12, <2>1
<1>15. fdt_lock' = Cardinality(E2) + (IF TableDone(g)' THEN 1 ELSE 0)
  BY <1>3, <1>10, <1>13, <1>14
<1>16. ShareInv(g)'
  <2>1. \A s \in g.sharers : pc'[s] \in Active \cup {"wait", "done"} => Entered(g)' = g.sharers
    <3> SUFFICES ASSUME NEW s \in g.sharers, pc'[s] \in Active \cup {"wait", "done"}
                 PROVE  Entered(g)' = g.sharers
      OBVIOUS
    <3>1. s # t /\ pc[s] \in Active \cup {"wait", "done"}
      BY <1>2, <1>4, <1>9 DEF Active
    <3>2. Entered(g) = g.sharers
      BY <1>1, <3>1 DEF ShareInv
    <3> QED BY <1>11, <3>2
  <2>2. \A s \in g.sharers : pc'[s] = "done" => pc'[g.owner[s]] = "done"
    BY <1>1, <1>2, <1>3, <1>4, <1>9 DEF ShareInv
  <2>3. \A s \in g.tasks : temp[s] # NoFile => s \in g.sharers /\ pc'[s] \in {"before", "done"}
    BY <1>1, <1>3, <1>4 DEF ShareInv
  <2>4. \A u, s \in g.tasks : temp[u] # NoFile /\ temp[u] = temp[s] => u = s
    BY <1>1 DEF ShareInv
  <2> QED BY <1>5, <1>12, <1>15, <2>1, <2>2, <2>3, <2>4 DEF ShareInv
<1> QED BY <1>3, <1>8, <1>16, MoveStep

\* A sharer goes on when the table is restored.
LEMMA WaitTableStep ==
  ASSUME NEW g, Context(g), NEW t \in g.tasks, WaitTable(t)
  PROVE  Inv0(g)'
<1>1. TypeInv(g) /\ PcInv(g) /\ ShareInv(g) /\ Good(g)
  BY ContextFacts
<1>2. pc[t] = "wait" /\ fdt_lock = FdtNr + 1 /\ Moves(t, "done") /\ fdt_lock' = fdt_lock
  BY <1>1 DEF WaitTable, TableRestored, Moves, KeepsAll, TypeInv, protocolVars, effectVars
<1>3. pc'[t] = "done" /\ \A s \in g.tasks \ {t} : pc'[s] = pc[s]
  BY <1>1, <1>2 DEF Moves, TypeInv
<1>4. t \in g.sharers /\ step' = step /\ temp' = temp
  BY <1>1, <1>2 DEF PcInv, PcOf, Moves, KeepsAll
<1>5. TableDone(g)
  <2> SUFFICES ASSUME ~ TableDone(g) PROVE FALSE
    OBVIOUS
  <2>1. fdt_lock = Cardinality(Entered(g))
    BY <1>1, SharerFacts DEF ShareInv
  <2>2. fdt_lock <= FdtNr /\ FdtNr \in Nat
    BY <2>1, SharerFacts
  <2> QED BY <1>2, <2>2
<1>6. PICK o \in g.sharers : g.owner[o] = o /\ pc[o] = "done"
  BY <1>5 DEF TableDone
<1>7. g.owner[t] = o /\ o # t
  BY <1>1, <1>2, <1>4, <1>6 DEF Good, GoodOwners
<1>8. PcOf(g, t)'
  BY <1>3, <1>4, <1>7 DEF PcOf, Active
<1>9. g.sharers \subseteq g.tasks /\ \A s \in g.sharers : g.owner[s] \in g.tasks
  BY <1>1 DEF Good, GoodOwners
<1>10. TableDone(g)'
  BY <1>3, <1>6, <1>7, <1>9 DEF TableDone
<1>11. Entered(g)' = Entered(g)
  BY <1>2, <1>3, <1>9 DEF Entered
<1>12. ShareInv(g)'
  <2>1. fdt_lock' = Cardinality(Entered(g)') + (IF TableDone(g)' THEN 1 ELSE 0)
    BY <1>1, <1>2, <1>5, <1>10, <1>11 DEF ShareInv
  <2>2. Entered(g) = g.sharers
    BY <1>1, <1>2, <1>4 DEF ShareInv
  <2>3. \A s \in g.sharers : pc'[s] = "done" => pc'[g.owner[s]] = "done"
    BY <1>1, <1>3, <1>6, <1>7, <1>9 DEF ShareInv
  <2>4. \A s \in g.tasks : temp[s] # NoFile => s \in g.sharers /\ pc'[s] \in {"before", "done"}
    BY <1>1, <1>2, <1>3 DEF ShareInv
  <2>5. \A u, s \in g.tasks : temp[u] # NoFile /\ temp[u] = temp[s] => u = s
    BY <1>1 DEF ShareInv
  <2> QED BY <1>4, <1>11, <2>1, <2>2, <2>3, <2>4, <2>5 DEF ShareInv
<1> QED BY <1>2, <1>8, <1>12, MoveStep

\* The one who restored the table leaves.
LEMMA LeaveFdsStep ==
  ASSUME NEW g, Context(g), NEW t \in g.tasks, LeaveFds(t)
  PROVE  Inv0(g)'
<1>1. TypeInv(g) /\ PcInv(g) /\ ShareInv(g) /\ Good(g) /\ g.sharers = Sharers
  BY ContextFacts
<1>2. pc[t] = "loop" /\ step[t] > Len(rst.plan[t])
  BY <1>1 DEF LeaveFds, TypeInv, Active
<1>3. /\ Moves(t, "done")
      /\ fdt_lock' = IF t \in g.sharers THEN fdt_lock + 1 ELSE fdt_lock
  BY <1>1, <1>2 DEF LeaveFds, futex_inc, Moves, KeepsAll, TypeInv, protocolVars, effectVars
<1>4. pc'[t] = "done" /\ \A s \in g.tasks \ {t} : pc'[s] = pc[s]
  BY <1>1, <1>3 DEF Moves, TypeInv
<1>5. rst.plan[t] = g.plan[t] /\ g.owner[t] = t /\ step[t] \in Nat
  <2>1. pc[t] \in Active
    BY <1>2 DEF Active
  <2> QED BY <2>1, ActiveFacts
<1>6. Len(g.plan[t]) \in Nat /\ step[t] <= Len(g.plan[t]) + 1
  BY <1>1, <1>2 DEF Good, GoodPlan, Enumerates, PcInv, PcOf
<1>7. step' = step /\ temp' = temp /\ step[t] = Len(g.plan[t]) + 1
  BY <1>2, <1>3, <1>5, <1>6 DEF Moves, KeepsAll
<1>8. PcOf(g, t)'
  BY <1>4, <1>7 DEF PcOf, Active
<1>9. g.sharers \subseteq g.tasks /\ \A s \in g.sharers : g.owner[s] \in g.tasks
  BY <1>1 DEF Good, GoodOwners
<1>10. Entered(g)' = Entered(g)
  BY <1>2, <1>4, <1>9 DEF Entered
<1>11. t \in g.sharers => TableDone(g)' /\ ~ TableDone(g)
  <2>1. t \in g.sharers => TableDone(g)'
    BY <1>4, <1>5 DEF TableDone
  <2>2. t \in g.sharers => ~ TableDone(g)
    BY <1>2, <1>5, SharerFacts DEF TableDone
  <2> QED BY <2>1, <2>2
<1>12. t \notin g.sharers => (TableDone(g)' <=> TableDone(g))
  BY <1>4, <1>9 DEF TableDone
<1>13. ShareInv(g)'
  <2>1. fdt_lock' = Cardinality(Entered(g)') + (IF TableDone(g)' THEN 1 ELSE 0)
    <3>1. PICK n \in Nat : n = Cardinality(Entered(g))
      BY SharerFacts
    <3>2. fdt_lock = n + (IF TableDone(g) THEN 1 ELSE 0)
      BY <1>1, <3>1 DEF ShareInv
    <3>3. fdt_lock' = n + (IF TableDone(g)' THEN 1 ELSE 0)
      BY <1>3, <1>11, <1>12, <3>1, <3>2
    <3> QED BY <1>10, <3>1, <3>3
  <2>2. \A s \in g.sharers : pc'[s] \in Active \cup {"wait", "done"} => Entered(g)' = g.sharers
    BY <1>1, <1>2, <1>4, <1>9, <1>10 DEF ShareInv, Active
  <2>3. \A s \in g.sharers : pc'[s] = "done" => pc'[g.owner[s]] = "done"
    <3> SUFFICES ASSUME NEW s \in g.sharers, pc'[s] = "done" PROVE pc'[g.owner[s]] = "done"
      OBVIOUS
    <3>1. CASE s = t
      BY <1>4, <1>5, <3>1
    <3>2. CASE s # t
      <4>1. pc[g.owner[s]] = "done"
        BY <1>1, <1>4, <1>9, <3>2 DEF ShareInv
      <4> QED BY <1>2, <1>4, <1>9, <4>1
    <3> QED BY <3>1, <3>2
  <2>4. \A s \in g.tasks : temp[s] # NoFile => s \in g.sharers /\ pc'[s] \in {"before", "done"}
    BY <1>1, <1>2, <1>4 DEF ShareInv
  <2>5. \A u, s \in g.tasks : temp[u] # NoFile /\ temp[u] = temp[s] => u = s
    BY <1>1 DEF ShareInv
  <2> QED BY <1>7, <2>1, <2>2, <2>3, <2>4, <2>5 DEF ShareInv
<1> QED BY <1>3, <1>8, <1>13, MoveStep

\* The lists are built before there is any other task.
LEMMA root_prepare_sharedStep ==
  ASSUME NEW g, Context(g), root_prepare_shared
  PROVE  Inv0(g)'
<1>1. TypeInv(g) /\ PcInv(g) /\ ShareInv(g) /\ Good(g) /\ g.tasks = Tasks
  BY ContextFacts
<1>2. /\ KeepsAll /\ fdt_lock' = fdt_lock
      /\ \A s \in g.tasks : pc[s] = "unborn"
      /\ pc' = [s \in g.tasks |-> "before"]
  BY <1>1 DEF root_prepare_shared, KeepsAll, protocolVars, effectVars
<1>3. \A s \in g.tasks : pc'[s] = "before"
  BY <1>2
<1>4. TypeInv(g)'
  BY <1>1, <1>2 DEF TypeInv, KeepsAll
<1>5. PcInv(g)'
  <2>1. \A s \in g.tasks : step'[s] = 1
    BY <1>1, <1>2 DEF PcInv, PcOf, KeepsAll
  <2> QED BY <1>3, <2>1 DEF PcInv, PcOf, Active
<1>6. g.sharers \subseteq g.tasks
  BY SharerFacts
<1>7. Entered(g)' = Entered(g) /\ ~ TableDone(g) /\ ~ TableDone(g)'
  BY <1>2, <1>3, <1>6 DEF Entered, TableDone
<1>8. ShareInv(g)'
  <2>1. fdt_lock' = Cardinality(Entered(g)') + (IF TableDone(g)' THEN 1 ELSE 0)
    BY <1>1, <1>2, <1>7 DEF ShareInv
  <2>2. \A s \in g.tasks : temp[s] = NoFile
    BY <1>1, <1>2 DEF ShareInv
  <2>3. temp' = temp
    BY <1>2 DEF KeepsAll
  <2> QED BY <1>3, <1>6, <2>1, <2>2, <2>3 DEF ShareInv, Active
<1>9. \A s \in g.tasks : {pc[s], pc'[s]} \cap {"opening", "serve"} # {} => pc'[s] = pc[s]
  BY <1>2, <1>3
<1> QED BY <1>2, <1>4, <1>5, <1>8, <1>9, QuietStep

-----------------------------------------------------------------------------
(* The descriptors that sharers use themselves *)

\* One descriptor changes hands between the protocol and a sharer.
TempStep(g, t, fd, v) ==
  /\ temp' = [temp EXCEPT ![t] = IF v = Free THEN NoFile ELSE fd]
  /\ table' = [table EXCEPT ![g.owner[t]][fd] = v]
  /\ pc' = pc /\ step' = step /\ jobs' = jobs /\ real_pid' = real_pid /\ inbox' = inbox
  /\ fdt_lock' = fdt_lock /\ watched' = watched /\ ctty' = ctty /\ failed' = failed

LEMMA TempChange ==
  ASSUME NEW g, Context(g), NEW t \in g.sharers, pc[t] \in {"before", "done"}, NEW fd \in Fds,
         NEW v \in {Free, Temporary}, TempStep(g, t, fd, v),
         IF v = Free THEN temp[t] = fd ELSE temp[t] = NoFile /\ table[g.owner[t]][fd] = Free
  PROVE  Inv0(g)'
<1>1. /\ Good(g) /\ TypeInv(g) /\ PcInv(g) /\ ShareInv(g) /\ CttyInv(g)
      /\ Tables(g, Prep(g), Hold(g), Shut(g)) /\ Queues(g, Prep(g), Hold(g), Out(g))
  BY ContextFacts
<1>2. PICK o : o = g.owner[t]
  OBVIOUS
<1>3. /\ t \in g.tasks /\ g.sharers \subseteq g.tasks /\ o \in Holders(g) /\ fd \in Descriptors
      /\ \A s \in g.sharers : g.owner[s] = o
  BY <1>1, <1>2 DEF Good, GoodOwners, Holders, Descriptors
<1>4. fd # NoFile /\ Free # Temporary
  BY Constants DEF Free, Temporary
<1>5. /\ \A s \in g.tasks \ {t} : temp'[s] = temp[s]
      /\ temp'[t] = IF v = Free THEN NoFile ELSE fd
  BY <1>1, <1>3 DEF TempStep, TypeInv
<1>6. /\ table' \in [Holders(g) -> [Descriptors -> Contents]]
      /\ \A s \in Holders(g) \ {o} : table'[s] = table[s]
      /\ table'[o][fd] = v
      /\ \A x \in Descriptors \ {fd} : table'[o][x] = table[o][x]
  <2>1. v \in Contents /\ table' = [table EXCEPT ![o][fd] = v]
    BY <1>2 DEF TempStep, Contents
  <2> QED BY <1>1, <1>3, <2>1, CellExcept
<1>7. PICK P, H, S, O : P = Prep(g) /\ H = Hold(g) /\ S = Shut(g) /\ O = Out(g)
  OBVIOUS
<1>8. \A p \in Holders(g), x \in Descriptors :
        IF TempAt(g, p, x) THEN table[p][x] = Temporary /\ Content(g, P, H, S, <<p, x>>) = Free
        ELSE table[p][x] = Content(g, P, H, S, <<p, x>>)
  BY <1>1, <1>7 DEF Tables, Holders
<1>9. \A s \in g.tasks \ {t} : temp[s] # fd
  <2> SUFFICES ASSUME NEW s \in g.tasks \ {t}, temp[s] = fd PROVE FALSE
    OBVIOUS
  <2>1. CASE v = Free
    BY <1>1, <1>3, <1>4, <2>1 DEF ShareInv
  <2>2. CASE v # Free
    <3>1. s \in g.sharers
      BY <1>1, <1>4 DEF ShareInv
    <3>2. TempAt(g, o, fd)
      BY <1>3, <1>4, <3>1 DEF TempAt
    <3>3. table[o][fd] = Temporary
      BY <1>3, <1>8, <3>2
    <3> QED BY <1>2, <1>4, <2>2, <3>3
  <2> QED BY <2>1, <2>2
<1>10. Content(g, P, H, S, <<o, fd>>) = Free
  <2>1. CASE v = Free
    <3>1. TempAt(g, o, fd)
      BY <1>2, <1>4, <2>1 DEF TempAt
    <3> QED BY <1>3, <1>8, <3>1
  <2>2. CASE v # Free
    <3>1. table[o][fd] = Free
      BY <1>2, <2>2
    <3>2. ~ TempAt(g, o, fd)
      BY <1>3, <1>4, <1>8, <3>1
    <3> QED BY <1>3, <1>8, <3>1, <3>2
  <2> QED BY <2>1, <2>2
<1>11. TempAt(g, o, fd)' <=> v # Free
  BY <1>2, <1>3, <1>4, <1>5, <1>9 DEF TempAt
<1>12. \A p, x : p # o \/ x # fd => (TempAt(g, p, x)' <=> TempAt(g, p, x))
  <2> SUFFICES ASSUME NEW p, NEW x, p # o \/ x # fd PROVE TempAt(g, p, x)' <=> TempAt(g, p, x)
    OBVIOUS
  <2>1. \A s \in g.sharers : g.owner[s] = p =>
          (temp'[s] # NoFile /\ temp'[s] = x <=> temp[s] # NoFile /\ temp[s] = x)
    <3> SUFFICES ASSUME NEW s \in g.sharers, g.owner[s] = p
                 PROVE  temp'[s] # NoFile /\ temp'[s] = x <=> temp[s] # NoFile /\ temp[s] = x
      OBVIOUS
    <3>1. CASE s # t
      BY <1>3, <1>5, <3>1
    <3>2. CASE s = t
      <4>1. x # fd
        BY <1>2, <3>2
      <4> QED BY <1>5, <3>2, <4>1
    <3> QED BY <3>1, <3>2
  <2> QED BY <2>1 DEF TempAt
<1>13. Tables(g, P, H, S)'
  <2> SUFFICES ASSUME NEW p \in Holders(g), NEW x \in Descriptors
               PROVE  IF TempAt(g, p, x)' THEN table'[p][x] = Temporary /\ Content(g, P, H, S, <<p, x>>) = Free
                      ELSE table'[p][x] = Content(g, P, H, S, <<p, x>>)
    BY DEF Tables, Holders, Content
  <2>1. CASE p = o /\ x = fd
    BY <1>6, <1>10, <1>11, <2>1
  <2>2. CASE p # o \/ x # fd
    <3>1. table'[p][x] = table[p][x]
      BY <1>6, <2>2
    <3> QED BY <1>8, <1>12, <2>2, <3>1
  <2> QED BY <2>1, <2>2
<1>14. /\ pc' = pc /\ step' = step /\ jobs' = jobs /\ real_pid' = real_pid /\ inbox' = inbox
       /\ fdt_lock' = fdt_lock /\ watched' = watched /\ ctty' = ctty /\ failed' = failed
  BY DEF TempStep
<1>15. TypeInv(g)'
  <2>1. temp' \in [g.tasks -> Fds \cup {NoFile}]
    BY <1>1, <1>3 DEF TypeInv, TempStep
  <2> QED BY <1>1, <1>6, <1>14, <2>1 DEF TypeInv, Holders, Contents
<1>16. PcInv(g)'
  BY <1>1, <1>14, PcFrame DEF PcInv
<1>17. ShareInv(g)'
  <2>1. Entered(g)' = Entered(g) /\ (TableDone(g)' <=> TableDone(g))
    BY <1>14 DEF Entered, TableDone
  <2>2. \A s \in g.tasks : temp'[s] # NoFile => s \in g.sharers /\ pc[s] \in {"before", "done"}
    BY <1>1, <1>5 DEF ShareInv
  <2>3. \A u, s \in g.tasks : temp'[u] # NoFile /\ temp'[u] = temp'[s] => u = s
    BY <1>1, <1>5, <1>9 DEF ShareInv
  <2>4. fdt_lock' = Cardinality(Entered(g)') + (IF TableDone(g)' THEN 1 ELSE 0)
    BY <1>1, <1>14, <2>1 DEF ShareInv
  <2>5. /\ \A s \in g.sharers : pc[s] \in Active \cup {"wait", "done"} => Entered(g) = g.sharers
        /\ \A s \in g.sharers : pc[s] = "done" => pc[g.owner[s]] = "done"
    BY <1>1 DEF ShareInv
  <2> QED BY <1>14, <2>1, <2>2, <2>3, <2>4, <2>5 DEF ShareInv
<1>18. Prep(g)' = P /\ Hold(g)' = H /\ Shut(g)' = S /\ Out(g)' = O
  BY <1>1, <1>7, <1>14, SameViews DEF Good
<1>19. Queues(g, P, H, O)'
  BY <1>1, <1>7, <1>14, SameQueues
<1>20. CttyInv(g)'
  BY <1>1, <1>7, <1>14, <1>18 DEF CttyInv
<1>21. Tables(g, Prep(g), Hold(g), Shut(g))' /\ Queues(g, Prep(g), Hold(g), Out(g))'
  BY <1>13, <1>18, <1>19, SetViews
<1> QED BY <1>15, <1>16, <1>17, <1>20, <1>21 DEF Inv0

\* A sharer uses a free descriptor.
LEMMA UseFdStep ==
  ASSUME NEW g, Context(g), NEW t \in g.tasks, UseFd(t)
  PROVE  Inv0(g)'
<1>1. g.sharers = Sharers /\ FdtPid(t) = g.owner[t]
  BY ContextFacts
<1>2. Free # Temporary
  BY DEF Free, Temporary
<1>3. PICK fd \in Fds : /\ table[FdtPid(t)][fd] = Free
                        /\ table' = [table EXCEPT ![FdtPid(t)][fd] = Temporary]
                        /\ temp' = [temp EXCEPT ![t] = fd]
  BY DEF UseFd
<1>4. t \in g.sharers /\ pc[t] \in {"before", "done"} /\ temp[t] = NoFile
  BY <1>1 DEF UseFd
<1>5. TempStep(g, t, fd, Temporary)
  BY <1>1, <1>2, <1>3 DEF UseFd, TempStep, protocolVars, effectVars
<1> QED BY <1>1, <1>2, <1>3, <1>4, <1>5, TempChange

\* A sharer closes the descriptor it used.
LEMMA DropFdStep ==
  ASSUME NEW g, Context(g), NEW t \in g.tasks, DropFd(t)
  PROVE  Inv0(g)'
<1>1. FdtPid(t) = g.owner[t] /\ TypeInv(g) /\ ShareInv(g)
  BY ContextFacts
<1>2. temp[t] # NoFile
  BY DEF DropFd
<1>3. PICK fd \in Fds : fd = temp[t]
  BY <1>1, <1>2 DEF TypeInv
<1>4. t \in g.sharers /\ pc[t] \in {"before", "done"}
  BY <1>1, <1>2 DEF ShareInv
<1>5. TempStep(g, t, fd, Free)
  BY <1>1, <1>3 DEF DropFd, TempStep, protocolVars, effectVars
<1> QED BY <1>3, <1>4, <1>5, TempChange

-----------------------------------------------------------------------------
(* Every step *)

\* The lists do not change once the images are read.
LEMMA SameGraph ==
  ASSUME sys' = sys, image' = image, heads' = heads
  PROVE  Graph' = Graph /\ Lists' = Lists /\ Owners' = Owners
         /\ \A f : fd_info_head(image, f)' = fd_info_head(image, f)
<1>1. Tasks' = Tasks /\ Sharers' = Sharers /\ leader' = leader
  BY DEF Tasks, Sharers, leader
<1>2. \A t : FdtPid(t)' = FdtPid(t)
  BY <1>1 DEF FdtPid
<1>3. Owners' = Owners
  BY <1>1, <1>2 DEF Owners
<1>4. PtmxOf(image)' = PtmxOf(image)
  BY <1>1, <1>3 DEF PtmxOf
<1>5. Fles(image)' = Fles(image)
  BY <1>1, <1>3, <1>4 DEF Fles
<1>6. \A e : desc(image, e)' = desc(image, e)
  BY <1>4 DEF desc
<1>7. Present' = Present /\ \A f : file_master(f)' = file_master(f)
  BY DEF Present, file_master
<1>8. \A f : Siblings(f)' = Siblings(f)
  BY <1>7 DEF Siblings
<1>9. \A f : FirstOfGroup(f)' <=> FirstOfGroup(f)
  BY <1>7, <1>8 DEF FirstOfGroup
<1>10. \A f : create(f)' <=> create(f)
  BY <1>8, <1>9 DEF create, mark_pipe_master, resolve_unix_peers, tty_setup_slavery
<1>11. \A e, f : WantsTransport(e, f)' <=> WantsTransport(e, f)
  BY <1>7, <1>10 DEF WantsTransport, should_open_transport
<1>12. \A c, e, f : Works(c, e, f)' <=> Works(c, e, f)
  BY <1>7, <1>11 DEF Works
<1>13. \A t, c, k : Entries(t, c, k)' = Entries(t, c, k)
  <2> SUFFICES ASSUME NEW t, NEW c, NEW k PROVE Entries(t, c, k)' = Entries(t, c, k)
    OBVIOUS
  <2>1. PICK E : E = {e \in Fles(image) : e[1] = t /\ Kind[desc(image, e)] \in k /\ Works(c, e, desc(image, e))}
    OBVIOUS
  <2>2. E = {e \in Fles(image) : e[1] = t /\ Kind[desc(image, e)] \in k /\ Works(c, e, desc(image, e))}'
    BY <1>5, <1>6, <1>12, <2>1
  <2> QED BY <2>1, <2>2 DEF Entries
<1>14. \A t, c : ps_list(t, c)' = ps_list(t, c)
  BY <1>13 DEF ps_list
<1>15. \A t, c : InState(t, c)' = InState(t, c)
  BY <1>14 DEF InState
<1>16. \A t : plan(t)' = plan(t)
  BY <1>15 DEF plan
<1>17. Graph' = Graph
  BY <1>1, <1>2, <1>5, <1>6, <1>7, <1>8, <1>10, <1>16 DEF Graph
<1>18. \A f : {file_master(x) : x \in Siblings(f)}' = {file_master(x) : x \in Siblings(f)}
  BY <1>7, <1>8
<1>19. Lists' = Lists
  BY <1>1, <1>7, <1>10, <1>16, <1>18 DEF Lists
<1>20. \A f : fd_info_head(image, f)' = fd_info_head(image, f)
  <2> SUFFICES ASSUME NEW f PROVE fd_info_head(image, f)' = fd_info_head(image, f)
    OBVIOUS
  <2>1. {e \in Fles(image) : desc(image, e) = f}' = {e \in Fles(image) : desc(image, e) = f}
    BY <1>5, <1>6
  <2> QED BY <2>1 DEF fd_info_head
<1> QED BY <1>3, <1>17, <1>19, <1>20

\* What every step of a task leaves alone.
LEMMA TaskFrame ==
  ASSUME NEW g, Context(g), NEW t \in g.tasks, UseFd(t) \/ EnterFds(t) \/ TaskStep(t)
  PROVE  /\ sys' = sys /\ image' = image /\ heads' = heads /\ rst' = rst
         /\ pc[t] # "unborn" /\ \A s \in g.tasks : pc'[s] = "unborn" => pc[s] = "unborn"
<1>1. TypeInv(g) /\ ShareInv(g)
  BY ContextFacts
<1>2. CASE UseFd(t)
  BY <1>2 DEF UseFd, imageVars
<1>3. CASE EnterFds(t)
  BY <1>1, <1>3 DEF EnterFds, imageVars, TypeInv
<1>4. CASE DropFd(t)
  <2>1. temp[t] # NoFile /\ pc' = pc /\ sys' = sys /\ image' = image /\ heads' = heads /\ rst' = rst
    BY <1>4 DEF DropFd, imageVars
  <2>2. pc[t] \in {"before", "done"}
    BY <1>1, <2>1 DEF ShareInv
  <2> QED BY <2>1, <2>2
<1>5. CASE Barrier(t)
  BY <1>1, <1>5 DEF Barrier, imageVars, TypeInv
<1>6. CASE WaitTable(t)
  BY <1>1, <1>6 DEF WaitTable, imageVars, TypeInv
<1>7. CASE LeaveFds(t)
  BY <1>1, <1>7 DEF LeaveFds, imageVars, TypeInv
<1>8. CASE open_transport_fd(t)
  BY <1>1, <1>8 DEF open_transport_fd, AtStep, Advance, Fail, imageVars, TypeInv
<1>9. CASE open_fd_slave(t)
  <2>1. AtStep(t, "create") /\ recv_fd(t)
    BY <1>9 DEF open_fd_slave, recv_pipe_fd, open_unixsk_pair_slave, receive_tty
  <2> QED BY <1>1, <2>1 DEF recv_fd, AtStep, Install, Fail, imageVars, TypeInv
<1>10. CASE open_fd_master(t)
  <2>1. AtStep(t, "create") /\ SendEnds(t)
    BY <1>10 DEF open_fd_master, open_pipe, open_unixsk_pair_master, pty_open_ptmx, pty_open_unpaired_slave,
                 pty_open_slaves, bind_unix_sk, eventpoll_open
  <2> QED BY <1>1, <2>1 DEF SendEnds, AtStep, imageVars, TypeInv
<1>11. CASE open_fd_made(t)
  BY <1>1, <1>11 DEF open_fd_made, Install, Fail, imageVars, TypeInv
<1>12. CASE send_fd_to_peer(t)
  <2>1. /\ pc[t] \in {"opening", "serve"} /\ sys' = sys /\ image' = image /\ heads' = heads /\ rst' = rst
        /\ pc' = pc \/ pc' = [pc EXCEPT ![t] = "loop"] \/ pc' = [pc EXCEPT ![t] = "out"]
    BY <1>12 DEF send_fd_to_peer, Fail, imageVars
  <2> QED BY <1>1, <2>1 DEF TypeInv
<1>13. CASE receive_fd(t)
  BY <1>13 DEF receive_fd, AtStep, Advance, imageVars
<1>14. CASE post_open_unix_sk(t)
  BY <1>1, <1>14 DEF post_open_unix_sk, AtStep, Advance, Fail, imageVars, TypeInv
<1>15. CASE eventpoll_post_open(t)
  BY <1>15 DEF eventpoll_post_open, AtStep, Advance, imageVars
<1>16. CASE tty_restore_ctl_terminal(t)
  BY <1>16 DEF tty_restore_ctl_terminal, AtStep, Advance, imageVars
<1> QED BY <1>2, <1>3, <1>4, <1>5, <1>6, <1>7, <1>8, <1>9, <1>10, <1>11, <1>12, <1>13, <1>14, <1>15, <1>16
        DEF TaskStep

\* Nothing that the invariant speaks of changes.
LEMMA StutterStep ==
  ASSUME NEW g, Context(g), UNCHANGED vars
  PROVE  Inv0(g)'
<1>1. TypeInv(g) /\ PcInv(g) /\ ShareInv(g)
  BY ContextFacts
<1>2. KeepsAll /\ pc' = pc /\ fdt_lock' = fdt_lock
  BY DEF vars, KeepsAll
<1>3. TypeInv(g)'
  BY <1>1, <1>2 DEF TypeInv, KeepsAll
<1>4. PcInv(g)'
  BY <1>1, <1>2, PcFrame DEF PcInv, KeepsAll
<1>5. ShareInv(g)'
  BY <1>1, <1>2 DEF ShareInv, Entered, TableDone, KeepsAll
<1> QED BY <1>2, <1>3, <1>4, <1>5, QuietStep

\* Every step keeps the invariant.
LEMMA InvStep ==
  ASSUME LeaderOwns, NoInFlight, Inv, [Next]_vars
  PROVE  Inv'
<1>1. PICK g : g = Graph /\ Inv0(g)
  BY DEF Inv
<1>2. StaticInv /\ Phase
  BY DEF Inv
<1>3. Context(g)
  BY <1>1, <1>2 DEF Context
<1>4. g.tasks = Tasks
  BY <1>3, ContextFacts
<1>5. Inv0(g)'
  <2>1. CASE root_prepare_shared
    BY <1>3, <2>1, root_prepare_sharedStep
  <2>2. ASSUME NEW t \in Tasks, UseFd(t) \/ EnterFds(t) \/ TaskStep(t) PROVE Inv0(g)'
    <3>1. t \in g.tasks
      BY <1>4
    <3> QED BY <1>3, <2>2, <3>1, UseFdStep, EnterFdsStep, DropFdStep, BarrierStep, WaitTableStep, LeaveFdsStep,
            open_transport_fdStep, open_fd_slaveStep, open_fd_masterStep, open_fd_madeStep, send_fd_to_peerStep,
            receive_fdStep, post_open_unix_skStep, eventpoll_post_openStep, tty_restore_ctl_terminalStep DEF TaskStep
  <2>3. CASE UNCHANGED vars
    BY <1>3, <2>3, StutterStep
  <2> QED BY <2>1, <2>2, <2>3 DEF Next
<1>6. /\ sys' = sys /\ image' = image /\ heads' = heads
      /\ \/ rst' = Lists /\ \A s \in Tasks : pc'[s] = "before"
         \/ rst' = rst /\ pc' = pc
         \/ rst' = rst /\ (\E t \in Tasks : pc[t] # "unborn") /\ \A s \in Tasks : pc'[s] = "unborn" => pc[s] = "unborn"
  <2>1. CASE root_prepare_shared
    BY <2>1 DEF root_prepare_shared
  <2>2. ASSUME NEW t \in Tasks, UseFd(t) \/ EnterFds(t) \/ TaskStep(t)
        PROVE  /\ sys' = sys /\ image' = image /\ heads' = heads /\ rst' = rst
               /\ pc[t] # "unborn" /\ \A s \in Tasks : pc'[s] = "unborn" => pc[s] = "unborn"
    BY <1>3, <1>4, <2>2, TaskFrame
  <2>3. CASE UNCHANGED vars
    BY <2>3 DEF vars
  <2> QED BY <2>1, <2>2, <2>3 DEF Next
<1>7. /\ Graph' = Graph /\ Lists' = Lists /\ Owners' = Owners
      /\ \A f : fd_info_head(image, f)' = fd_info_head(image, f)
  BY <1>6, SameGraph
<1>8. StaticInv'
  BY <1>2, <1>6, <1>7 DEF StaticInv
<1>9. Phase'
  <2>1. Tasks' = Tasks
    BY <1>6 DEF Tasks
  <2> QED BY <1>2, <1>6, <1>7, <2>1 DEF Phase
<1> QED BY <1>1, <1>5, <1>7, <1>8, <1>9 DEF Inv

\* The invariant holds before the fork.
LEMMA InvInit ==
  ASSUME LeaderOwns, Init
  PROVE  Inv
<1>1. PICK g : g = Graph
  OBVIOUS
<1>2. StaticInv
  BY DEF Init, close_old_fds, StaticInv
<1>3. Good(g) /\ Holders(g) = Owners
  BY <1>1, <1>2, GraphGood, GraphOwners DEF Holders
<1>4. g.tasks = Tasks /\ g.sharers = Sharers /\ g.sharers \subseteq g.tasks
  BY <1>1, <1>3, GraphFields DEF Good, GoodOwners
<1>5. \A t \in g.tasks : step[t] = 1 /\ pc[t] = "unborn" /\ jobs[t] = <<>> /\ temp[t] = NoFile
  BY <1>4 DEF Init, close_old_fds
<1>6. \A t \in g.tasks : Did(g, t) = {}
  BY <1>3, <1>5, PlanFacts
<1>7. \A e \in g.fles : e[1] \in g.tasks /\ e \in g.tasks \X Descriptors
  BY <1>3 DEF Good, GoodFles
<1>8. Created(g) = {} /\ Prep(g) = {} /\ Shut(g) = {} /\ Making(g, "serve") = {} /\ Making(g, "opening") = {}
  BY <1>5, <1>6, <1>7 DEF Created, Prep, Shut, Making
<1>9. Hold(g) = {}
  BY <1>6, <1>7, <1>8 DEF Hold
<1>10. Out(g) = {}
  BY <1>8 DEF Out
<1>11. TypeInv(g)
  <2>1. table \in [{t \in g.tasks : g.owner[t] = t} -> [Descriptors -> Files \cup {Free, Transport, Temporary}]]
    BY <1>3 DEF Init, close_old_fds, Holders, Descriptors
  <2>2. inbox \in [g.tasks \X Descriptors -> Files \cup {NoFile}]
    BY <1>4 DEF Init, close_old_fds, Descriptors
  <2>3. /\ pc \in [g.tasks -> {"unborn", "before", "barrier", "wait", "done"} \cup Active]
        /\ step \in [g.tasks -> Nat \ {0}] /\ temp \in [g.tasks -> Fds \cup {NoFile}]
        /\ fdt_lock \in Nat /\ watched \in [Files -> SUBSET Files] /\ failed = {}
    BY <1>4 DEF Init, close_old_fds
  <2>4. jobs \in [g.tasks -> Seq(g.fles)]
    BY <1>4 DEF Init, close_old_fds
  <2> QED BY <2>1, <2>2, <2>3, <2>4 DEF TypeInv
<1>12. PcInv(g)
  BY <1>5 DEF PcInv, PcOf, Active
<1>13. ShareInv(g)
  <2>1. Entered(g) = {} /\ ~ TableDone(g)
    BY <1>4, <1>5 DEF Entered, TableDone
  <2>2. fdt_lock = 0 /\ Cardinality({}) = 0
    BY FS_EmptySet DEF Init, close_old_fds
  <2> QED BY <1>4, <1>5, <2>1, <2>2 DEF ShareInv, Active
<1>14. Tables(g, {}, {}, {})
  <2>1. \A o, x : ~ TempAt(g, o, x)
    BY <1>4, <1>5 DEF TempAt
  <2>2. \A e : Content(g, {}, {}, {}, e) = Free
    BY DEF Content
  <2>3. \A o \in Holders(g), x \in Descriptors : table[o][x] = Free
    BY <1>3 DEF Init, close_old_fds, Descriptors
  <2> QED BY <2>1, <2>2, <2>3 DEF Tables, Holders
<1>15. Queues(g, {}, {}, {})
  BY <1>4, <1>7 DEF Init, close_old_fds, Queues, Descriptors
<1>16. CttyInv(g)
  BY <1>8 DEF CttyInv
<1>17. Inv0(g)
  BY <1>8, <1>9, <1>10, <1>11, <1>12, <1>13, <1>14, <1>15, <1>16 DEF Inv0
<1>18. Phase
  BY <1>4, <1>5 DEF Phase
<1> QED BY <1>1, <1>2, <1>17, <1>18 DEF Inv

\* Whoever restored a table has all its files, and closed its service descriptor.
LEMMA DoneFacts ==
  ASSUME NEW g, Context(g), NEW t \in Holders(g), pc[t] = "done", NEW e \in g.fles, e[1] = t
  PROVE  e \in Hold(g) /\ (e \in Shut(g) <=> e[2] = CTL_TTY)
<1>1. Good(g) /\ TypeInv(g) /\ PcInv(g)
  BY ContextFacts
<1>2. t \in g.tasks /\ g.owner[t] = t
  BY DEF Holders
<1>3. step[t] \in Nat \ {0} /\ step[t] = Len(g.plan[t]) + 1
  BY <1>1, <1>2 DEF TypeInv, PcInv, PcOf
<1>4. Len(g.plan[t]) \in Nat
  BY <1>1, <1>2 DEF Good, GoodPlan, Enumerates
<1>5. step[t] > Len(g.plan[t])
  BY <1>3, <1>4
<1>6. Early(g, t) \cup Late(g, t) \subseteq Did(g, t)
  BY <1>1, <1>2, <1>3, <1>5, PlanFacts
<1>7. e \in Hold(g)
  BY <1>1, <1>6, AllHeld
<1>8. e[2] = CTL_TTY => <<"post_create", e>> \in Did(g, t)
  BY <1>1, <1>6, StepKinds DEF Good, GoodFles
<1> QED BY <1>7, <1>8 DEF Shut

\* The invariant is enough.
LEMMA InvInPlace ==
  ASSUME LeaderOwns, NoInFlight, Inv
  PROVE  NobodyFails /\ FilesInPlace
<1>1. PICK g : g = Graph /\ Context(g)
  <2>1. PICK g : g = Graph /\ Inv0(g)
    BY DEF Inv
  <2> QED BY <2>1 DEF Inv, Context
<1>2. /\ TypeInv(g) /\ CttyInv(g) /\ Holders(g) = Owners /\ g.fles = Fles(image)
      /\ Tables(g, Prep(g), Hold(g), Shut(g))
  BY <1>1, ContextFacts
<1>3. StaticInv
  BY DEF Inv
<1>4. NobodyFails
  BY <1>2 DEF TypeInv, NobodyFails
<1>5. TablesInPlace
  <2> SUFFICES ASSUME NEW t \in Owners, pc[t] = "done"
               PROVE  /\ \A fd \in Fds : image[t][fd] # NoFile => table[t][fd] = image[t][fd]
                      /\ \A fd \in Fds : image[t][fd] = NoFile => table[t][fd] \in {Free, Temporary}
                      /\ table[t][CTL_TTY] = Free
    BY DEF TablesInPlace
  <2>1. t \in Holders(g)
    BY <1>2
  <2>2. \A fd \in Descriptors :
          IF TempAt(g, t, fd) THEN table[t][fd] = Temporary /\ Content(g, Prep(g), Hold(g), Shut(g), <<t, fd>>) = Free
          ELSE table[t][fd] = Content(g, Prep(g), Hold(g), Shut(g), <<t, fd>>)
    BY <1>2, <2>1 DEF Tables, Holders
  <2>3. ASSUME NEW fd \in Fds, image[t][fd] # NoFile PROVE table[t][fd] = image[t][fd]
    <3>1. PICK e \in g.fles : e = <<t, fd>> /\ desc(image, e) = image[t][fd]
      <4>1. <<t, fd>> \in Fles(image) /\ desc(image, <<t, fd>>) = image[t][fd]
        BY <1>3, <2>3, EntryFacts
      <4> QED BY <1>2, <4>1
    <3>2. e[1] = t /\ e[2] = fd /\ fd \in Descriptors /\ fd # CTL_TTY
      BY <3>1, ServiceFd DEF Descriptors
    <3>3. e \in Hold(g) /\ e \notin Shut(g)
      BY <1>1, <2>1, <3>2, DoneFacts
    <3>4. table[t][fd] = g.file[<<t, fd>>]
      BY <1>1, <2>1, <3>1, <3>2, <3>3, HeldInTable
    <3>5. g.file[e] = desc(image, e)
      BY <1>1, <1>2, GraphFields
    <3> QED BY <3>1, <3>4, <3>5
  <2>4. ASSUME NEW fd \in Fds, image[t][fd] = NoFile PROVE table[t][fd] \in {Free, Temporary}
    <3>1. <<t, fd>> \notin g.fles /\ fd \in Descriptors
      BY <1>2, <1>3, <2>4, EntryFacts DEF Descriptors
    <3>2. Content(g, Prep(g), Hold(g), Shut(g), <<t, fd>>) = Free
      BY <3>1 DEF Content
    <3> QED BY <2>2, <3>1, <3>2
  <2>5. table[t][CTL_TTY] = Free
    <3>1. ~ TempAt(g, t, CTL_TTY)
      <4>1. \A s \in g.sharers : temp[s] # NoFile => temp[s] # CTL_TTY
        BY <1>1, <1>2, ServiceFd, SharerFacts DEF TypeInv
      <4> QED BY <4>1 DEF TempAt
    <3>2. PICK e : e = <<t, CTL_TTY>>
      OBVIOUS
    <3>3. e \in g.fles => e \in Hold(g) /\ e \in Shut(g)
      BY <1>1, <2>1, <3>2, DoneFacts
    <3>4. Content(g, Prep(g), Hold(g), Shut(g), e) = Free
      BY <3>3 DEF Content
    <3>5. CTL_TTY \in Descriptors
      BY DEF Descriptors
    <3> QED BY <2>2, <3>1, <3>2, <3>4, <3>5
  <2> QED BY <2>3, <2>4, <2>5
<1>6. EpollSeesFiles
  BY <1>2, Constants DEF EpollSeesFiles, TypeInv
<1>7. LeaderHasTerminal
  <2> SUFFICES ASSUME leader # 0, pc[leader] = "done", PtmxOf(image) # {} PROVE leader \in ctty
    BY DEF LeaderHasTerminal
  <2>1. PICK e \in g.fles : e = <<leader, CTL_TTY>> /\ leader \in Owners
    BY <1>2, <1>3, EntryFacts
  <2>2. leader \in Holders(g) /\ e[1] = leader /\ e[2] = CTL_TTY
    BY <1>2, <2>1
  <2>3. e \in Shut(g)
    BY <1>1, <2>2, DoneFacts
  <2> QED BY <1>2, <2>2, <2>3 DEF CttyInv
<1> QED BY <1>4, <1>5, <1>6, <1>7 DEF FilesInPlace

-----------------------------------------------------------------------------
(* The theorems *)

\* At every moment the descriptors, the transports and what is queued on them are
\* as the plans of the tasks and their positions in them say: the invariant that
\* the protocol of files.c rests on.
THEOREM DescriptorsFollowThePlans ==
  LeaderOwns /\ NoInFlight => (Spec => []Inv)
<1>1. LeaderOwns /\ Init => Inv
  BY InvInit
<1>2. LeaderOwns /\ NoInFlight /\ Inv /\ [Next]_vars => Inv'
  BY InvStep
<1>3. SUFFICES ASSUME LeaderOwns, NoInFlight PROVE Spec => []Inv
  OBVIOUS
<1>4. Init => Inv
  BY <1>1, <1>3
<1>5. Inv /\ [Next]_vars => Inv'
  BY <1>2, <1>3
<1> QED BY <1>4, <1>5, PTL DEF Spec

\* Whatever the tasks, the files and the order in which the tasks run, reopen_fd_as()
\* never finds a descriptor in use, send_fd_to_peer() always finds its transport
\* socket in place and no connect() is refused, so prepare_fds() fails for nobody.
THEOREM PrepareFdsNeverFails ==
  LeaderOwns /\ NoInFlight => (FairSpec => []NobodyFails)
<1> SUFFICES ASSUME LeaderOwns, NoInFlight PROVE FairSpec => []NobodyFails
  OBVIOUS
<1>1. Spec => []Inv
  BY DescriptorsFollowThePlans
<1>2. Inv => NobodyFails
  BY InvInPlace
<1> QED BY <1>1, <1>2, PTL DEF FairSpec

\* Whoever leaves prepare_fds() leaves in every descriptor of the table it restored
\* the file of the image and no transport, has given its eventpoll files nothing but
\* files to watch, and has its controlling terminal if it leads the session.
THEOREM EveryTableIsRestored ==
  LeaderOwns /\ NoInFlight => (FairSpec => []FilesInPlace)
<1> SUFFICES ASSUME LeaderOwns, NoInFlight PROVE FairSpec => []FilesInPlace
  OBVIOUS
<1>1. Spec => []Inv
  BY DescriptorsFollowThePlans
<1>2. Inv => FilesInPlace
  BY InvInPlace
<1> QED BY <1>1, <1>2, PTL DEF FairSpec
=============================================================================
