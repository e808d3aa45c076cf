----------------------------- MODULE MCFdRestore -----------------------------
(* Families of files for FdRestore. *)
EXTENDS FdRestore

System(tasks, files) == [tasks |-> tasks, files |-> files, sharers |-> {}, leader |-> 0]

PairFiles == {"pr", "pw", "sa", "sb"}  \* the ends of a pipe and of a socketpair
TtyFiles == {"pr", "pw", "ptm", "pts"} \* a pipe and the two ends of a pty
AllFiles == PairFiles \cup TtyFiles \cup {"pts2", "ep", "d1", "d2", "ls", "cs"}

\* Each asks one question: an end that is passed on; crosswise waits of pipes
\* and pairs; epoll; a pty whose leader is anybody; slave ends without their
\* master; a name that is waited for (d2 is connected to d1); a shared table.
MCSystems ==
  { System({1, 2, 3}, {"pr", "pw"}),
    System({1, 2}, PairFiles),
    System({1, 2}, {"pr", "pw", "ep"}),
    System({1, 2}, {"pts", "pts2", "sa"}),
    System({1, 2}, {"sa", "sb", "d1", "d2"}),
    [System({1, 2, 3}, {"pr", "pw"}) EXCEPT !.sharers = {1, 2}],
    [System({1, 2}, TtyFiles) EXCEPT !.leader = 2],
    [System({1, 2}, {"ptm", "pts"}) EXCEPT !.leader = 1] }

\* In no run, see the README: cs is connected to ls and waits to be accepted.
InFlight == {System({1, 2}, {"ls", "cs"})}

\* Nor is this: the session leader shares its table with a task of a smaller pid.
SharedLeader ==
  {[tasks |-> {1, 2}, files |-> {"ptm", "pts"}, sharers |-> {1, 2}, leader |-> 2]}

KindOf(f) ==
  CASE f \in {"pr", "pw"} -> "pipe"
    [] f \in {"sa", "sb"} -> "pair"
    [] f \in {"pts", "pts2"} -> "pts"
    [] f = "ptm" -> "ptmx"
    [] f \in {"d1", "d2"} -> "dgram"
    [] f = "ls" -> "listen"
    [] f = "cs" -> "stream"
    [] OTHER -> "epoll"
GroupOf(f) ==
  CASE KindOf(f) = "pipe" -> 1
    [] KindOf(f) = "pair" -> 2
    [] KindOf(f) \in {"ptmx", "pts"} -> 3
    [] OTHER -> 0
PeerOf(f) == CASE f = "d2" -> "d1" [] f = "cs" -> "ls" [] OTHER -> NoFile

MCKind == [f \in Files |-> KindOf(f)]
MCGroup == [f \in Files |-> GroupOf(f)]
MCPeer == [f \in Files |-> PeerOf(f)]
=============================================================================
