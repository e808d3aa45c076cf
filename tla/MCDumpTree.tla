----------------------------- MODULE MCDumpTree -----------------------------
(* Instances of DumpTree for TLC. *)
EXTENDS DumpTree

Run(l, pp) == [st |-> "run", lead |-> l, ppid |-> pp]
Tr(f) == [p \in Pids |-> IF p \in DOMAIN f THEN f[p] ELSE NoProc(p)]

\* Root with a thread and a child; Root with a stopped child, a zombie and
\* room for two more; Root with a child that has a child.
MCTrees ==
  {Tr((1 :> Run(1, 0)) @@ (2 :> Run(1, 0)) @@ (3 :> Run(3, 1))),
   Tr((1 :> Run(1, 0)) @@ (2 :> [Run(2, 1) EXCEPT !.st = "stop"])
                       @@ (3 :> [Run(3, 1) EXCEPT !.st = "zombie"])),
   Tr((1 :> Run(1, 0)) @@ (2 :> Run(2, 1)) @@ (3 :> Run(3, 2)))}

F(s, i, side) == [step |-> s, item |-> i, side |-> side]
NoFault == F("none", 0, "none")
MCFaults ==
  {NoFault, F("killed", 0, "none"), F("post-dump", 0, "criu")}
  \cup {F(s, 0, "criu") : s \in {"inventory", "network_lock", "zombies", "tty_pairs", "disconnect",
                                "write_pages"}}
  \cup {F(s, i, "criu") : i \in {1, 2},
          s \in {"fds", "infect", "map_files", "start_daemon", "files", "pages", "thread", "rlims"}}
  \cup {F(s, i, "daemon") : i \in {1, 2}, s \in {"misc", "protect", "pages"}}
\* In no run: a failure that a pre-dump forgets.
PreDumpFault == {F("misc", 2, "daemon")}
=============================================================================
