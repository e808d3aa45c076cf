--------------------------- MODULE MCMemSnapshots ---------------------------
(* Scripts for MemSnapshots, after those in test/mem-snap. *)
EXTENDS MemSnapshots

Cmd(cmd, prev, track, leave) ==
  [cmd |-> cmd, prev |-> prev, track |-> track, leave |-> leave,
   dedup |-> FALSE, server |-> FALSE]

PreDump == Cmd("pre-dump", TRUE, TRUE, TRUE)
Snapshot == Cmd("dump", TRUE, TRUE, TRUE)
Look == Cmd("dump", TRUE, FALSE, TRUE)      \* dump, but go on without tracking
FinalDump == Cmd("dump", TRUE, FALSE, FALSE)
AutoDedup(c) == [c EXCEPT !.dedup = TRUE]
ToServer(c) == [c EXCEPT !.server = TRUE]

MCScripts ==
  { <<PreDump, PreDump>>,
    <<PreDump, FinalDump>>,
    <<Snapshot, Snapshot, AutoDedup(FinalDump)>>,
    <<Snapshot, Look, FinalDump>>,
    <<ToServer(PreDump), AutoDedup(ToServer(FinalDump))>> }
=============================================================================
