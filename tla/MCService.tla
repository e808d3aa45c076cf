----------------------------- MODULE MCService -----------------------------
EXTENDS Service
CONSTANTS app, mgr, a, m
Dump(p, l, d) == [type |-> "DUMP", pid |-> p, leave |-> l, dir |-> d]
Restore(d) == [type |-> "RESTORE", pid |-> NoPid, leave |-> FALSE, dir |-> d]
Plain(t) == [type |-> t, pid |-> NoPid, leave |-> FALSE, dir |-> a]
Both(p, q) == (app :> p) @@ (mgr :> q)
\* A program that dumps itself or asks for something else, and a manager
\* that dumps and restores it.
MCPrograms ==
  { Both(<<Dump(NoPid, FALSE, a)>>, <<Restore(a)>>),
    Both(<<Dump(NoPid, TRUE, a)>>, <<Dump(app, FALSE, m), Restore(m)>>),
    Both(<<Dump(NoPid, TRUE, a)>>, <<Restore(a)>>),
    Both(<<Dump(app, FALSE, a)>>, <<Restore(a)>>),
    Both(<<Dump(mgr, FALSE, a)>>, <<Plain("CHECK")>>),
    Both(<<Plain("OTHER")>>, <<Dump(app, TRUE, m)>>) }
=============================================================================
