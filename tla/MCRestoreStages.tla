-------------------------- MODULE MCRestoreStages ---------------------------
(* Process trees for the runs of RestoreStages. *)
EXTENDS RestoreStages, TLC

CONSTANTS root, kid, hlp, z1, z2, th, th2

\* root has a thread, two zombies and a stopped child with a thread; the helper
\* leads a process group for the child.
TreeA == (root :> Criu) @@ (kid :> root) @@ (hlp :> kid) @@ (z1 :> root) @@ (z2 :> root)
KindA == (root :> "alive") @@ (kid :> "stopped") @@ (hlp :> "helper")
           @@ (z1 :> "dead") @@ (z2 :> "dead")

\* root has a helper whose child is adopted when the helper exits.
TreeB == (root :> Criu) @@ (hlp :> root) @@ (kid :> hlp) @@ (z1 :> root)
KindB == (root :> "alive") @@ (hlp :> "helper") @@ (kid :> "alive") @@ (z1 :> "dead")

\* The helper's child is a zombie: in no run, the restore does not end (README).
TreeC == (root :> Criu) @@ (hlp :> root) @@ (z1 :> hlp)
KindC == (root :> "alive") @@ (hlp :> "helper") @@ (z1 :> "dead")
OwnerC == th :> root

OwnerBoth == (th :> root) @@ (th2 :> kid)
OwnerKid  == th :> kid

\* The helper leads the group of the child (and, in TreeA, of a zombie).
LeaderA == (root :> root) @@ (kid :> hlp) @@ (hlp :> hlp) @@ (z1 :> hlp) @@ (z2 :> Outside)
LeaderB == (root :> Outside) @@ (hlp :> hlp) @@ (kid :> hlp) @@ (z1 :> z1)
LeaderC == [t \in {root, hlp, z1} |-> Outside]
=============================================================================
