-------------------------- MODULE MCRestoreMemory --------------------------
EXTENDS RestoreMemory
Vma(s, l, k, cow, id, off) == [start |-> s, end |-> s + l, kind |-> k, cow |-> cow, id |-> id, off |-> off]
\* A parent with two private areas, the second a stack or not, and a mapping
\* of either segment.  The child has them in the other order, one as a
\* second part that the parent does not see, and an area of its own or the
\* one it inherited.  Either of them has the lower pid.
ParentVmas(a, b, k) ==
  <<Vma(a, 1, "shared", FALSE, 1, 0), Vma(a + 1, 2, "anon", FALSE, 0, 0),
    Vma(b, 2, k, FALSE, 0, 0), Vma(b + 2, 1, "shared", FALSE, 2, 0)>>
ChildVmas(a, b, k, own) ==
  <<Vma(a, 2, "shared", FALSE, 2, 0), Vma(a + 2, 1, "shared", FALSE, 1, 0)>>
    \o IF own THEN <<Vma(9, 3, "file", FALSE, 1, 0)>> ELSE <<Vma(b, 2, k, TRUE, 0, 0)>>
MCTrees ==
  { [root |-> r, vmas |-> [t \in {1, 2} |-> IF t = r THEN ParentVmas(a, b, k) ELSE ChildVmas(c, b, k, own)]] :
      r \in {1, 2}, a \in {1, 3}, b \in {6, 7, 8}, k \in {"stack", "anon"}, c \in {1, 3}, own \in BOOLEAN }
=============================================================================
