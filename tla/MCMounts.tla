------------------------------ MODULE MCMounts ------------------------------
EXTENDS Mounts
MCPaths == {<<"a">>, <<"b">>, <<"d">>, <<"a", "c">>, <<"a", "c", "e">>}
MCSubRoots == {<< >>, <<"c">>}

\* /a shared, with a peer on /d and a slave on /b.
PeersAndSlave ==
  LET a == KShared(KMount({RootMount}, <<"a">>, 2), 2)
      d == KBind(a, <<"a">>, << >>, <<"d">>)
  IN  KSlave(KBind(d, <<"a">>, << >>, <<"b">>), 4)

\* And a second slave, on /f, that shows the directory e.
TwoSlaves == KSlave(KBind(PeersAndSlave, <<"a">>, <<"e">>, <<"f">>), 5)
OneMount == {KMount({RootMount}, p, 2) : p \in {<<"a">>, <<"b">>}}
MCStarts == {{RootMount}, PeersAndSlave, TwoSlaves} \cup OneMount
=============================================================================
