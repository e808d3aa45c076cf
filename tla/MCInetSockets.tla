--------------------------- MODULE MCInetSockets ---------------------------
EXTENDS InetSockets
Socket(t, k, p, r) == [task |-> t, kind |-> k, port |-> p, reuse |-> r]
\* A listener and a connection it accepted, in one task or in two, and
\* datagram sockets that share a port.
MCTables ==
  { <<Socket(1, "conn", 80, TRUE), Socket(1, "listen", 80, TRUE)>>,
    <<Socket(1, "listen", 80, TRUE), Socket(1, "conn", 80, FALSE)>>,
    <<Socket(1, "conn", 80, FALSE), Socket(2, "listen", 80, FALSE)>> }
  \cup { <<Socket(1, "dgram", 53, TRUE), Socket(2, "dgram", 53, r), Socket(2, "dgram", 53, q)>> : r, q \in BOOLEAN }
=============================================================================
