CONSTANTS
  Tables <- MCTables
  MaxBytes = 2
  PeerBytes = 1
  SeqBits = 2
  FirstSeq = 3
SPECIFICATION FairSpec
INVARIANTS StreamIntact PortsRestored
PROPERTY Delivered
CHECK_DEADLOCK FALSE
