SPECIFICATION FairSpec
CONSTANTS
  Pids = {1, 2, 3}
  Fds = {3, 4}
  Files <- AllFiles
  NoFile = NoFile
  Kind <- MCKind
  Group <- MCGroup
  Peer <- MCPeer
  Systems <- MCSystems
INVARIANTS NobodyFails FilesInPlace
PROPERTIES EverybodyRestored
CHECK_DEADLOCK FALSE
