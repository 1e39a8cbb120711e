CONSTANTS
  Pid <- Pids
  Peer <- Peers
  Owner <- Owners
  PeerUid <- PeerUids
  Protected = {}
  LeaseTtl = 2
  LeaseDebounce = 1
  MaxLife = 2
  MaxSpoken = 3
SPECIFICATION LeaseSpec
CHECK_DEADLOCK FALSE
INVARIANT ClearIsLastWord
