CONSTANTS
  Connection = {1, 2}
  MaxListeners = 2
  MaxSockets = 2
  MaxOutgoing = 1
SPECIFICATION Spec
INVARIANTS TypeOK RegistryConsistent NoStaleConnections NoForgottenConnections SocketsInv
PROPERTIES PortsKept EndedIsRemoved
CHECK_DEADLOCK FALSE
