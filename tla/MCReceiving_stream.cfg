\* Binary packets of a client with two namespaces, in POSTs and over a websocket.
CONSTANTS
  Stream <- TwoNamespaces
  Hazards = {"close", "kick", "split"}
  None = None
SPECIFICATION Spec
INVARIANTS ReceivedIntact NoneRefused FreedOnce
CHECK_DEADLOCK FALSE
