\* Polling, websocket and the upgrade, with a channel that may be full and a connection that may break.
CONSTANTS
  Sender = {s1, s2}
  Getter = {g1}
  Attachments = 1
  MaxPayloads = 1
  SendCap = 2
  Fresh = {"polling", "websocket"}
  CanUpgrade = TRUE
  Faults = TRUE
SPECIFICATION FairSpec
INVARIANTS ReceivedIsPrefix PollIntact
PROPERTIES SettledIsDelivered VanishedSocketIsForgotten 
CHECK_DEADLOCK FALSE
