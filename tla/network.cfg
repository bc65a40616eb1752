SPECIFICATION Spec
CONSTANTS
  None = None
  Routers = {"in1", "in2", "out1"}
  Outbound = {"out1"}
  Keys = {"k"}
  Key <- OnePeer
  ChannelSize = 2
INVARIANT ClosedInboundPeersLeave
PROPERTIES OutcomesAgree PermanentIsConnected AnnouncedIsInserted
CHECK_DEADLOCK FALSE
