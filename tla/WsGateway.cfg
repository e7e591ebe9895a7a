CONSTANTS
  Topics = {chat, doc}
  Gated = {doc}
  chat = chat  doc = doc
  Capacity = 1
  OutCap = 2
  MaxQueued = 2
  MaxSockets = 2
  MaxRefs = 2
  MaxLog <- MCMaxLog
  MaxSends = 1
SPECIFICATION FairSpec
INVARIANTS TypeOK StreamsSound GatewaySound
PROPERTY QueuedGoesOut
CHECK_DEADLOCK FALSE
