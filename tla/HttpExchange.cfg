SPECIFICATION FairSpec
CONSTANTS
  SseReplies <- MCSseReplies
  PlainReplies <- MCPlainReplies
CHECK_DEADLOCK FALSE
INVARIANTS
  FrameOutlivesReader
  SenderWakes
  ChunksDoNotMatter
  EndIsGenuine
  OneAnswer
PROPERTIES
  ExchangeEnds
  ObserverSettles
