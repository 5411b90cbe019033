SPECIFICATION Spec
CONSTANTS
  SseReplies <- MCSseReplies
  PlainReplies <- MCPlainReplies
CHECK_DEADLOCK FALSE
INVARIANTS
  CompletionNeedsReply
