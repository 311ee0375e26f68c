SPECIFICATION Spec
CONSTANTS
  PromptLength = 2
  ResponseLength = 5
  MaxAssistantTurns = 0
  MaxUserTurns = 0
  MaxParallelCalls = 2
  MaxCalls = 3
  MaxToolTokens = 2
  PartialRollout = TRUE
  SeenOutcomes = {"docs", "truncated", "empty_result", "timeout", "http_error", "invalid_json", "raised"}
CHECK_DEADLOCK FALSE
INVARIANTS MaskMarksTheModel ContextBounded MetricsAgree
PROPERTY LoopEnds
