SPECIFICATION Spec
CONSTANTS
  Words = {"nl", "sp", "word", "<think>", "</th", "ink>"}
  ToolWords = {"nl", "word", "call", "name", "scalar",
               "<tool_call>", "</tool_call>", "<tool_use>", "</tool_use>"}
  Want <- Wishes
  MaxText = 6
  MaxToolText = 6
  MaxChunk = 2
  Unbounded = Unbounded
\* A generation ends.
CHECK_DEADLOCK FALSE
INVARIANTS StreamIsBuffered NothingLost CallsOrText
